-------------------------- MODULE BotPollingProofs --------------------------
(***************************************************************************)
(* Proofs about BotPolling, for any number of updates, starts, actors and  *)
(* crashes: the inductive invariant IInv and what follows from it.         *)
(* Each part of it depends on few of the variables, so each has a lemma    *)
(* with the steps that change those.                                       *)
(***************************************************************************)
EXTENDS BotPolling, FiniteSetTheorems, TLAPS

USE PollingAssumption DEF Start, Life, Sent, None

\* The set of chats of an actor is finite, so that its size is a number.
LEMMA ChatsCounted == ASSUME ActorType, life # 0 PROVE Cardinality(chats[life]) \in Nat
<1>1. chats[life] \in SUBSET (1 .. MaxUpdates)
  BY DEF ActorType
<1>2. IsFiniteSet(1 .. MaxUpdates)
  BY FS_Interval
<1> QED
  BY <1>1, <1>2, FS_Subset, FS_CardinalityType

\* What a batch holds are updates Telegram has received.
LEMMA BatchIsSent ==
    ASSUME FetchType, UpdateType, FetchInv, NEW s \in Start, call[s].at = "answered"
    PROVE  /\ Batch(s) \subseteq Sent
           /\ \A u \in Sent : u \in Batch(s) <=> call[s].first <= u /\ u <= call[s].last
           /\ call[s].first \in Nat /\ call[s].last \in Nat
<1>1. call[s].first \in Nat \ {0} /\ call[s].last \in 0 .. arrived
  BY DEF FetchType, Call, UpdateType, FetchInv, AnswerInv
<1> QED
  BY <1>1 DEF Batch, UpdateType

\* The initial states satisfy the inductive invariant.
LEMMA InitIInv == Init => IInv
<1> SUFFICES ASSUME Init PROVE IInv
  OBVIOUS
<1>1. ActorType
  BY DEF Init, ActorType
<1>2. DispatcherType
  <2>1. run \in [Start -> RunState] /\ started \in 0 .. MaxStarts /\ holder \in 0 .. MaxStarts
    BY DEF Init, RunState
  <2>2. stop \in BOOLEAN
    BY Zenon DEF Init
  <2> QED
    BY <2>1, <2>2 DEF DispatcherType
<1>3. FetchType /\ UpdateType
  BY DEF Init, FetchType, Call, UpdateType, NoCall
<1>4. FetchInv
  BY DEF Init, FetchInv, OffsetInv, AnswerInv, RequestInv, NoCall
<1>5. LockInv
  BY DEF Init, LockInv, HolderInv, OrderInv, ExitInv, Polls, Ending, NotEnded
<1>6. TaskInv
  BY DEF Init, TaskInv, Handed
<1> QED
  BY <1>1, <1>2, <1>3, <1>4, <1>5, <1>6 DEF IInv, TypeOK
-----------------------------------------------------------------------------
(* Types.                                                                  *)

\* The steps keep the types of the actor's variables.
LEMMA ActorTypes == ASSUME ActorType, DispatcherType, UpdateType, ExitInv, Next PROVE ActorType'
<1> USE DEF ActorType, Over
<1>1. CASE Create
  BY <1>1 DEF Create
<1>2. CASE StartCommand
  BY <1>2 DEF StartCommand, DispatcherType
<1>3. CASE Crash
  BY <1>3 DEF Crash
<1>4. CASE ExitBegins
  <2>1. Cardinality(chats[life]) \in Nat
    BY <1>4, ChatsCounted DEF ExitBegins, ExitInv
  <2> QED
    BY <1>4, <2>1 DEF ExitBegins, StopPolling
<1>5. CASE ExitTold
  BY <1>5 DEF ExitTold, StopPolling
<1>6. CASE ExitCancels
  BY <1>6 DEF ExitCancels
<1>7. ASSUME NEW s \in Start, End(s) PROVE ActorType'
  BY <1>7 DEF End
<1>8. ASSUME NEW t \in tasks, Finish(t) PROVE ActorType'
  <2>1. t.actor \in Life /\ t.update \in Sent
    BY DEF UpdateType
  <2>2. chats' \in [Life -> SUBSET Sent]
    BY <1>8, <2>1 DEF Finish
  <2> QED
    BY <1>8, <2>2 DEF Finish
<1>9. ASSUME NEW s \in Start, Begin(s) \/ Granted(s) \/ Me(s) \/ NoticeStop(s) \/ Poller(s)
      PROVE  ActorType'
  <2>1. UNCHANGED actorVars
    BY <1>9 DEF Begin, Granted, Me, NoticeStop, Poller, Fetch, FetchFails, Take, Receive
  <2> QED
    BY <2>1 DEF actorVars
<1>10. CASE UserSends
  BY <1>10 DEF UserSends, actorVars
<1> QED
  BY <1>1, <1>2, <1>3, <1>4, <1>5, <1>6, <1>7, <1>8, <1>9, <1>10 DEF Next, Exit, Polling

\* The steps keep the types of the dispatcher's variables.
LEMMA DispatcherTypes == ASSUME DispatcherType, Next PROVE DispatcherType'
<1> USE DEF DispatcherType, RunState
<1>1. CASE StartCommand
  BY <1>1 DEF StartCommand
<1>2. CASE Crash
  <2>1. run' = [s \in Start |-> IF run[s] \in NotEnded THEN "lost" ELSE run[s]]
    BY <1>2 DEF Crash
  <2>2. run' \in [Start -> RunState]
    BY <2>1
  <2>3. stop' \in BOOLEAN
    BY <1>2, Zenon DEF Crash
  <2>4. holder' \in 0 .. MaxStarts /\ started' \in 0 .. MaxStarts
    BY <1>2 DEF Crash
  <2> QED
    BY <2>2, <2>3, <2>4
<1>3. CASE Exit
  BY <1>3 DEF Exit, ExitBegins, ExitTold, ExitCancels, StopPolling, dispatcherVars
<1>4. ASSUME NEW s \in Start, Polling(s) PROVE DispatcherType'
  <2>1. run' \in [Start -> RunState]
    BY <1>4 DEF Polling, Begin, Granted, Acquire, Me, NoticeStop, End
  <2>2. holder' \in 0 .. MaxStarts /\ started' = started
    BY <1>4 DEF Polling, Begin, Granted, Acquire, Me, NoticeStop, End
  <2>3. stop' \in {stop, FALSE}
    BY <1>4, Zenon DEF Polling, Begin, Granted, Acquire, Me, NoticeStop, End
  <2> QED
    BY <2>1, <2>2, <2>3
<1>5. ASSUME \/ Create \/ UserSends \/ \E s \in Start : Poller(s)
             \/ \E t \in tasks : Finish(t)
      PROVE  DispatcherType'
  <2>1. UNCHANGED dispatcherVars
    BY <1>5 DEF Create, UserSends, Poller, Fetch, FetchFails, Take, Receive, Finish
  <2> QED
    BY <2>1 DEF dispatcherVars
<1> QED
  BY <1>1, <1>2, <1>3, <1>4, <1>5 DEF Next

\* The steps keep the types of the pollers' variables.
LEMMA FetchTypes == ASSUME FetchType, UpdateType, FetchInv, Next PROVE FetchType'
<1> USE DEF FetchType, Call
<1>1. CASE Crash
  BY <1>1 DEF Crash, NoCall
<1>2. ASSUME NEW s \in Start, NoticeStop(s) PROVE FetchType'
  BY <1>2 DEF NoticeStop, NoCall
<1>3. ASSUME NEW s \in Start, Fetch(s) PROVE FetchType'
  <2>1. call' \in [Start -> Call]
    BY <1>3 DEF Fetch
  <2>2. requests' \subseteq [start : Start, offset : Nat] /\ offset' = offset
    BY <1>3 DEF Fetch
  <2> QED
    BY <2>1, <2>2
<1>4. ASSUME NEW s \in Start, FetchFails(s) PROVE FetchType'
  BY <1>4 DEF FetchFails, NoCall
<1>5. ASSUME NEW s \in Start, Take(s) PROVE FetchType'
  <2>1. PICK r \in requests :
            call' = IF call[s].at = "asked"
                    THEN [call EXCEPT ![s] =
                            [at |-> "answered",
                             first |-> (IF r.offset > confirmed + 1
                                        THEN r.offset - 1 ELSE confirmed) + 1,
                             last |-> arrived]]
                    ELSE call
    BY <1>5 DEF Take
  <2>2. (IF r.offset > confirmed + 1 THEN r.offset - 1 ELSE confirmed) + 1 \in Nat
        /\ arrived \in Nat
    BY DEF UpdateType
  <2>3. call' \in [Start -> Call]
    BY <2>1, <2>2
  <2>4. requests' \subseteq requests /\ offset' = offset
    BY <1>5 DEF Take
  <2> QED
    BY <2>3, <2>4
<1>6. ASSUME NEW s \in Start, Receive(s) PROVE FetchType'
  BY <1>6 DEF Receive, NoCall
<1>7. ASSUME \/ Create \/ StartCommand \/ UserSends \/ Exit
             \/ \E s \in Start : Begin(s) \/ Granted(s) \/ Me(s) \/ End(s)
             \/ \E t \in tasks : Finish(t)
      PROVE  FetchType'
  <2>1. UNCHANGED fetchVars
    BY <1>7 DEF Create, StartCommand, UserSends, Exit, ExitBegins, ExitTold, ExitCancels, Begin,
                Granted, Me, End, Finish
  <2> QED
    BY <2>1 DEF fetchVars
<1> QED
  BY <1>1, <1>2, <1>3, <1>4, <1>5, <1>6, <1>7 DEF Next, Polling, Poller

\* The steps keep the types of the updates' variables.
LEMMA UpdateTypes ==
    ASSUME FetchType, UpdateType, ActorType, DispatcherType, FetchInv, LockInv, Next
    PROVE  UpdateType'
<1> USE DEF UpdateType
<1>1. CASE Crash
  BY <1>1 DEF Crash, telegramVars
<1>2. CASE UserSends
  BY <1>2 DEF UserSends, taskVars
<1>3. ASSUME NEW s \in Start, Take(s) PROVE UpdateType'
  BY <1>3 DEF Take, taskVars, FetchInv, OffsetInv, RequestInv, FetchType
<1>4. ASSUME NEW s \in Start, Receive(s) PROVE UpdateType'
  <2>1. Batch(s) \subseteq Sent
    BY <1>4, BatchIsSent DEF Receive
  <2>2. life \in Life
    BY <1>4 DEF Receive, LockInv, ExitInv, OrderInv, DispatcherType, ActorType
  <2> QED
    BY <1>4, <2>1, <2>2 DEF Receive, telegramVars
<1>5. ASSUME NEW t \in tasks, Finish(t) PROVE UpdateType'
  BY <1>5 DEF Finish, telegramVars
<1>6. ASSUME \/ Create \/ StartCommand \/ Exit
             \/ \E s \in Start : Polling(s) \/ Fetch(s) \/ FetchFails(s)
      PROVE  UpdateType'
  <2>1. UNCHANGED <<telegramVars, taskVars, crashes>>
    BY <1>6 DEF Create, StartCommand, Exit, ExitBegins, ExitTold, ExitCancels, Polling, Begin,
                Granted, Me, NoticeStop, End, Fetch, FetchFails
  <2> QED
    BY <2>1 DEF telegramVars, taskVars
<1> QED
  BY <1>1, <1>2, <1>3, <1>4, <1>5, <1>6 DEF Next, Poller
-----------------------------------------------------------------------------
(* The lock.                                                               *)

\* Commands, crashes and creation keep LockInv.
LEMMA FrameworkLock ==
    ASSUME ActorType, DispatcherType, LockInv, Create \/ StartCommand \/ Crash PROVE LockInv'
<1> USE DEF LockInv, Polls, Ending, NotEnded
<1>1. CASE Create
  BY <1>1 DEF Create, ActorType, HolderInv, OrderInv, ExitInv, dispatcherVars
<1>2. CASE StartCommand
  <2>1. /\ run' \in [Start -> RunState] /\ run'[started + 1] = "created"
        /\ started + 1 \in Start /\ started' = started + 1
        /\ \A s \in Start : s # started + 1 => run'[s] = run[s]
    BY <1>2 DEF StartCommand, DispatcherType, RunState
  <2>2. run[started + 1] = "new"
    BY <2>1 DEF OrderInv, DispatcherType
  <2>3. HolderInv'
    BY <1>2, <2>1, <2>2 DEF StartCommand, HolderInv
  <2>4. OrderInv'
    BY <2>1, <2>2 DEF OrderInv, DispatcherType
  <2>5. ExitInv'
    BY <1>2, <2>1 DEF StartCommand, ExitInv
  <2> QED
    BY <2>3, <2>4, <2>5
<1>3. CASE Crash
  <2>1. /\ \A s \in Start : run'[s] = IF run[s] \in NotEnded THEN "lost" ELSE run[s]
        /\ started' = started /\ holder' = None /\ telegram' = None /\ exit' = "absent"
        /\ life' = life /\ life # 0
    BY <1>3 DEF Crash
  <2>2. HolderInv'
    BY <2>1 DEF HolderInv
  <2>3. OrderInv'
    BY <2>1 DEF OrderInv
  <2>4. ExitInv'
    BY <2>1 DEF ExitInv
  <2> QED
    BY <2>2, <2>3, <2>4
<1> QED
  BY <1>1, <1>2, <1>3

\* Taking the lock, or queueing for it, keeps LockInv.
LEMMA AcquireLock ==
    ASSUME ActorType, DispatcherType, LockInv, NEW s \in Start, Begin(s) \/ Granted(s)
    PROVE  LockInv'
<1> USE DEF LockInv, Polls, Ending, NotEnded
<1>1. /\ run' \in [Start -> RunState] /\ \A r \in Start : r # s => run'[r] = run[r]
      /\ started' = started /\ telegram' = telegram /\ exit' = exit /\ life' = life
      /\ run[s] \in {"created", "waiting"}
      /\ \A r \in Start : run[r] = run[s] => s <= r
    BY DEF Begin, Granted, Acquire, DispatcherType, RunState, actorVars
<1>2. exit # "woken" /\ ~(exit = "clean" /\ telegram = s)
  BY DEF Begin, Granted, ExitInv
<1>3. CASE run'[s] = "me"
  <2>1. holder = None /\ holder' = s
    BY <1>1, <1>3 DEF Begin, Granted, Acquire, DispatcherType, HolderInv
  <2>2. \A r \in Start : r < s => run[r] \notin {"created", "waiting"}
    BY <1>1, <1>3, <2>1 DEF Begin, Granted, DispatcherType, OrderInv, Acquire
  <2>3. HolderInv'
    BY <1>1, <1>3, <2>1 DEF HolderInv
  <2>4. OrderInv'
    BY <1>1, <1>3, <2>1, <2>2 DEF HolderInv, OrderInv
  <2>5. ExitInv'
    BY <1>1, <1>2, <1>3 DEF ExitInv, ActorType
  <2> QED
    BY <2>3, <2>4, <2>5
<1>4. CASE run'[s] # "me"
  <2>1. run[s] = "created" /\ run'[s] = "waiting" /\ holder' = holder
    BY <1>4 DEF Begin, Granted, Acquire, DispatcherType
  <2>2. HolderInv'
    BY <1>1, <2>1 DEF HolderInv
  <2>3. OrderInv'
    BY <1>1, <2>1 DEF OrderInv
  <2>4. ExitInv'
    BY <1>1, <1>2, <2>1 DEF ExitInv, ActorType
  <2> QED
    BY <2>2, <2>3, <2>4
<1> QED
  BY <1>3, <1>4

\* The steps of the start that has the lock keep LockInv.
LEMMA HolderLock ==
    ASSUME ActorType, DispatcherType, LockInv, NEW s \in Start, Me(s) \/ NoticeStop(s) \/ End(s)
    PROVE  LockInv'
<1> USE DEF LockInv, Polls, Ending, NotEnded
<1>1. /\ run' \in [Start -> RunState] /\ \A r \in Start : r # s => run'[r] = run[r]
      /\ started' = started /\ telegram' = telegram /\ life' = life
      /\ run[s] \in Polls \cup Ending
    BY DEF Me, NoticeStop, End, DispatcherType, RunState, actorVars
<1>2. CASE Me(s) \/ NoticeStop(s)
  <2>1. run'[s] \in Polls \cup Ending /\ holder' = holder /\ exit' = exit
    BY <1>2 DEF Me, NoticeStop, DispatcherType, actorVars
  <2>2. HolderInv'
    BY <1>1, <2>1 DEF HolderInv
  <2>3. OrderInv'
    BY <1>1, <2>1 DEF OrderInv
  <2>4. ExitInv'
    BY <1>1, <2>1 DEF ExitInv, ActorType
  <2> QED
    BY <2>2, <2>3, <2>4
<1>3. CASE End(s)
  <2>1. /\ run'[s] \in {"done", "failed"} /\ holder' = None
        /\ exit' = IF exit = "stopping" THEN "woken" ELSE exit
    BY <1>3 DEF End, DispatcherType
  <2>2. HolderInv'
    BY <1>1, <2>1 DEF HolderInv
  <2>3. OrderInv'
    BY <1>1, <2>1 DEF OrderInv
  <2>4. ExitInv'
    BY <1>1, <2>1 DEF ExitInv, ActorType
  <2> QED
    BY <2>2, <2>3, <2>4
<1> QED
  BY <1>2, <1>3

\* exit() keeps LockInv.
LEMMA ExitLock == ASSUME ActorType, DispatcherType, LockInv, Exit PROVE LockInv'
<1> USE DEF LockInv, Polls, Ending, NotEnded
<1>1. CASE ExitBegins \/ ExitTold
  <2>1. /\ UNCHANGED <<run, started, holder, telegram, life>>
        /\ exit \in {"idle", "telling"}
        /\ \/ exit' \in {"telling", "aborted", "refused"}
           \/ exit' = "clean" /\ telegram = None
           \/ exit' = "stopping" /\ telegram # None
    BY <1>1 DEF ExitBegins, ExitTold, StopPolling, dispatcherVars
  <2>2. \A s \in Start : run[s] # "created"
    BY <1>1 DEF ExitBegins, ExitTold, ExitInv
  <2>3. HolderInv' /\ OrderInv'
    BY <2>1 DEF HolderInv, OrderInv
  <2>4. ExitInv'
    BY <2>1, <2>2 DEF ExitInv
  <2> QED
    BY <2>3, <2>4
<1>2. CASE ExitCancels
  <2>1. /\ UNCHANGED <<started, holder, telegram, life>>
        /\ exit = "woken" /\ exit' \in {"clean", "raised"}
        /\ run' \in [Start -> RunState]
        /\ \A s \in Start : s # telegram => run'[s] = run[s]
        /\ exit' = "clean" => run[telegram] = "done"
        /\ telegram \in Start
        /\ run'[telegram] = IF run[telegram] \in NotEnded THEN "cancelled" ELSE run[telegram]
    BY <1>2 DEF ExitCancels, DispatcherType, RunState, ActorType, ExitInv
  <2>2. HolderInv'
    BY <2>1 DEF HolderInv, ExitInv
  <2>3. OrderInv'
    <3>1. \A s \in Start : run[s] # "created"
      BY <2>1 DEF ExitInv
    <3> QED
      BY <2>1, <3>1 DEF OrderInv
  <2>4. ExitInv'
    BY <2>1 DEF ExitInv
  <2> QED
    BY <2>2, <2>3, <2>4
<1> QED
  BY <1>1, <1>2 DEF Exit

\* Every step keeps LockInv.
LEMMA LockStep == ASSUME ActorType, DispatcherType, LockInv, Next PROVE LockInv'
<1>1. ASSUME \/ UserSends
             \/ \E s \in Start : Poller(s)
             \/ \E t \in tasks : Finish(t)
      PROVE  LockInv'
  <2>1. UNCHANGED <<run, started, holder, telegram, exit, life>>
    BY <1>1 DEF UserSends, Poller, Fetch, FetchFails, Take, Receive, Finish, actorVars,
                dispatcherVars
  <2> QED
    BY <2>1 DEF LockInv, HolderInv, OrderInv, ExitInv
<1> QED
  BY <1>1, FrameworkLock, AcquireLock, HolderLock, ExitLock DEF Next, Polling
-----------------------------------------------------------------------------
(* Updates.                                                                *)

\* Crashes, users and the ends of calls keep FetchInv.
LEMMA CallEnds ==
    ASSUME FetchType, UpdateType, FetchInv,
           Crash \/ UserSends \/ \E s \in Start : NoticeStop(s) \/ FetchFails(s)
    PROVE  FetchInv'
<1>1. /\ arrived \in Nat /\ arrived' \in Nat /\ arrived <= arrived'
      /\ \A s \in Start : call'[s].at = "answered" => call'[s] = call[s]
      /\ UNCHANGED <<confirmed, offset, requests, handed>>
  BY DEF Crash, UserSends, NoticeStop, FetchFails, NoCall, FetchType, UpdateType, fetchVars,
         telegramVars, taskVars
<1>2. OffsetInv'
  <2>1. confirmed <= arrived' /\ \A s \in Start : offset[s] <= arrived' + 1
    BY <1>1 DEF FetchType, UpdateType, FetchInv, OffsetInv
  <2> QED
    BY <1>1, <2>1 DEF FetchInv, OffsetInv, Handed
<1>3. AnswerInv'
  BY <1>1 DEF FetchType, Call, FetchInv, AnswerInv
<1>4. RequestInv'
  BY <1>1 DEF FetchInv, RequestInv
<1> QED
  BY <1>2, <1>3, <1>4 DEF FetchInv

\* Asking for updates keeps FetchInv.
LEMMA FetchKeeps == ASSUME FetchType, FetchInv, NEW s \in Start, Fetch(s) PROVE FetchInv'
<1>1. /\ \A x \in Start : x # s => call'[x] = call[x]
      /\ call'[s].at = "asked"
      /\ requests' = requests \cup {[start |-> s, offset |-> offset[s]]}
      /\ UNCHANGED <<confirmed, arrived, offset, handed>>
  BY DEF Fetch, FetchType, Call, telegramVars, taskVars
<1>2. OffsetInv'
  BY <1>1 DEF FetchInv, OffsetInv, Handed
<1>3. AnswerInv'
  BY <1>1 DEF FetchInv, AnswerInv
<1>4. RequestInv'
  BY <1>1 DEF FetchInv, RequestInv
<1> QED
  BY <1>2, <1>3, <1>4 DEF FetchInv

\* What Telegram does with a call keeps FetchInv.
LEMMA TakeKeeps ==
    ASSUME FetchType, UpdateType, FetchInv, NEW s \in Start, Take(s) PROVE FetchInv'
<1> DEFINE upTo(r) == IF r.offset > confirmed + 1 THEN r.offset - 1 ELSE confirmed
           answer(r) == [at |-> "answered", first |-> upTo(r) + 1, last |-> arrived]
<1>1. PICK r \in requests :
          /\ r.start = s
          /\ requests' = requests \ {r}
          /\ confirmed' = upTo(r)
          /\ call' = IF call[s].at = "asked" THEN [call EXCEPT ![s] = answer(r)] ELSE call
          /\ UNCHANGED <<offset, arrived, taskVars>>
  BY DEF Take
<1>2. r.offset = offset[s] /\ offset[s] \in Nat /\ confirmed \in Nat /\ arrived \in Nat
  BY <1>1 DEF FetchType, UpdateType, FetchInv, RequestInv
<1>3. /\ offset[s] <= arrived + 1 /\ confirmed <= arrived
      /\ \A u \in Sent : u < offset[s] \/ u <= confirmed => Handed(u)
  BY DEF FetchInv, OffsetInv
<1>4. /\ confirmed' \in Nat /\ confirmed <= confirmed' /\ confirmed' <= arrived
      /\ offset[s] <= confirmed' + 1
      /\ \A u \in Sent : u <= confirmed' => u < offset[s] \/ u <= confirmed
  BY <1>1, <1>2, <1>3
<1>5. \A q \in requests' : q.start # s
  <2> SUFFICES ASSUME NEW q \in requests, q.start = s PROVE q = r
    BY <1>1
  <2>1. q.offset = r.offset
    BY <1>1 DEF FetchInv, RequestInv
  <2>2. q \in [start : Start, offset : Nat] /\ r \in [start : Start, offset : Nat]
    BY DEF FetchType
  <2> QED
    BY <1>1, <2>1, <2>2
<1>6. OffsetInv'
  BY <1>1, <1>3, <1>4 DEF FetchInv, OffsetInv, Handed, taskVars
<1>7. AnswerInv'
  <2> SUFFICES ASSUME NEW x \in Start, call'[x].at = "answered"
               PROVE  /\ 1 <= call'[x].first /\ offset[x] <= call'[x].first
                      /\ call'[x].first <= confirmed' + 1 /\ call'[x].last <= arrived
                      /\ \A q \in requests' : q.start # x
    BY <1>1 DEF AnswerInv
  <2>1. CASE x = s /\ call[s].at = "asked"
    <3>1. call'[x] = answer(r)
      BY <2>1, <1>1 DEF FetchType
    <3> QED
      BY <2>1, <3>1, <1>1, <1>2, <1>4, <1>5
  <2>2. CASE ~(x = s /\ call[s].at = "asked")
    <3>1. call'[x] = call[x] /\ call[x].first \in Nat
      BY <2>2, <1>1 DEF FetchType, Call
    <3> QED
      BY <3>1, <1>1, <1>2, <1>4 DEF FetchInv, AnswerInv
  <2> QED
    BY <2>1, <2>2
<1>8. RequestInv'
  BY <1>1 DEF FetchInv, RequestInv
<1> QED
  BY <1>6, <1>7, <1>8 DEF FetchInv

\* Handing on a batch keeps FetchInv.
LEMMA ReceiveKeeps ==
    ASSUME FetchType, UpdateType, FetchInv, NEW s \in Start, Receive(s) PROVE FetchInv'
<1>1. /\ call[s].at = "answered"
      /\ \A x \in Start : call'[x] = IF x = s THEN NoCall ELSE call[x]
      /\ \A x \in Start : x # s => offset'[x] = offset[x]
      /\ offset'[s] = IF Batch(s) = {} THEN offset[s] ELSE call[s].last + 1
      /\ handed' = handed \cup {<<s, u>> : u \in Batch(s)}
      /\ UNCHANGED <<requests, arrived, confirmed>>
  BY DEF Receive, FetchType, telegramVars
<1>2. /\ Batch(s) \subseteq Sent
      /\ \A u \in Sent : u \in Batch(s) <=> call[s].first <= u /\ u <= call[s].last
      /\ call[s].first \in Nat /\ call[s].last \in Nat
  BY <1>1, BatchIsSent
<1>3. /\ offset[s] \in Nat /\ confirmed \in Nat /\ arrived \in Nat
      /\ offset[s] <= call[s].first /\ call[s].first <= confirmed + 1
      /\ call[s].last <= arrived
  BY <1>1 DEF FetchType, UpdateType, FetchInv, AnswerInv
<1>4. /\ offset[s] <= offset'[s] \/ Batch(s) # {}
      /\ \A u \in Sent : u < offset'[s] => u < call[s].first \/ u \in Batch(s)
      /\ \A u \in Batch(s) : u < offset'[s]
  BY <1>1, <1>2, <1>3
<1>5. /\ \A x \in Start : offset[x] <= arrived + 1
      /\ \A u \in Sent : u <= confirmed => Handed(u)
      /\ \A x \in Start, u \in Sent : u < offset[x] => Handed(u)
      /\ \A x \in Start, u \in Sent : <<x, u>> \in handed => u < offset[x]
  BY DEF FetchInv, OffsetInv
<1>6. \A x \in Start, u \in Sent : <<x, u>> \in handed' <=>
          <<x, u>> \in handed \/ (x = s /\ u \in Batch(s))
  BY <1>1
<1>7. \A u \in Sent : Handed(u) \/ u \in Batch(s) => Handed(u)'
  BY <1>6 DEF Handed
<1>8. offset[s] <= offset'[s]
  BY <1>1, <1>2, <1>3
<1>9. OffsetInv'
  <2>1. confirmed' <= arrived' /\ \A u \in Sent : u <= confirmed' => Handed(u)'
    BY <1>1, <1>5, <1>7 DEF FetchInv, OffsetInv
  <2>2. \A x \in Start : offset'[x] <= arrived' + 1
    BY <1>1, <1>2, <1>3, <1>5
  <2>3. \A x \in Start, u \in Sent : u < offset'[x] => Handed(u)'
    <3> SUFFICES ASSUME NEW x \in Start, NEW u \in Sent, u < offset'[x] PROVE Handed(u)'
      OBVIOUS
    <3>1. CASE x # s
      BY <3>1, <1>1, <1>5, <1>7
    <3>2. CASE x = s
      <4>1. u < call[s].first => u <= confirmed
        BY <1>2, <1>3
      <4> QED
        BY <3>2, <4>1, <1>4, <1>5, <1>7
    <3> QED
      BY <3>1, <3>2
  <2>4. \A x \in Start, u \in Sent : <<x, u>> \in handed' => u < offset'[x]
    <3> SUFFICES ASSUME NEW x \in Start, NEW u \in Sent, <<x, u>> \in handed'
                 PROVE  u < offset'[x]
      OBVIOUS
    <3>1. CASE x # s
      BY <3>1, <1>1, <1>5, <1>6
    <3>2. CASE x = s /\ u \notin Batch(s)
      <4>1. u < offset[s] /\ offset'[s] \in Nat
        BY <3>2, <1>1, <1>2, <1>3, <1>5, <1>6
      <4> QED
        BY <3>2, <4>1, <1>3, <1>8
    <3>3. CASE x = s /\ u \in Batch(s)
      BY <3>3, <1>4
    <3> QED
      BY <3>1, <3>2, <3>3
  <2> QED
    BY <2>1, <2>2, <2>3, <2>4 DEF OffsetInv
<1>10. \A x \in Start : call'[x].at = "answered" => x # s /\ call'[x] = call[x]
  BY <1>1 DEF NoCall
<1>11. AnswerInv'
  BY <1>1, <1>10 DEF FetchInv, AnswerInv
<1>12. \A r \in requests : r.start # s /\ r.start \in Start
  BY <1>1 DEF FetchType, FetchInv, AnswerInv
<1>13. RequestInv'
  BY <1>1, <1>12 DEF FetchInv, RequestInv
<1> QED
  BY <1>9, <1>11, <1>13 DEF FetchInv

\* Every step keeps FetchInv.
LEMMA FetchStep == ASSUME FetchType, UpdateType, FetchInv, Next PROVE FetchInv'
<1>1. ASSUME \/ Create \/ StartCommand \/ Exit
             \/ \E s \in Start : Begin(s) \/ Granted(s) \/ Me(s) \/ End(s)
             \/ \E t \in tasks : Finish(t)
      PROVE  FetchInv'
  <2>1. UNCHANGED <<fetchVars, telegramVars, handed>>
    BY <1>1 DEF Create, StartCommand, Exit, ExitBegins, ExitTold, ExitCancels, Begin, Granted,
                Me, End, Finish, taskVars
  <2> QED
    BY <2>1 DEF fetchVars, telegramVars, FetchInv, OffsetInv, AnswerInv, RequestInv, Handed
<1> QED
  BY <1>1, CallEnds, FetchKeeps, TakeKeeps, ReceiveKeeps DEF Next, Polling, Poller

\* Tasks end only in order, or by a crash.
LEMMA TaskStep == ASSUME UpdateType, TaskInv, Next PROVE TaskInv'
<1> USE DEF TaskInv
<1>1. CASE Crash
  BY <1>1 DEF Crash, UpdateType
<1>2. ASSUME NEW s \in Start, Receive(s) PROVE TaskInv'
  <2>1. \A u \in Sent : Handed(u)' => Handed(u) \/ u \in Batch(s)
    BY <1>2 DEF Receive, Handed
  <2>2. /\ \A u \in Batch(s) : [actor |-> life, update |-> u] \in tasks'
        /\ tasks \subseteq tasks' /\ handled' = handled /\ crashes' = crashes
    BY <1>2 DEF Receive
  <2> QED
    BY <2>1, <2>2
<1>3. ASSUME NEW t \in tasks, Finish(t) PROVE TaskInv'
  BY <1>3 DEF Finish, Handed
<1>4. ASSUME \/ Create \/ StartCommand \/ UserSends \/ Exit
             \/ \E s \in Start : Polling(s) \/ Fetch(s) \/ FetchFails(s) \/ Take(s)
      PROVE  TaskInv'
  <2>1. UNCHANGED <<taskVars, crashes>>
    BY <1>4 DEF Create, StartCommand, UserSends, Exit, ExitBegins, ExitTold, ExitCancels,
                Polling, Begin, Granted, Me, NoticeStop, End, Fetch, FetchFails, Take
  <2> QED
    BY <2>1 DEF taskVars, Handed
<1> QED
  BY <1>1, <1>2, <1>3, <1>4 DEF Next, Poller
-----------------------------------------------------------------------------
\* Every step keeps the inductive invariant.
LEMMA NextIInv == IInv /\ [Next]_vars => IInv'
<1> SUFFICES ASSUME IInv, [Next]_vars PROVE IInv'
  OBVIOUS
<1>1. CASE UNCHANGED vars
  <2>1. UNCHANGED <<life, telegram, exit, size, chats, run, started, holder, stop>>
    BY <1>1 DEF vars, actorVars, dispatcherVars
  <2>2. UNCHANGED <<call, offset, requests, arrived, confirmed, handed, tasks, handled, crashes>>
    BY <1>1 DEF vars, fetchVars, telegramVars, taskVars
  <2>3. ActorType' /\ DispatcherType'
    BY <2>1 DEF IInv, TypeOK, ActorType, DispatcherType
  <2>4. FetchType' /\ UpdateType'
    BY <2>2 DEF IInv, TypeOK, FetchType, UpdateType
  <2>5. LockInv'
    BY <2>1 DEF IInv, LockInv, HolderInv, OrderInv, ExitInv
  <2>6. FetchInv' /\ TaskInv'
    BY <2>2 DEF IInv, FetchInv, OffsetInv, AnswerInv, RequestInv, TaskInv, Handed
  <2> QED
    BY <2>3, <2>4, <2>5, <2>6 DEF IInv, TypeOK
<1>2. CASE Next
  <2>1. TypeOK'
    BY <1>2, ActorTypes, DispatcherTypes, FetchTypes, UpdateTypes DEF IInv, TypeOK, LockInv
  <2>2. LockInv' /\ FetchInv' /\ TaskInv'
    BY <1>2, LockStep, FetchStep, TaskStep DEF IInv, TypeOK
  <2> QED
    BY <2>1, <2>2 DEF IInv
<1> QED
  BY <1>1, <1>2

\* Every behaviour keeps the inductive invariant, types included.
THEOREM Invariance == Spec => []IInv
<1>1. Init => IInv
  BY InitIInv
<1>2. IInv /\ [Next]_vars => IInv'
  BY NextIInv
<1> QED
  BY <1>1, <1>2, PTL DEF Spec

\* The variables keep their types.
THEOREM TypesKept == Spec => []TypeOK
<1>1. IInv => TypeOK
  BY DEF IInv
<1> QED
  BY <1>1, Invariance, PTL

\* What Telegram no longer keeps has been handed to a task, and no task is lost
\* but by a crash: _listen_updates raises its offset only past what it has yielded.
THEOREM UpdatesNotLost == Spec => []NothingLost
<1>1. ASSUME IInv PROVE NothingLost
  <2>1. \A u \in 1 .. confirmed : u \in Sent
    BY <1>1 DEF IInv, TypeOK, UpdateType
  <2>2. \A u \in 1 .. confirmed : Handed(u)
    BY <1>1, <2>1 DEF IInv, FetchInv, OffsetInv
  <2> QED
    BY <1>1, <2>1, <2>2 DEF IInv, TaskInv, NothingLost
<1> QED
  BY <1>1, Invariance, PTL

\* A poller is never handed an update a second time, however often getUpdates fails.
THEOREM UpdatesOnce == Spec => []NeverTwice
<1>1. ASSUME IInv PROVE NeverTwice
  <2> SUFFICES ASSUME NEW s \in Start, call[s].at = "answered", NEW u \in Batch(s)
               PROVE  <<s, u>> \notin handed
    BY DEF NeverTwice
  <2>1. u \in Sent /\ call[s].first <= u /\ call[s].first \in Nat
    BY <1>1, BatchIsSent DEF IInv, TypeOK
  <2>2. offset[s] <= call[s].first /\ offset[s] \in Nat
    BY <1>1 DEF IInv, TypeOK, FetchInv, AnswerInv, FetchType
  <2>3. <<s, u>> \in handed => u < offset[s]
    BY <1>1, <2>1 DEF IInv, FetchInv, OffsetInv
  <2> QED
    BY <2>1, <2>2, <2>3
<1> QED
  BY <1>1, Invariance, PTL

\* exit() only cancels a start_polling that has ended or still waits for the lock.
THEOREM NoPollerCancelled == Spec => []CancelsNoPoller
<1>1. ASSUME IInv PROVE CancelsNoPoller
  BY <1>1 DEF IInv, TypeOK, ActorType, LockInv, HolderInv, ExitInv, CancelsNoPoller
<1> QED
  BY <1>1, Invariance, PTL

\* After an exit() without an error no start of any actor polls or will poll.
THEOREM SilentAfterExit == Spec => []CleanExitIsSilent
<1>1. ASSUME IInv PROVE CleanExitIsSilent
  <2> SUFFICES ASSUME exit = "clean", telegram # None, NEW s \in Start
               PROVE  run[s] \notin NotEnded
    BY DEF CleanExitIsSilent
  <2>1. telegram = started /\ started \in Start /\ run[started] = "done"
    BY <1>1 DEF IInv, TypeOK, DispatcherType, LockInv, ExitInv
  <2>2. CASE s < started
    BY <1>1, <2>1, <2>2 DEF IInv, LockInv, OrderInv
  <2>3. CASE s >= started
    BY <1>1, <2>1, <2>3 DEF IInv, LockInv, OrderInv, NotEnded, Polls, Ending
  <2> QED
    BY <2>1, <2>2, <2>3
<1> QED
  BY <1>1, Invariance, PTL
=============================================================================
