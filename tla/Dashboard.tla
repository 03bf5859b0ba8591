----------------------------- MODULE Dashboard -----------------------------
(***************************************************************************)
(* The life of the dashboard: SimpleFastapiActor (fastapi_actor.py) starts *)
(* a bridge and a web process (uvicorn running fastapi_server.py), stops   *)
(* the process on request and takes both down in exit().                   *)
(*                                                                         *)
(* The n-th start creates bridge n (ZmqServer, see ZmqBridge) and, if      *)
(* nothing fails, web process n, which is told the port of bridge n and    *)
(* uses no other. The bridges are tasks of the event loop the actor runs   *)
(* in: while exit() blocks in Popen.wait no bridge serves anybody, and a   *)
(* web process blocked in a call can not shut down.                        *)
(*                                                                         *)
(* The framework (external) gives an actor one message at a time and calls *)
(* exit() between two of them.                                             *)
(***************************************************************************)
EXTENDS Naturals

CONSTANTS MaxStarts,  \* bound: how often the actor is started
          Orderly,    \* start is not sent to an actor whose process was not stopped
          Faults      \* what may go wrong in a run

FaultKinds == {"startFails",   \* an exception in start, before or after the bridge
               "askTimeout",   \* adaptor.ask raises TimeoutError in a bridge
               "slowClient",   \* somebody keeps a connection to it open
               "crash"}        \* a web process dies of itself

ASSUME DashboardAssumption == /\ MaxStarts \in Nat
                              /\ Orderly \in BOOLEAN
                              /\ Faults \subseteq FaultKinds

Instance == 1 .. MaxStarts

VARIABLES actor,     \* what SimpleFastapiActor is doing
          starts,    \* number of bridges created so far
          current,   \* the process in self._proc, 0 for None
          bridge,    \* the bridge in self._zmq_server, 0 for None
          web,       \* web[n]: where web process n is
          term,      \* term[n]: SIGTERM was sent to it
          server     \* server[n]: the state of bridge n

actorVars == <<actor, starts, current, bridge>>
vars == <<actor, starts, current, bridge, web, term, server>>

ActorState == {"idle", "starting", "opening", "waiting", "exited", "exitFailed"}
WebState == {"absent", "booting", "loading", "asking", "binding", "serving",
             "calling", "ending", "lastCall", "held", "dead"}
ServerState == {"absent", "free", "busy", "stuck", "closed"}

Alive(n) == web[n] \notin {"absent", "dead"}

\* The event loop is blocked in zmq_client.client.ask.
Blocked(n) == web[n] \in {"asking", "calling", "lastCall"}

\* Its listening socket is open: the first thing uvicorn's shutdown does is close it.
HoldsPort(n) == web[n] \in {"serving", "calling"}

\* Not while exit() is in Popen.wait.
LoopRuns == actor # "waiting"

Init == /\ actor = "idle"
        /\ starts = 0
        /\ current = 0
        /\ bridge = 0
        /\ web = [n \in Instance |-> "absent"]
        /\ term = [n \in Instance |-> FALSE]
        /\ server = [n \in Instance |-> "absent"]
-----------------------------------------------------------------------------
(* SimpleFastapiActor.start.                                               *)

\* The account_admin is looked for and, if need be, created and started.
Start == /\ actor = "idle"
         /\ starts < MaxStarts
         /\ Orderly => current = 0
         /\ actor' = "starting"
         /\ UNCHANGED <<starts, current, bridge, web, term, server>>

\* start_zmq_server: self._zmq_server is replaced; whatever it was stays open.
OpenBridge == /\ actor = "starting"
              /\ actor' = "opening"
              /\ starts' = starts + 1
              /\ bridge' = starts + 1
              /\ server' = [server EXCEPT ![starts + 1] = "free"]
              /\ UNCHANGED <<current, web, term>>

\* The bridge reported its port: Popen, and self._proc is replaced.
Launch == /\ actor = "opening"
          /\ actor' = "idle"
          /\ current' = bridge
          /\ web' = [web EXCEPT ![bridge] = "booting"]
          /\ UNCHANGED <<starts, bridge, term, server>>

\* An ask or the bridge's queue times out, or Popen fails: what start did so far
\* stays done.
StartFails == /\ "startFails" \in Faults
              /\ actor \in {"starting", "opening"}
              /\ actor' = "idle"
              /\ UNCHANGED <<starts, current, bridge, web, term, server>>
-----------------------------------------------------------------------------
(* SimpleFastapiActor.stop and exit.                                       *)

\* Mutant of Stop: the process is forgotten, not terminated.
ForgetProcess == /\ actor = "idle"
                 /\ current # 0
                 /\ current' = 0
                 /\ UNCHANGED <<actor, starts, bridge, web, term, server>>

\* SIGTERM, and the process is forgotten without waiting for it. With no process
\* stop raises AttributeError and changes nothing.
Stop == /\ actor = "idle"
        /\ current # 0
        /\ term' = [term EXCEPT ![current] = TRUE]
        /\ current' = 0
        /\ UNCHANGED <<actor, starts, bridge, web, server>>

CloseBridge == server' = [server EXCEPT ![bridge] = "closed"]

\* exit() of an actor without a process: AttributeError, the bridge stays open.
ExitWithoutProcess == /\ actor = "idle"
                      /\ current = 0
                      /\ actor' = "exitFailed"
                      /\ UNCHANGED <<starts, current, bridge, web, term, server>>

\* The process was found dead.
ExitAfterDeath == /\ actor = "idle"
                  /\ current # 0
                  /\ ~Alive(current)
                  /\ actor' = "exited"
                  /\ CloseBridge
                  /\ UNCHANGED <<starts, current, bridge, web, term>>

\* Mutant of ExitTerminates: the bridge is closed before the process has ended.
CloseThenTerminate == /\ actor = "idle"
                      /\ current # 0
                      /\ Alive(current)
                      /\ actor' = "waiting"
                      /\ CloseBridge
                      /\ term' = [term EXCEPT ![current] = TRUE]
                      /\ UNCHANGED <<starts, current, bridge, web>>

\* SIGTERM, then Popen.wait(timeout=5) blocks the event loop.
ExitTerminates == /\ actor = "idle"
                  /\ current # 0
                  /\ Alive(current)
                  /\ actor' = "waiting"
                  /\ term' = [term EXCEPT ![current] = TRUE]
                  /\ UNCHANGED <<starts, current, bridge, web, server>>

\* The process ended in time.
WaitReturns == /\ actor = "waiting"
               /\ ~Alive(current)
               /\ actor' = "exited"
               /\ CloseBridge
               /\ UNCHANGED <<starts, current, bridge, web, term>>

\* Mutant of WaitExpires: the actor waits again after the timeout.
WaitAgain == /\ actor = "waiting"
             /\ Alive(current)
             /\ UNCHANGED vars

\* Mutant of WaitExpires: after the timeout the process is left to itself.
GiveUpWaiting == /\ actor = "waiting"
                 /\ Alive(current)
                 /\ actor' = "exited"
                 /\ CloseBridge
                 /\ UNCHANGED <<starts, current, bridge, web, term>>

\* TimeoutExpired: SIGKILL, wait, and on to the bridge.
WaitExpires == /\ actor = "waiting"
               /\ Alive(current)
               /\ web' = [web EXCEPT ![current] = "dead"]
               /\ actor' = "exited"
               /\ CloseBridge
               /\ UNCHANGED <<starts, current, bridge, term>>
-----------------------------------------------------------------------------
(* The web process: uvicorn (vendored) running fastapi_server.py.           *)

\* One step of process n, from one state to another.
WebStep(n, from, to) == /\ web[n] = from
                        /\ web' = [web EXCEPT ![n] = to]
                        /\ UNCHANGED <<actorVars, term, server>>

\* uvicorn installs its signal handlers, then runs lifespan.
Boot(n) == ~term[n] /\ WebStep(n, "booting", "loading")

\* lifespan: zmq_client.init, then config.init blocks in ask(get_params).
AskParams(n) == WebStep(n, "loading", "asking")

\* After lifespan uvicorn binds the port. A process that finds it taken exits.
BindPort(n) ==
    \/ /\ \A m \in Instance : ~HoldsPort(m)
       /\ WebStep(n, "binding", "serving")
    \/ /\ \E m \in Instance : HoldsPort(m)
       /\ WebStep(n, "binding", "dead")

\* A web handler blocks in ask. What came over an open connection is still handled
\* while uvicorn shuts down.
Call(n) == WebStep(n, "serving", "calling") \/ WebStep(n, "ending", "lastCall")

\* Mutant of Terminate: only a process that has not booted can be ended.
TerminateUnbooted(n) == term[n] /\ WebStep(n, "booting", "dead")

\* SIGTERM before the handlers are installed kills. Later the next tick of the main
\* loop notices it: shutdown closes the listening socket, asks the connections to
\* close and waits, without a limit, for them and the tasks that serve them.
Terminate(n) == term[n] /\ \/ WebStep(n, "booting", "dead")
                           \/ WebStep(n, "serving", "ending")

\* A client neither closes its connection nor reads what is being sent to it.
Hold(n) == "slowClient" \in Faults /\ WebStep(n, "ending", "held")

\* It reads on, or goes.
Release(n) == WebStep(n, "held", "ending")

\* The last connection and the last task are gone; lifespan does nothing after its
\* yield.
End(n) == WebStep(n, "ending", "dead")

Crash(n) == "crash" \in Faults /\ Alive(n) /\ WebStep(n, web[n], "dead")
-----------------------------------------------------------------------------
(* The bridge, as far as its two ends can tell (ZmqBridge has the details). *)

\* The request is received and passed on.
TakeCall(n) == /\ LoopRuns
               /\ server[n] = "free"
               /\ Blocked(n)
               /\ server' = [server EXCEPT ![n] = "busy"]
               /\ UNCHANGED <<actorVars, web, term>>

\* Mutant of AnswerCall: the answer to get_params is dropped.
DropParams(n) == /\ LoopRuns
                 /\ server[n] = "busy"
                 /\ server' = [server EXCEPT ![n] = "free"]
                 /\ web' = [web EXCEPT ![n] = CASE @ = "calling" -> "serving"
                                               [] @ = "lastCall" -> "ending"
                                               [] OTHER -> @]
                 /\ UNCHANGED <<actorVars, term>>

\* adaptor.ask returns and the web process, if it is still there, goes on.
AnswerCall(n) == /\ LoopRuns
                 /\ server[n] = "busy"
                 /\ server' = [server EXCEPT ![n] = "free"]
                 /\ web' = [web EXCEPT ![n] = CASE @ = "asking" -> "binding"
                                                [] @ = "calling" -> "serving"
                                                [] @ = "lastCall" -> "ending"
                                                [] OTHER -> @]
                 /\ UNCHANGED <<actorVars, term>>

\* adaptor.ask raises TimeoutError: the bridge is stuck (ZmqBridge!Stuck).
LoseCall(n) == /\ LoopRuns
               /\ "askTimeout" \in Faults
               /\ server[n] = "busy"
               /\ server' = [server EXCEPT ![n] = "stuck"]
               /\ UNCHANGED <<actorVars, web, term>>
-----------------------------------------------------------------------------
Actor == \/ Start \/ OpenBridge \/ Launch \/ StartFails
         \/ Stop \/ ExitWithoutProcess \/ ExitAfterDeath
         \/ ExitTerminates \/ WaitReturns \/ WaitExpires

Web(n) == \/ Boot(n) \/ AskParams(n) \/ BindPort(n) \/ Call(n) \/ Crash(n)
          \/ Terminate(n) \/ Hold(n) \/ Release(n) \/ End(n)

Bridge(n) == TakeCall(n) \/ AnswerCall(n) \/ LoseCall(n)

Next == Actor \/ \E n \in Instance : Web(n) \/ Bridge(n)

Spec == Init /\ [][Next]_vars

\* What is begun goes on; nobody has to send a command, make a call, crash or let a
\* connection go. The ticks that notice SIGTERM and look for open connections are
\* timers of the loop the handlers run in, so they get their turn between them
\* however many calls they make.
Fairness == /\ WF_vars(OpenBridge \/ Launch \/ StartFails)
            /\ WF_vars(WaitReturns \/ WaitExpires)
            /\ \A n \in Instance :
                  /\ WF_vars(Boot(n) \/ AskParams(n) \/ BindPort(n))
                  /\ SF_vars(Terminate(n))
                  /\ SF_vars(End(n))
                  /\ WF_vars(TakeCall(n))
                  /\ WF_vars(AnswerCall(n) \/ LoseCall(n))

FairSpec == Spec /\ Fairness
-----------------------------------------------------------------------------
(* Properties.                                                             *)

TypeOK == /\ actor \in ActorState
          /\ starts \in 0 .. MaxStarts
          /\ current \in 0 .. MaxStarts
          /\ bridge \in 0 .. MaxStarts
          /\ web \in [Instance -> WebState]
          /\ term \in [Instance -> BOOLEAN]
          /\ server \in [Instance -> ServerState]

\* No orphans: an actor that is stopped before it is started again (Orderly)
\* knows every web process that was not told to end, so the port is never held by
\* a process nobody will end.
NoOrphan == Orderly => \A n \in Instance : Alive(n) /\ n # current => term[n]

\* exit() ends the process before it closes the bridge: no process, not even one
\* of an earlier start, ever waits for an answer on a closed bridge.
BridgeOutlivesProcess ==
    \A n \in Instance : server[n] = "closed" => ~Alive(n)

\* After exit() the process is dead and the last bridge closed, whichever of the
\* two ways of waiting was taken.
ExitComplete == actor = "exited" => /\ current # 0
                                    /\ ~Alive(current)
                                    /\ server[bridge] = "closed"

\* The inductive invariant behind the three: the process in self._proc is the
\* last one launched, bridges are numbered before processes, and only a completed
\* exit() closes one.
IInv == /\ TypeOK
        /\ current <= bridge /\ bridge = starts
        /\ actor = "starting" => starts < MaxStarts
        /\ \A n \in Instance : n > bridge => /\ web[n] = "absent"
                                             /\ server[n] = "absent"
        /\ \A n \in Instance : n > current /\ current # 0 => web[n] = "absent"
        /\ current # 0 => web[current] # "absent"
        /\ actor = "opening" => bridge # 0 /\ web[bridge] = "absent"
        /\ Orderly /\ actor \in {"starting", "opening"} => current = 0
        /\ actor = "waiting" => current # 0 /\ term[current]
        /\ \A n \in Instance : server[n] = "closed" => actor = "exited" /\ n = bridge
        /\ NoOrphan
        /\ BridgeOutlivesProcess
        /\ ExitComplete

\* The mutual wait of exit() is always broken. exit() waits for the process with
\* the event loop blocked; the process can not end before a bridge of that very
\* loop answers it. Only the timeout and kill get exit() out of it.
ExitEnds == actor = "waiting" ~> actor = "exited"

\* A process that was told to end does, unless it is blocked in a call on a stuck
\* bridge or from some time on a client keeps a connection to it open: stop() has no
\* second attempt, and uvicorn's shutdown no limit.
StopEnds == \A n \in Instance :
    term[n] ~> (\/ ~Alive(n)
                \/ Blocked(n) /\ server[n] = "stuck"
                \/ [](web[n] = "held"))

\* A launched process comes to serve or to an end, or hangs in a call on a stuck
\* bridge, or is held up by an actor in exit().
StartSettles == \A n \in Instance :
    web[n] = "booting" ~> (web[n] \in {"serving", "dead"}
                             \/ (Blocked(n) /\ server[n] = "stuck"))
=============================================================================
