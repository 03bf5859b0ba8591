----------------------------- MODULE ZmqBridge -----------------------------
(***************************************************************************)
(* The request/reply bridge between the dashboard's web process (uvicorn)  *)
(* and the actor system: core/zmq_client.py (a blocking REQ socket) on one *)
(* side, zmq_server.py (an asyncio REP socket run as a task of the actor   *)
(* SimpleFastapiActor) on the other, and the two zmq queues between them.  *)
(*                                                                         *)
(* Every handler of the web process is a coroutine that calls              *)
(* zmq_client.client.ask synchronously: the event loop is blocked for the  *)
(* whole call, so at most one call is in progress (variable loop).         *)
(*                                                                         *)
(* The REP socket owes a reply to the request it handed out last and       *)
(* delivers nothing before it was sent (variable owed). The asyncio socket *)
(* does not raise in that state: recv() just never completes.              *)
(***************************************************************************)
EXTENDS Naturals, FiniteSets

CONSTANTS Call,       \* invocations of ZMQClient.ask by the web process
          NoCall,     \* the event loop of the web process is not blocked
          NoFrame,    \* the REP socket owes no reply
          MaxErrors,  \* bound: how often the client's socket is replaced
          Faults      \* what may go wrong in a run

FaultKinds == {"sendError",   \* socket.send raises ZMQError in the client
               "recvError",   \* socket.recv raises ZMQError in the client
               "askTimeout",  \* adaptor.ask raises TimeoutError
               "recvRace",    \* the 300 s timer fires with a request handed out
               "exception",   \* any other exception between recv and send
               "exit"}        \* ZmqServer.exit is called

ASSUME ConstantsAssumption == /\ NoCall \notin Call
                              /\ NoFrame \notin [conn : Nat, call : Call]
                              /\ MaxErrors \in Nat
                              /\ Faults \subseteq FaultKinds

VARIABLES pc,        \* pc[c]: how far the call c got, as its caller sees it
          answer,    \* answer[c]: the call whose answer ask returned to c
          loop,      \* the call the web process's event loop is blocked in
          conn,      \* number of the client's current socket
          requests,  \* requests on their way to the server
          replies,   \* replies on their way to the client
          srv,       \* where the task ZmqServer.run is
          owed,      \* the request the REP socket owes a reply to
          sockOpen,  \* the REP socket is open
          served     \* served[c]: how often the command of c was passed on

clientVars == <<pc, answer, loop, conn>>
serverVars == <<srv, owed, sockOpen, served>>
vars == <<pc, answer, loop, conn, requests, replies, srv, owed, sockOpen, served>>

Status == {"new", "pending", "answered", "refused", "lost"}
Frame == [conn : 0 .. MaxErrors, call : Call]

Init == /\ pc = [c \in Call |-> "new"]
        /\ answer = [c \in Call |-> NoCall]
        /\ loop = NoCall
        /\ conn = 0
        /\ requests = {}
        /\ replies = {}
        /\ srv = "listening"
        /\ owed = NoFrame
        /\ sockOpen = TRUE
        /\ served = [c \in Call |-> 0]
-----------------------------------------------------------------------------
(* The client, core/zmq_client.py.                                         *)

\* socket.send(data), then the event loop blocks in socket.recv(): no timeout.
ClientSend(c) ==
    /\ pc[c] = "new"
    /\ loop = NoCall
    /\ pc' = [pc EXCEPT ![c] = "pending"]
    /\ loop' = c
    /\ requests' = requests \cup {[conn |-> conn, call |-> c]}
    /\ UNCHANGED <<answer, conn, replies, serverVars>>

\* _reconnect: the socket is replaced. What was on its way to the old one is
\* gone; what the old one sent may still reach the server.
Reconnect ==
    /\ conn < MaxErrors
    /\ conn' = conn + 1
    /\ replies' = {}

\* Mutant of ReconnectAndRaise: the request is sent again over the new socket
\* and the caller goes on waiting.
ResendOverNewSocket(c) ==
    /\ Reconnect
    /\ pc' = [pc EXCEPT ![c] = "pending"]
    /\ loop' = c
    /\ requests' = requests \cup {[conn |-> conn + 1, call |-> c]}

\* The handler of ZMQError: reconnect, then socket.send(data) is given the
\* message itself, not its serialized form, and raises TypeError. So nothing is
\* sent over the new socket and the web handler fails.
ReconnectAndRaise(c) ==
    /\ Reconnect
    /\ pc' = [pc EXCEPT ![c] = IF loop = c THEN "lost" ELSE "refused"]
    /\ loop' = NoCall
    /\ UNCHANGED requests

\* ZMQError in the first send: the request never leaves the process.
ClientSendError(c) ==
    /\ "sendError" \in Faults
    /\ pc[c] = "new"
    /\ loop = NoCall
    /\ ReconnectAndRaise(c)
    /\ UNCHANGED <<answer, serverVars>>

\* ZMQError in the first recv, with the request sent. (When the server's end is
\* closed, context.term() may instead linger for ever: the call stays pending.)
ClientRecvError(c) ==
    /\ "recvError" \in Faults
    /\ loop = c
    /\ ReconnectAndRaise(c)
    /\ UNCHANGED <<answer, serverVars>>

\* socket.recv() returns and so does ask.
ClientRecv(c) ==
    /\ loop = c
    /\ \E r \in replies :
          /\ r.conn = conn
          /\ answer' = [answer EXCEPT ![c] = r.call]
          /\ replies' = replies \ {r}
    /\ pc' = [pc EXCEPT ![c] = "answered"]
    /\ loop' = NoCall
    /\ UNCHANGED <<conn, requests, serverVars>>
-----------------------------------------------------------------------------
(* The server, zmq_server.py: the loop of server_handle.                   *)

\* Mutant of ServerRecv: a socket that takes requests while it owes a reply.
RecvWhileOwing ==
    /\ srv = "listening"
    /\ sockOpen
    /\ \E f \in requests : /\ owed' = f
                           /\ requests' = requests \ {f}
    /\ srv' = "resolved"
    /\ UNCHANGED <<clientVars, replies, sockOpen, served>>

\* The REP socket completes the pending recv(): from now on it owes a reply.
\* The task has not resumed yet. A REP socket that owes a reply delivers nothing.
ServerRecv ==
    /\ srv = "listening"
    /\ sockOpen
    /\ owed = NoFrame
    /\ \E f \in requests : /\ owed' = f
                           /\ requests' = requests \ {f}
    /\ srv' = "resolved"
    /\ UNCHANGED <<clientVars, replies, sockOpen, served>>

\* The next turn of the loop: on a closed socket recv() raises ZMQError, run()
\* logs it and the task ends.
ReceiveAgain == srv' = IF sockOpen THEN "listening" ELSE "dead"

\* wait_for(recv, 300): the timer cancels the task between the completion of
\* recv() and the task's next step. TimeoutError is swallowed, the request gone.
RecvTimeoutRace ==
    /\ "recvRace" \in Faults
    /\ srv = "resolved"
    /\ ReceiveAgain
    /\ UNCHANGED <<clientVars, requests, replies, owed, sockOpen, served>>

\* The task resumes: deserialize, choose the recipient, adaptor.ask (or send).
ServerForward ==
    /\ srv = "resolved"
    /\ srv' = "forwarding"
    /\ served' = [served EXCEPT ![owed.call] = @ + 1]
    /\ UNCHANGED <<clientVars, requests, replies, owed, sockOpen>>

\* Mutant of AdaptorAnswers: no reply is made when its socket was replaced.
AnswerLiveSocketOnly ==
    /\ srv = "forwarding"
    /\ sockOpen
    /\ IF owed.conn = conn
       THEN replies' = replies \cup {owed} /\ owed' = NoFrame
       ELSE UNCHANGED <<replies, owed>>
    /\ srv' = "listening"
    /\ UNCHANGED <<clientVars, requests, sockOpen, served>>

\* The adaptor's answer is sent back. zmq drops a reply to a closed socket.
AdaptorAnswers ==
    /\ srv = "forwarding"
    /\ sockOpen
    /\ replies' = replies \cup {f \in {owed} : f.conn = conn}
    /\ owed' = NoFrame
    /\ srv' = "listening"
    /\ UNCHANGED <<clientVars, requests, sockOpen, served>>

\* Mutant of AskTimesOut: the timed out call is put back and served again.
RetryAfterTimeout ==
    /\ "askTimeout" \in Faults
    /\ srv = "forwarding"
    /\ srv' = "resolved"
    /\ UNCHANGED <<clientVars, requests, replies, owed, sockOpen, served>>

\* Mutant of AskTimesOut: the socket is reset, no reply is sent.
ResetAfterTimeout ==
    /\ "askTimeout" \in Faults
    /\ srv = "forwarding"
    /\ ReceiveAgain
    /\ owed' = NoFrame
    /\ UNCHANGED <<clientVars, requests, replies, sockOpen, served>>

\* adaptor.ask raises TimeoutError: `except TimeoutError: pass` was meant for
\* recv() but covers the whole body, so the loop goes on without a reply.
AskTimesOut ==
    /\ "askTimeout" \in Faults
    /\ srv = "forwarding"
    /\ ReceiveAgain
    /\ UNCHANGED <<clientVars, requests, replies, owed, sockOpen, served>>

\* Any other exception while a request is handled (send on a closed socket is
\* one): run() logs it and the task ends. The socket stays as it is.
ServerFails ==
    /\ \/ "exception" \in Faults /\ srv \in {"resolved", "forwarding"}
       \/ srv = "forwarding" /\ ~sockOpen
    /\ srv' = "dead"
    /\ UNCHANGED <<clientVars, requests, replies, owed, sockOpen, served>>

\* ZmqServer.exit: socket.close() cancels a pending recv() and with it the task;
\* a task that is past recv() goes on.
ServerExit ==
    /\ "exit" \in Faults
    /\ sockOpen
    /\ sockOpen' = FALSE
    /\ srv' = IF srv = "listening" THEN "dead" ELSE srv
    /\ UNCHANGED <<clientVars, requests, replies, owed, served>>
-----------------------------------------------------------------------------
Next == \/ \E c \in Call : \/ ClientSend(c)
                           \/ ClientSendError(c)
                           \/ ClientRecvError(c)
                           \/ ClientRecv(c)
        \/ ServerRecv
        \/ RecvTimeoutRace
        \/ ServerForward
        \/ AdaptorAnswers
        \/ AskTimesOut
        \/ ServerFails
        \/ ServerExit

Spec == Init /\ [][Next]_vars

\* The event loops run what is ready, adaptor.ask ends one way or another (it is
\* given a timeout) and zmq delivers. Nothing forces a fault to happen.
Fairness == /\ WF_vars(\E c \in Call : ClientRecv(c))
            /\ WF_vars(ServerRecv)
            /\ WF_vars(ServerForward \/ RecvTimeoutRace)
            /\ WF_vars(AdaptorAnswers \/ AskTimesOut \/ ServerFails)

FairSpec == Spec /\ Fairness
-----------------------------------------------------------------------------
(* Properties.                                                             *)

TypeOK == /\ pc \in [Call -> Status]
          /\ answer \in [Call -> Call \cup {NoCall}]
          /\ loop \in Call \cup {NoCall}
          /\ conn \in 0 .. MaxErrors
          /\ requests \subseteq Frame
          /\ replies \subseteq Frame
          /\ srv \in {"listening", "resolved", "forwarding", "dead"}
          /\ owed \in Frame \cup {NoFrame}
          /\ sockOpen \in BOOLEAN
          /\ served \in [Call -> Nat]

\* The server can never reply again: its task is gone, or it waits in recv() on
\* a REP socket that owes a reply (see the head of this module).
Stuck == \/ srv = "dead"
         \/ srv = "listening" /\ owed # NoFrame

\* The frame the event loop is waiting for an answer to.
Awaited == [conn |-> conn, call |-> loop]

\* Custody: a request is in one place at a time, and the one of the blocked caller
\* is in some place - on its way, in the server's hands or answered. The
\* client has no timeout, so a request in no place would freeze the web process
\* without a fault on the server's side, and one in two places would be answered
\* twice (zmq_client.ask and server_handle, over every reconnection).
Custody ==
    /\ loop # NoCall => Awaited \in requests \cup replies \cup {owed}
    /\ requests \cap replies = {}
    /\ owed \notin requests \cup replies

\* A command of the web process reaches the actor system at most once, whatever
\* is lost, timed out or reconnected in between; one whose send failed never
\* does (the handlers of api/users.py are not idempotent).
AtMostOnce == \A c \in Call : /\ served[c] <= 1
                              /\ pc[c] \in {"new", "refused"} => served[c] = 0

\* ask returns the answer to its own request, never the late answer to a call
\* that an earlier web handler gave up when the socket was replaced.
AnswerMatches == \A c \in Call :
    pc[c] = "answered" => answer[c] = c /\ served[c] = 1

\* A stuck server stays stuck: no step forwards another command or sends another
\* reply, so nothing but a restart of the actor repairs the dashboard
\* (`except TimeoutError: pass`, zmq_server.py:65, never resets the socket).
StuckForEver == [][Stuck => /\ Stuck'
                            /\ served' = served
                            /\ replies' \subseteq replies]_vars

\* The requests and replies that are somewhere between the two ends.
Transit == requests \cup replies \cup ({owed} \ {NoFrame})

\* The inductive invariant behind AtMostOnce, Custody and AnswerMatches: what is
\* in transit belongs to calls in progress or lost, one frame per call, and it
\* belongs to the current socket exactly if it belongs to the blocked call; the
\* place of a frame tells how often its command was passed on.
IInv ==
    /\ TypeOK
    /\ \A c \in Call : pc[c] = "pending" <=> loop = c
    /\ \A f \in Transit : /\ f.conn <= conn
                          /\ f.conn = conn <=> f.call = loop
                          /\ pc[f.call] \in {"pending", "lost"}
    /\ \A f, g \in Transit : f.call = g.call => f = g
    /\ \A f \in requests : served[f.call] = 0
    /\ \A r \in replies : r.conn = conn /\ served[r.call] = 1
    /\ srv \in {"resolved", "forwarding"} =>
          /\ owed # NoFrame
          /\ served[owed.call] = IF srv = "resolved" THEN 0 ELSE 1
    /\ Custody
    /\ AtMostOnce
    /\ AnswerMatches

\* The web process may rely on the bridge as on an at-most-once remote call.
Abstract == INSTANCE Rpc WITH status <- pc, runs <- served, answer <- answer
ImplementsRpc == Abstract!Spec

\* A call ends, with an answer or an exception, unless the server got stuck: a
\* hung web process always has that one cause.
EndsOrStuck == \A c \in Call : (loop = c) ~> (loop # c \/ Stuck)

\* Without an exception, a timeout or a stop on the server's side every call
\* ends: replacing the client's socket leaves the server able to serve.
Ends == \A c \in Call : (loop = c) ~> (loop # c)
=============================================================================
