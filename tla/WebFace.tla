------------------------------ MODULE WebFace ------------------------------
(***************************************************************************)
(* SimpleWebFace (web_face.py): its HTTP server, the websockets of that    *)
(* server and exit().                                                      *)
(*                                                                         *)
(* The handler of a connection enters it in the list _sockets before it is *)
(* prepared and takes it out after its last message; exit() awaits between *)
(* two elements, so the list changes under its loop.  `for ws in list` is  *)
(* an index that grows by one per turn: an element that leaves moves the   *)
(* rest down and the next one is skipped.                                  *)
(***************************************************************************)
EXTENDS Naturals, Sequences, SequencesExt

CONSTANTS Socket,   \* connections to /ws
          Slow,     \* those whose other side may stop reading
          Port,     \* ports that start may be told of
          None      \* no connection, no port

ASSUME WebFaceAssumption == /\ None \notin Socket /\ None \notin Port
                            /\ Slow \subseteq Socket

VARIABLES ws,       \* ws[s]: where the handler of connection s is
          home,     \* home[s]: the port it came in by
          closed,   \* connections whose WebSocketResponse is closed
          sockets,  \* _sockets
          servers,  \* ports on which an HTTP server of this actor listens
          runner,   \* _runner, by its port
          replaced, \* (history) servers whose runner was overwritten by a later start
          exit,     \* where exit() is
          pos,      \* the index of its loop
          closing   \* the connection it is closing

serverVars == <<servers, runner, replaced>>
exitVars == <<exit, pos, closing>>
vars == <<ws, home, closed, sockets, serverVars, exitVars>>

\* "unprepared": prepare has not made the writer yet; "prepared": it drains it;
\* "open": between two messages; "busy": with one; "leaving": closing the connection
\* itself.
Live == {"unprepared", "prepared", "open", "busy", "leaving"}

\* Handlers that an exception ended before they reached list.remove. "rejected",
\* "broken": prepare has raised before or after it made the writer; "raised":
\* receive has.
Lost == {"rejected", "broken", "raised"}

\* "left", "dropped", "failed": the handler has returned, was cancelled, raised in
\* list.remove or in what its try does not cover.
State == Live \cup Lost \cup {"new", "left", "dropped", "failed"}

Init == /\ ws = [s \in Socket |-> "new"]
        /\ home = [s \in Socket |-> None]
        /\ closed = {}
        /\ sockets = <<>>
        /\ servers = {} /\ runner = None /\ replaced = {}
        /\ exit = "running"
        /\ pos = 1
        /\ closing = None
-----------------------------------------------------------------------------
(* start: commands come one at a time, and none after exit() was called.   *)

\* A start whose port is taken, by this actor or another program, raises and
\* leaves everything as it was. Any other makes the runner that exit() cleans up;
\* that of an earlier start goes on and is forgotten.
Start(p) == /\ exit = "running"
            /\ p \notin servers
            /\ servers' = servers \cup {p}
            /\ runner' = p
            /\ replaced' = replaced \cup ({runner} \ {None})
            /\ UNCHANGED <<ws, home, closed, sockets, exitVars>>
-----------------------------------------------------------------------------
(* websocket_handler.                                                      *)

\* A request for /ws: its WebSocketResponse is entered at once. A server accepts
\* requests until it is cleaned up.
Connect(s, p) == /\ ws[s] = "new"
                 /\ p \in servers
                 /\ ws' = [ws EXCEPT ![s] = "unprepared"]
                 /\ home' = [home EXCEPT ![s] = p]
                 /\ sockets' = Append(sockets, s)
                 /\ UNCHANGED <<closed, serverVars, exitVars>>

To(s, from, to) == /\ ws[s] = from
                   /\ ws' = [ws EXCEPT ![s] = to]
                   /\ UNCHANGED <<home, closed, sockets, serverVars, exitVars>>

\* prepare goes on, or raises: the request is no websocket handshake, or the other
\* side has gone. The entry then stays in the list.
Prepare(s) == To(s, "unprepared", "prepared") \/ To(s, "prepared", "open")

PrepareFails(s) == To(s, "unprepared", "rejected") \/ To(s, "prepared", "broken")

\* A text message comes; websocket_handle asks or sends what it says.
Receive(s) == s \notin closed /\ To(s, "open", "busy")

\* Mutant of Answer: an answer that can not be sent ends the handler.
AnswerUncaught(s) == IF s \in closed THEN To(s, "busy", "failed") ELSE To(s, "busy", "open")

\* Mutant of Answer: an answer that can not be sent is tried again and again.
AnswerRetried(s) == s \notin closed /\ To(s, "busy", "open")

\* The answer is sent, or an error or a connection closed meanwhile was logged.
Answer(s) == To(s, "busy", "open")

\* receive reads that the other side has closed the connection or is gone, or that it
\* broke the protocol. It closes the connection too, which is closed from then on, and
\* awaits that without a limit: what was written before may have to be read first.
PeerCloses(s) == /\ ws[s] = "open" /\ s \notin closed
                 /\ ws' = [ws EXCEPT ![s] = "leaving"]
                 /\ closed' = closed \cup {s}
                 /\ UNCHANGED <<home, sockets, serverVars, exitVars>>

\* receive finds a ping, sent before the connection was lost or closed by exit(), and
\* the pong raises ClientConnectionResetError: the handler ends in the middle of its
\* `async for`, the connection is as closed as it was.
PongFails(s) == To(s, "open", "raised")

\* list.remove, of the first entry that is s.
Unlist(s) == \E i \in 1 .. Len(sockets) :
                /\ sockets[i] = s
                /\ \A j \in 1 .. i - 1 : sockets[j] # s
                /\ sockets' = RemoveAt(sockets, i)

\* The loop over the messages ends: the entry goes, ValueError if there is none.
Leave(s) == /\ ws[s] \in {"open", "leaving"} /\ s \in closed
            /\ \/ /\ Unlist(s)
                  /\ ws' = [ws EXCEPT ![s] = "left"]
               \/ /\ ~Contains(sockets, s)
                  /\ ws' = [ws EXCEPT ![s] = "failed"]
                  /\ UNCHANGED sockets
            /\ UNCHANGED <<home, closed, serverVars, exitVars>>
-----------------------------------------------------------------------------
(* exit and close_websockets.                                              *)

ExitBegins == /\ exit = "running"
              /\ exit' = "closing"
              /\ UNCHANGED <<ws, home, closed, sockets, serverVars, pos, closing>>

AtElement == exit = "closing" /\ closing = None /\ pos <= Len(sockets)

\* `if ws.closed: continue`.
SkipClosed == /\ AtElement
              /\ sockets[pos] \in closed
              /\ pos' = pos + 1
              /\ UNCHANGED <<ws, home, closed, sockets, serverVars, exit, closing>>

\* ws.close() of a connection that was prepared: closed from now on, and awaited.
CloseOpen == /\ AtElement
             /\ sockets[pos] \notin closed
             /\ ws[sockets[pos]] \notin {"unprepared", "rejected"}
             /\ closed' = closed \cup {sockets[pos]}
             /\ closing' = sockets[pos]
             /\ UNCHANGED <<ws, home, sockets, serverVars, exit, pos>>

\* It returns, or the timeout of one second closes the transport.
CloseReturns == /\ closing # None
                /\ closing' = None
                /\ pos' = pos + 1
                /\ UNCHANGED <<ws, home, closed, sockets, serverVars, exit>>

\* Mutant of CloseUnprepared: the loop tries again until it succeeds.
RetryUnprepared == /\ AtElement
                   /\ ws[sockets[pos]] \in {"unprepared", "rejected"}
                   /\ UNCHANGED vars

\* ws.close() of a connection that has no writer: RuntimeError, which only
\* TimeoutError was expected of. exit() fails; the HTTP server goes on.
CloseUnprepared == /\ AtElement
                   /\ ws[sockets[pos]] \in {"unprepared", "rejected"}
                   /\ exit' = "failed"
                   /\ UNCHANGED <<ws, home, closed, sockets, serverVars, pos, closing>>

\* The loop ends and the list is cleared, whatever is left in it.
ClearSockets == /\ exit = "closing"
                /\ closing = None
                /\ pos > Len(sockets)
                /\ sockets' = <<>>
                /\ exit' = "cleanup"
                /\ UNCHANGED <<ws, home, closed, serverVars, pos, closing>>

\* Mutant of Cleanup: the runner is forgotten without a cleanup.
ForgetRunner == /\ exit = "cleanup"
                /\ exit' = "done"
                /\ runner' = None
                /\ UNCHANGED <<ws, home, closed, sockets, servers, replaced, pos, closing>>

\* AppRunner.cleanup, if a start made a runner: its server stops listening, gives
\* the handlers time, cancels those left and closes their connections.
Cleanup == /\ exit = "cleanup"
           /\ exit' = "done"
           /\ servers' = servers \ {runner}
           /\ runner' = None
           /\ ws' = [s \in Socket |->
                        IF ws[s] \in Live /\ home[s] = runner THEN "dropped" ELSE ws[s]]
           /\ UNCHANGED <<home, closed, sockets, replaced, pos, closing>>
-----------------------------------------------------------------------------
Handler(s) == \/ \E p \in Port : Connect(s, p)
              \/ Prepare(s) \/ PrepareFails(s)
              \/ Receive(s) \/ Answer(s) \/ PeerCloses(s) \/ PongFails(s) \/ Leave(s)

ExitStep == SkipClosed \/ CloseOpen \/ CloseReturns \/ CloseUnprepared \/ ClearSockets \/ Cleanup

Next == \/ \E p \in Port : Start(p)
        \/ \E s \in Socket : Handler(s)
        \/ ExitBegins \/ ExitStep

Spec == Init /\ [][Next]_vars

\* exit() goes on once it has begun: everything it awaits has a timeout. So does what
\* the handler of a closed connection asks; what it writes, the close of receive
\* included, ends when the other side reads it or is gone.
FairSpec == /\ Spec
            /\ WF_vars(ExitStep)
            /\ \A s \in Socket \ Slow :
                  WF_vars(s \in closed /\ \/ Prepare(s) \/ PrepareFails(s) \/ Answer(s)
                                          \/ PongFails(s) \/ Leave(s))
-----------------------------------------------------------------------------
(* Properties.                                                             *)

TypeOK == /\ ws \in [Socket -> State]
          /\ home \in [Socket -> Port \cup {None}]
          /\ closed \subseteq Socket
          /\ sockets \in Seq(Socket)
          /\ servers \subseteq Port /\ replaced \subseteq Port /\ runner \in Port \cup {None}
          /\ exit \in {"running", "closing", "cleanup", "done", "failed"}
          /\ pos \in Nat \ {0}
          /\ closing \in Socket \cup {None}

\* Until exit() clears it the list holds every connection whose handler is at work,
\* once, and no other but those whose handler prepare or receive has ended by an
\* exception (their entries stay, nobody takes them out): a handler that ends finds
\* its own entry (list.remove never raises), whoever else came and went, and an
\* answer that fails costs no entry.
ListedOnce == exit \in {"running", "closing", "failed"} =>
    /\ IsInjective(sockets)
    /\ \A s \in Socket : Contains(sockets, s) <=> ws[s] \in Live \cup Lost

\* When exit() is done it leaves nothing behind but what an earlier start had: no
\* server listens and no handler is at work, although the loop skips the
\* neighbours of those that leave and clears the list all the same.
ExitClosesAll == exit = "done" =>
    /\ servers \subseteq replaced
    /\ \A s \in Socket : ws[s] \in Live => home[s] \in replaced

\* exit() ends, done or failed, also when connections come and go meanwhile.
ExitEnds == exit = "closing" ~> exit \in {"done", "failed"}

\* The handler of a closed connection comes to its end, whoever closed it and
\* whatever it was doing, if the other side reads or goes. With one that does neither
\* it may stay, until a cleanup that a failed exit or a replaced server never makes.
ClosedEnds == \A s \in Socket \ Slow :
    s \in closed /\ ws[s] \in Live ~> ws[s] \notin Live

\* Why: handlers at work belong to servers that listen, and all but that of the
\* runner were replaced.
ServerInv == /\ \A s \in Socket : ws[s] \in Live => home[s] \in servers
             /\ servers \subseteq replaced \cup {runner}
             /\ exit = "done" => runner = None

\* The inductive invariant.
IInv == TypeOK /\ ListedOnce /\ ServerInv
=============================================================================
