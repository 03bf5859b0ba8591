-------------------------- MODULE ZmqBridgeProofs --------------------------
(***************************************************************************)
(* Proofs about ZmqBridge, for every set of calls, every number of         *)
(* reconnections and every set of faults: the inductive invariant IInv,    *)
(* the invariants it contains, the permanence of a stuck server, and the   *)
(* refinement of Rpc.                                                      *)
(***************************************************************************)
EXTENDS ZmqBridge, TLAPS

\* The initial states of the bridge satisfy the inductive invariant.
LEMMA InitIInv == Init => IInv
<1> SUFFICES ASSUME Init PROVE IInv
  OBVIOUS
<1> USE ConstantsAssumption DEF Init
<1>1. TypeOK
  BY DEF TypeOK, Status
<1>2. Transit = {}
  BY DEF Transit
<1>3. Custody /\ AtMostOnce /\ AnswerMatches
  BY DEF Custody, AtMostOnce, AnswerMatches
<1> QED
  BY <1>1, <1>2, <1>3 DEF IInv

\* A frame the server is handling is in transit.
LEMMA OwedInTransit ==
    ASSUME IInv, srv \in {"resolved", "forwarding"}
    PROVE  owed \in Transit /\ owed \in Frame /\ owed.call \in Call
  BY DEF IInv, TypeOK, Transit, Frame

\* Sending a request keeps the inductive invariant: the call is new, so no frame
\* of it is in transit yet.
LEMMA ClientSendIInv ==
    ASSUME IInv, NEW c \in Call, ClientSend(c) PROVE IInv'
<1> DEFINE f == [conn |-> conn, call |-> c]
<1> USE ConstantsAssumption
<1>1. f \in Frame /\ f.conn = conn /\ f.call = c
  BY DEF IInv, TypeOK, Frame
<1>2. \A g \in Transit : g.call # c
  BY DEF IInv, ClientSend
<1>3. f \notin Transit
  BY <1>1, <1>2
<1>4. TypeOK'
  BY <1>1 DEF IInv, TypeOK, ClientSend, serverVars, Status
<1>5. Transit' = Transit \cup {f}
  BY <1>1 DEF Transit, ClientSend, serverVars
<1>6. Awaited' = f
  BY DEF Awaited, ClientSend
<1>7. Custody'
  BY <1>3, <1>5, <1>6, <1>1 DEF IInv, Custody, Transit, ClientSend, serverVars, Frame
<1>8. AtMostOnce' /\ AnswerMatches'
  BY DEF IInv, TypeOK, AtMostOnce, AnswerMatches, ClientSend, serverVars
<1>9. \A d \in Call : pc'[d] = "pending" <=> loop' = d
  BY DEF IInv, TypeOK, ClientSend
<1>10. \A g \in Transit' : /\ g.conn <= conn'
                           /\ g.conn = conn' <=> g.call = loop'
                           /\ pc'[g.call] \in {"pending", "lost"}
  <2> TAKE g \in Transit'
  <2>1. CASE g = f
    BY <2>1, <1>1 DEF IInv, TypeOK, ClientSend, Frame
  <2>2. CASE g \in Transit
    <3>1. g \in Frame
      BY <2>2 DEF IInv, TypeOK, Transit
    <3>2. g.conn # conn
      BY <2>2, <3>1 DEF IInv, ClientSend, Frame
    <3> QED
      BY <2>2, <3>1, <3>2, <1>2 DEF IInv, TypeOK, ClientSend, Frame
  <2> QED
    BY <2>1, <2>2, <1>5
<1>11. \A g, h \in Transit' : g.call = h.call => g = h
  BY <1>5, <1>2, <1>1 DEF IInv
<1>12. served[c] = 0
  BY DEF IInv, AtMostOnce, ClientSend
<1>13. /\ \A g \in requests' : served'[g.call] = 0
       /\ \A r \in replies' : r.conn = conn' /\ served'[r.call] = 1
       /\ srv' \in {"resolved", "forwarding"} =>
             /\ owed' # NoFrame
             /\ served'[owed'.call] = IF srv' = "resolved" THEN 0 ELSE 1
  BY <1>1, <1>12 DEF IInv, ClientSend, serverVars
<1> QED
  BY <1>4, <1>7, <1>8, <1>9, <1>10, <1>11, <1>13 DEF IInv

\* Replacing the client's socket keeps the inductive invariant: whatever is in
\* transit now belongs to an earlier socket, and its call was given up.
LEMMA ReconnectIInv ==
    ASSUME IInv, NEW c \in Call, ReconnectAndRaise(c),
           loop = c \/ (loop = NoCall /\ pc[c] = "new"),
           UNCHANGED <<answer, serverVars>>
    PROVE  IInv'
<1> USE ConstantsAssumption DEF ReconnectAndRaise, Reconnect, serverVars
<1>1. TypeOK'
  BY DEF IInv, TypeOK, Status, Frame
<1>2. /\ Transit' = requests \cup ({owed} \ {NoFrame})
      /\ Transit' \subseteq Transit
  BY DEF Transit
<1>3. loop' = NoCall /\ pc' \in [Call -> Status]
  BY <1>1 DEF TypeOK
<1>4. \A d \in Call : pc'[d] = "pending" <=> loop' = d
  BY DEF IInv, TypeOK
<1>5. \A f \in Transit' : /\ f.conn <= conn'
                          /\ f.conn = conn' <=> f.call = loop'
                          /\ pc'[f.call] \in {"pending", "lost"}
  <2> TAKE f \in Transit'
  <2>1. f \in Transit /\ f \in Frame
    BY <1>2 DEF IInv, TypeOK, Transit
  <2>2. f.call \in Call /\ f.conn \in Nat /\ conn \in Nat /\ f.conn <= conn
    BY <2>1 DEF Frame, IInv, TypeOK
  <2>3. f.conn # conn' /\ f.conn <= conn' /\ f.call # loop'
    BY <2>2, <1>3
  <2>4. pc'[f.call] \in {"pending", "lost"}
    BY <2>1, <2>2 DEF IInv, TypeOK
  <2> QED
    BY <2>3, <2>4
<1>6. Custody'
  BY <1>3 DEF IInv, Custody
<1>7. AtMostOnce' /\ AnswerMatches'
  BY DEF IInv, TypeOK, AtMostOnce, AnswerMatches
<1> QED
  BY <1>1, <1>2, <1>4, <1>5, <1>6, <1>7 DEF IInv

\* The answer is taken and with it the last frame of the call.
LEMMA ClientRecvIInv ==
    ASSUME IInv, NEW c \in Call, ClientRecv(c) PROVE IInv'
<1> USE ConstantsAssumption DEF ClientRecv, serverVars
<1>1. PICK r \in replies : /\ r.conn = conn
                           /\ answer' = [answer EXCEPT ![c] = r.call]
                           /\ replies' = replies \ {r}
  OBVIOUS
<1>2. r \in Transit /\ r.call = c /\ served[c] = 1 /\ pc[c] = "pending"
  BY <1>1 DEF IInv, Transit
<1>3. TypeOK'
  BY <1>1, <1>2 DEF IInv, TypeOK, Status
<1>4. Transit' \subseteq Transit /\ r \notin Transit'
  BY <1>1, <1>2 DEF Transit, IInv, Custody
<1>5. \A f \in Transit' : f.call # c
  BY <1>2, <1>4 DEF IInv
<1>6. \A d \in Call : pc'[d] = "pending" <=> loop' = d
  BY DEF IInv, TypeOK
<1>7. \A f \in Transit' : /\ f.conn <= conn'
                          /\ f.conn = conn' <=> f.call = loop'
                          /\ pc'[f.call] \in {"pending", "lost"}
  <2> TAKE f \in Transit'
  <2>1. f \in Frame /\ f.call \in Call
    BY <1>3 DEF TypeOK, Transit, Frame
  <2> QED
    BY <2>1, <1>4, <1>5 DEF IInv, TypeOK
<1>8. Custody'
  BY <1>1 DEF IInv, Custody
<1>9. AtMostOnce' /\ AnswerMatches'
  BY <1>1, <1>2 DEF IInv, TypeOK, AtMostOnce, AnswerMatches
<1> QED
  BY <1>1, <1>3, <1>4, <1>6, <1>7, <1>8, <1>9 DEF IInv

\* The server takes a request: the frame stays in transit, in the server's hands.
LEMMA ServerRecvIInv ==
    ASSUME IInv, ServerRecv PROVE IInv'
<1> USE ConstantsAssumption DEF ServerRecv, clientVars
<1>1. PICK f \in requests : owed' = f /\ requests' = requests \ {f}
  OBVIOUS
<1>2. f \in Frame /\ f \in Transit /\ f # NoFrame /\ served[f.call] = 0
  BY <1>1 DEF IInv, TypeOK, Transit, Frame
<1>3. TypeOK'
  BY <1>1, <1>2 DEF IInv, TypeOK
<1>4. Transit' = Transit
  BY <1>1, <1>2 DEF Transit
<1>5. Custody'
  <2>1. f \notin replies /\ f \notin requests'
    BY <1>1 DEF IInv, Custody
  <2>2. Awaited' = Awaited /\ loop' = loop
    BY DEF Awaited
  <2>3. loop # NoCall => Awaited \in requests \cup replies
    <3> SUFFICES ASSUME loop # NoCall PROVE Awaited \in requests \cup replies
      OBVIOUS
    <3>1. loop \in Call /\ conn \in Nat
      BY DEF IInv, TypeOK
    <3>2. Awaited # NoFrame
      BY <3>1 DEF Awaited
    <3> QED
      BY <3>2 DEF IInv, Custody
  <2> QED
    BY <1>1, <2>1, <2>2, <2>3 DEF IInv, Custody
<1>6. AtMostOnce' /\ AnswerMatches'
  BY DEF IInv, AtMostOnce, AnswerMatches
<1> QED
  BY <1>1, <1>2, <1>3, <1>4, <1>5, <1>6 DEF IInv

\* The command is passed on: it was not before, as its frame is in no other place.
LEMMA ServerForwardIInv ==
    ASSUME IInv, ServerForward PROVE IInv'
<1> USE ConstantsAssumption DEF ServerForward, clientVars
<1>1. owed \in Transit /\ owed \in Frame /\ owed.call \in Call
  BY OwedInTransit
<1>2. served[owed.call] = 0 /\ pc[owed.call] \in {"pending", "lost"}
  BY <1>1 DEF IInv
<1>3. TypeOK'
  BY <1>1 DEF IInv, TypeOK
<1>4. Transit' = Transit
  BY DEF Transit
<1>5. \A f \in requests \cup replies : f.call # owed.call
  BY <1>1 DEF IInv, Transit, Custody
<1>6. Custody'
  BY DEF IInv, Custody, Awaited
<1>7. AtMostOnce' /\ AnswerMatches'
  BY <1>1, <1>2 DEF IInv, TypeOK, AtMostOnce, AnswerMatches
<1>8. /\ \A f \in requests' : served'[f.call] = 0
      /\ \A r \in replies' : r.conn = conn' /\ served'[r.call] = 1
  BY <1>5 DEF IInv, TypeOK, Frame
<1>9. served'[owed'.call] = 1
  BY <1>1, <1>2 DEF IInv, TypeOK
<1> QED
  BY <1>3, <1>4, <1>6, <1>7, <1>8, <1>9 DEF IInv

\* The answer is sent: the frame goes back, or nowhere if its socket is gone.
LEMMA AdaptorAnswersIInv ==
    ASSUME IInv, AdaptorAnswers PROVE IInv'
<1> USE ConstantsAssumption DEF AdaptorAnswers, clientVars
<1>1. owed \in Transit /\ owed \in Frame /\ owed # NoFrame
  BY OwedInTransit DEF IInv
<1>2. served[owed.call] = 1
  BY DEF IInv
<1>3. TypeOK'
  BY <1>1 DEF IInv, TypeOK
<1>4. Transit' \subseteq Transit
  BY <1>1 DEF Transit
<1>5. Custody'
  BY <1>1 DEF IInv, Custody, Awaited, TypeOK, Transit, Frame
<1>6. AtMostOnce' /\ AnswerMatches'
  BY DEF IInv, AtMostOnce, AnswerMatches
<1> QED
  BY <1>2, <1>3, <1>4, <1>5, <1>6 DEF IInv

\* Steps that only move the server's task, or close its socket.
LEMMA ServerMovesIInv ==
    ASSUME IInv,
           RecvTimeoutRace \/ AskTimesOut \/ ServerFails \/ ServerExit
    PROVE  IInv'
<1>1. /\ UNCHANGED <<clientVars, requests, replies, owed, served>>
      /\ srv' \in {"listening", "dead"} \/ srv' = srv
      /\ sockOpen' \in BOOLEAN
  BY DEF IInv, TypeOK, RecvTimeoutRace, AskTimesOut, ServerFails, ServerExit, ReceiveAgain
<1>2. TypeOK'
  BY <1>1 DEF IInv, TypeOK, clientVars
<1>3. Transit' = Transit
  BY <1>1 DEF Transit
<1>4. Custody' /\ AtMostOnce' /\ AnswerMatches'
  BY <1>1 DEF IInv, Custody, Awaited, AtMostOnce, AnswerMatches, clientVars
<1> QED
  BY <1>1, <1>2, <1>3, <1>4 DEF IInv, clientVars

\* Every step of the bridge keeps the inductive invariant.
LEMMA NextIInv == IInv /\ [Next]_vars => IInv'
<1> SUFFICES ASSUME IInv, [Next]_vars PROVE IInv'
  OBVIOUS
<1>1. ASSUME NEW c \in Call, ClientSend(c) PROVE IInv'
  BY <1>1, ClientSendIInv
<1>2. ASSUME NEW c \in Call, ClientSendError(c) PROVE IInv'
  BY <1>2, ReconnectIInv DEF ClientSendError
<1>3. ASSUME NEW c \in Call, ClientRecvError(c) PROVE IInv'
  BY <1>3, ReconnectIInv DEF ClientRecvError
<1>4. ASSUME NEW c \in Call, ClientRecv(c) PROVE IInv'
  BY <1>4, ClientRecvIInv
<1>5. CASE ServerRecv
  BY <1>5, ServerRecvIInv
<1>6. CASE ServerForward
  BY <1>6, ServerForwardIInv
<1>7. CASE AdaptorAnswers
  BY <1>7, AdaptorAnswersIInv
<1>8. CASE RecvTimeoutRace \/ AskTimesOut \/ ServerFails \/ ServerExit
  BY <1>8, ServerMovesIInv
<1>9. CASE UNCHANGED vars
  BY <1>9 DEF vars, IInv, TypeOK, Transit, Custody, Awaited, AtMostOnce, AnswerMatches
<1> QED
  BY <1>1, <1>2, <1>3, <1>4, <1>5, <1>6, <1>7, <1>8, <1>9 DEF Next

\* The inductive invariant holds in every reachable state.
THEOREM Invariance == Spec => []IInv
  BY InitIInv, NextIInv, PTL DEF Spec

\* The types are right in every reachable state.
THEOREM TypeCorrect == Spec => []TypeOK
<1>1. IInv => TypeOK
  BY DEF IInv
<1> QED
  BY Invariance, <1>1, PTL

\* A command is passed on at most once, and never when its send failed.
THEOREM BridgeAtMostOnce == Spec => []AtMostOnce
<1>1. IInv => AtMostOnce
  BY DEF IInv
<1> QED
  BY Invariance, <1>1, PTL

\* ask returns the answer to its own request.
THEOREM BridgeAnswerMatches == Spec => []AnswerMatches
<1>1. IInv => AnswerMatches
  BY DEF IInv
<1> QED
  BY Invariance, <1>1, PTL

\* The request of the blocked caller is never lost without a stuck server.
THEOREM BridgeCustody == Spec => []Custody
<1>1. IInv => Custody
  BY DEF IInv
<1> QED
  BY Invariance, <1>1, PTL

\* A stuck server never forwards or replies again.
THEOREM BridgeStuckForEver == Spec => StuckForEver
<1>1. ASSUME [Next]_vars, Stuck
      PROVE  Stuck' /\ served' = served /\ replies' \subseteq replies
  <2>1. ASSUME NEW c \in Call,
               \/ ClientSend(c) \/ ClientSendError(c)
               \/ ClientRecvError(c) \/ ClientRecv(c)
        PROVE  /\ UNCHANGED serverVars
               /\ replies' \subseteq replies
    BY <2>1 DEF ClientSend, ClientSendError, ClientRecvError, ClientRecv,
                ReconnectAndRaise, Reconnect
  <2>2. CASE ServerExit
    BY <1>1, <2>2 DEF Stuck, ServerExit
  <2>3. CASE \/ ServerRecv \/ RecvTimeoutRace \/ ServerForward
             \/ AdaptorAnswers \/ AskTimesOut \/ ServerFails
    BY <1>1, <2>3 DEF Stuck, ServerRecv, RecvTimeoutRace, ServerForward,
                      AdaptorAnswers, AskTimesOut, ServerFails
  <2> QED
    BY <1>1, <2>1, <2>2, <2>3 DEF Next, vars, serverVars, Stuck
<1> QED
  BY <1>1, PTL DEF Spec, StuckForEver

-----------------------------------------------------------------------------
(* The bridge implements Rpc.                                              *)

LEMMA InitImplements == Init => Abstract!Init
  BY DEF Init, Abstract!Init

\* Every step of the bridge is a step of Rpc for the same call, or none.
LEMMA StepImplements == IInv /\ [Next]_vars => [Abstract!Next]_Abstract!vars
<1> SUFFICES ASSUME IInv, [Next]_vars PROVE [Abstract!Next]_Abstract!vars
  OBVIOUS
<1> USE DEF Abstract!Next, Abstract!vars
<1>1. ASSUME NEW c \in Call, ClientSend(c) PROVE Abstract!Submit(c)
  BY <1>1, ConstantsAssumption DEF ClientSend, Abstract!Submit, IInv, serverVars
<1>2. ASSUME NEW c \in Call, ClientSendError(c) PROVE Abstract!Refuse(c)
  BY <1>2, ConstantsAssumption
     DEF ClientSendError, ReconnectAndRaise, Abstract!Refuse, serverVars
<1>3. ASSUME NEW c \in Call, ClientRecvError(c) PROVE Abstract!Lose(c)
  BY <1>3 DEF ClientRecvError, ReconnectAndRaise, Abstract!Lose, serverVars, IInv
<1>4. ASSUME NEW c \in Call, ClientRecv(c) PROVE Abstract!Return(c)
  <2>1. PICK r \in replies : r.conn = conn /\ answer' = [answer EXCEPT ![c] = r.call]
    BY <1>4 DEF ClientRecv
  <2>2. r.call = c /\ served[c] = 1 /\ pc[c] = "pending"
    BY <1>4, <2>1 DEF ClientRecv, IInv, Transit
  <2> QED
    BY <1>4, <2>1, <2>2 DEF ClientRecv, Abstract!Return, serverVars
<1>5. CASE ServerForward
  <2>1. owed \in Transit /\ owed.call \in Call
    BY <1>5, OwedInTransit DEF ServerForward
  <2>2. served[owed.call] = 0 /\ pc[owed.call] \in {"pending", "lost"}
    BY <1>5, <2>1 DEF ServerForward, IInv
  <2>3. Abstract!Run(owed.call)
    BY <1>5, <2>1, <2>2 DEF ServerForward, Abstract!Run, clientVars
  <2> QED
    BY <2>1, <2>3
<1>6. CASE \/ ServerRecv \/ RecvTimeoutRace \/ AdaptorAnswers
           \/ AskTimesOut \/ ServerFails \/ ServerExit
  BY <1>6 DEF ServerRecv, RecvTimeoutRace, AdaptorAnswers, AskTimesOut,
              ServerFails, ServerExit, clientVars
<1>7. CASE UNCHANGED vars
  BY <1>7 DEF vars
<1> QED
  BY <1>1, <1>2, <1>3, <1>4, <1>5, <1>6, <1>7 DEF Next

\* The web process may rely on the bridge as on an at-most-once remote call.
THEOREM BridgeImplementsRpc == Spec => ImplementsRpc
  BY Invariance, InitImplements, StepImplements, PTL DEF Spec, ImplementsRpc, Abstract!Spec
=============================================================================
