--------------------------- MODULE WebFaceProofs ---------------------------
(***************************************************************************)
(* Proofs about WebFace, for any number of connections and starts.         *)
(***************************************************************************)
EXTENDS WebFace, SequenceFacts

USE WebFaceAssumption

\* In a list without doubles, list.remove takes out what it removes and no more.
LEMMA RemoveAtTakesOne ==
    ASSUME NEW S, NEW seq \in Seq(S), IsInjective(seq), NEW i \in 1 .. Len(seq)
    PROVE  /\ IsInjective(RemoveAt(seq, i))
           /\ \A x : Contains(RemoveAt(seq, i), x) <=> Contains(seq, x) /\ x # seq[i]
<1> DEFINE new == RemoveAt(seq, i)
<1>1. /\ new \in Seq(S) /\ Len(new) = Len(seq) - 1
      /\ \A j \in 1 .. Len(seq) - 1 : new[j] = IF j < i THEN seq[j] ELSE seq[j + 1]
  BY RemoveAtFacts
<1>2. Len(seq) \in Nat /\ DOMAIN seq = 1 .. Len(seq) /\ DOMAIN new = 1 .. Len(seq) - 1
  BY <1>1, LenProperties
<1> HIDE DEF new
<1>3. \A a, b \in 1 .. Len(seq) : seq[a] = seq[b] => a = b
  BY <1>2 DEF IsInjective
<1>4. IsInjective(new)
  <2> SUFFICES ASSUME NEW a \in 1 .. Len(seq) - 1, NEW b \in 1 .. Len(seq) - 1, new[a] = new[b]
               PROVE  a = b
    BY <1>2 DEF IsInjective
  <2> QED
    BY <1>1, <1>2, <1>3
<1>5. ASSUME NEW x PROVE Contains(new, x) <=> Contains(seq, x) /\ x # seq[i]
  <2>1. ASSUME NEW j \in 1 .. Len(seq) - 1, new[j] = x
        PROVE  x # seq[i] /\ \E k \in 1 .. Len(seq) : seq[k] = x
    BY <1>1, <1>2, <1>3, <2>1
  <2>2. ASSUME NEW k \in 1 .. Len(seq), seq[k] = x, x # seq[i]
        PROVE  \E j \in 1 .. Len(seq) - 1 : new[j] = x
    <3>1. CASE k < i
      BY <1>1, <1>2, <2>2, <3>1
    <3>2. CASE k > i
      <4>1. k - 1 \in 1 .. Len(seq) - 1 /\ ~(k - 1 < i) /\ (k - 1) + 1 = k
        BY <1>2, <3>2
      <4> QED
        BY <1>1, <2>2, <4>1
    <3> QED
      BY <1>2, <2>2, <3>1, <3>2
  <2> QED
    BY <1>1, <2>1, <2>2 DEF Contains
<1> QED
  BY <1>4, <1>5 DEF new

\* An element appended to a list without doubles that does not hold it.
LEMMA AppendAddsOne ==
    ASSUME NEW S, NEW seq \in Seq(S), NEW e \in S, IsInjective(seq), ~Contains(seq, e)
    PROVE  /\ Append(seq, e) \in Seq(S) /\ IsInjective(Append(seq, e))
           /\ \A x : Contains(Append(seq, e), x) <=> Contains(seq, x) \/ x = e
<1> DEFINE new == Append(seq, e)
<1>1. Len(seq) \in Nat /\ DOMAIN seq = 1 .. Len(seq)
  BY LenProperties
<1>2. /\ new \in Seq(S) /\ Len(new) = Len(seq) + 1
      /\ \A j \in 1 .. Len(seq) : new[j] = seq[j]
      /\ new[Len(seq) + 1] = e
  BY <1>1
<1>3. DOMAIN new = 1 .. Len(seq) + 1
  BY <1>2, LenProperties
<1> HIDE DEF new
<1>4. \A a, b \in 1 .. Len(seq) : seq[a] = seq[b] => a = b
  BY <1>1 DEF IsInjective
<1>5. \A a \in 1 .. Len(seq) : seq[a] # e
  BY DEF Contains
<1>6. IsInjective(new)
  <2> SUFFICES ASSUME NEW a \in 1 .. Len(seq) + 1, NEW b \in 1 .. Len(seq) + 1, new[a] = new[b]
               PROVE  a = b
    BY <1>3 DEF IsInjective
  <2>1. a \in 1 .. Len(seq) \/ a = Len(seq) + 1
    BY <1>1
  <2>2. b \in 1 .. Len(seq) \/ b = Len(seq) + 1
    BY <1>1
  <2> QED
    BY <1>2, <1>4, <1>5, <2>1, <2>2
<1>7. ASSUME NEW x PROVE Contains(new, x) <=> Contains(seq, x) \/ x = e
  <2>1. \A j \in 1 .. Len(seq) + 1 : j \in 1 .. Len(seq) \/ j = Len(seq) + 1
    BY <1>1
  <2>2. Len(seq) + 1 \in 1 .. Len(seq) + 1 /\ \A j \in 1 .. Len(seq) : j \in 1 .. Len(seq) + 1
    BY <1>1
  <2> QED
    BY <1>2, <2>1, <2>2 DEF Contains
<1> QED
  BY <1>2, <1>6, <1>7 DEF new
-----------------------------------------------------------------------------
\* The initial states satisfy the invariant.
LEMMA FaceStarts == Init => IInv
<1> SUFFICES ASSUME Init PROVE IInv
  OBVIOUS
<1>1. TypeOK
  BY EmptySeq DEF Init, TypeOK, State, Lost
<1>2. ListedOnce
  BY EmptySeq DEF Init, ListedOnce, IsInjective, Contains, Live, Lost
<1>3. ServerInv
  BY DEF Init, ServerInv, Live
<1> QED
  BY <1>1, <1>2, <1>3 DEF IInv

\* A start keeps the invariant: handlers at work stay with servers that listen.
LEMMA StartKeeps == ASSUME IInv, NEW p \in Port, Start(p) PROVE IInv'
<1> USE DEF Start, IInv, exitVars
<1>1. TypeOK'
  BY DEF TypeOK
<1>2. ListedOnce'
  BY DEF ListedOnce
<1>3. ServerInv'
  <2>1. servers \subseteq replaced \cup {runner}
    BY DEF ServerInv
  <2>2. servers' \subseteq replaced' \cup {runner'}
    BY <2>1 DEF TypeOK
  <2> QED
    BY <2>2 DEF ServerInv
<1> QED
  BY <1>1, <1>2, <1>3

\* A new connection is listed, and was not before.
LEMMA ConnectKeeps == ASSUME IInv, NEW s \in Socket, NEW p \in Port, Connect(s, p) PROVE IInv'
<1> USE DEF Connect, IInv, exitVars, serverVars
<1>1. TypeOK'
  BY DEF TypeOK, State, Live, Lost
<1>2. ListedOnce'
  <2> SUFFICES ASSUME exit \in {"running", "closing", "failed"}
               PROVE  /\ IsInjective(sockets')
                      /\ \A x \in Socket : Contains(sockets', x)
                                           <=> ws'[x] \in Live \cup Lost
    BY DEF ListedOnce
  <2>1. sockets \in Seq(Socket) /\ IsInjective(sockets) /\ ~Contains(sockets, s)
    BY DEF TypeOK, ListedOnce, Live, Lost
  <2>2. /\ IsInjective(sockets')
        /\ \A x : Contains(sockets', x) <=> Contains(sockets, x) \/ x = s
    BY <2>1, AppendAddsOne
  <2>3. \A x \in Socket : ws'[x] = IF x = s THEN "unprepared" ELSE ws[x]
    BY DEF TypeOK
  <2> QED
    BY <2>2, <2>3 DEF ListedOnce, Live, Lost
<1>3. ServerInv'
  BY DEF ServerInv, TypeOK
<1> QED
  BY <1>1, <1>2, <1>3

\* A handler that goes on and stays listed keeps the invariant.
LEMMA HandlerKeeps ==
    ASSUME IInv, NEW s \in Socket,
           Prepare(s) \/ PrepareFails(s) \/ Receive(s) \/ Answer(s) \/ PongFails(s)
    PROVE  IInv'
<1> DEFINE Listed == Live \cup Lost
<1>1. PICK from \in Live, to \in Listed : To(s, from, to)
  BY DEF Prepare, PrepareFails, Receive, Answer, PongFails, Live, Lost
<1>2. /\ ws \in [Socket -> State] /\ ws[s] \in Live
      /\ ws' = [ws EXCEPT ![s] = to]
      /\ UNCHANGED <<home, closed, sockets, servers, runner, replaced, exit, pos, closing>>
  BY <1>1 DEF To, IInv, TypeOK, serverVars, exitVars
<1>3. TypeOK'
  BY <1>1, <1>2 DEF IInv, TypeOK, State, Lost
<1>4. ListedOnce'
  BY <1>1, <1>2 DEF IInv, ListedOnce
<1>5. ServerInv'
  BY <1>1, <1>2 DEF IInv, ServerInv
<1> QED
  BY <1>3, <1>4, <1>5 DEF IInv

\* Closing a connection changes no list and ends no handler.
LEMMA CloseKeeps ==
    ASSUME IInv, CloseOpen \/ \E s \in Socket : PeerCloses(s)
    PROVE  IInv'
<1>1. CASE CloseOpen
  <2> USE <1>1 DEF CloseOpen, AtElement, IInv, serverVars
  <2>1. sockets[pos] \in Socket
    BY ElementOfSeq, LenProperties DEF TypeOK
  <2>2. TypeOK'
    BY <2>1 DEF TypeOK
  <2>3. ListedOnce' /\ ServerInv'
    BY DEF ListedOnce, ServerInv
  <2> QED
    BY <2>2, <2>3
<1>2. ASSUME NEW s \in Socket, PeerCloses(s) PROVE IInv'
  <2> USE <1>2 DEF PeerCloses, IInv, serverVars, exitVars
  <2>1. /\ ws \in [Socket -> State] /\ ws[s] \in Live
        /\ ws' = [ws EXCEPT ![s] = "leaving"]
    BY DEF TypeOK, Live
  <2>2. TypeOK'
    BY <2>1 DEF TypeOK, State, Live
  <2>3. \A x \in Socket : ws'[x] \in Live <=> ws[x] \in Live
    BY <2>1 DEF Live
  <2>4. \A x \in Socket : ws'[x] \in Lost <=> ws[x] \in Lost
    BY <2>1 DEF Live, Lost
  <2>5. ListedOnce'
    BY <2>3, <2>4 DEF ListedOnce
  <2>6. ServerInv'
    BY <2>3 DEF ServerInv
  <2> QED
    BY <2>2, <2>5, <2>6
<1> QED
  BY <1>1, <1>2

\* A handler that ends takes its own entry with it, and finds it.
LEMMA LeaveKeeps == ASSUME IInv, NEW s \in Socket, Leave(s) PROVE IInv'
<1>1. /\ sockets \in Seq(Socket) /\ ws \in [Socket -> State]
      /\ ws[s] \in {"open", "leaving"}
      /\ UNCHANGED <<home, closed, servers, runner, replaced, exit, pos, closing>>
  BY DEF IInv, TypeOK, Leave, serverVars, exitVars
<1>2. CASE Unlist(s) /\ ws' = [ws EXCEPT ![s] = "left"]
  <2>1. PICK i \in 1 .. Len(sockets) : sockets[i] = s /\ sockets' = RemoveAt(sockets, i)
    BY <1>2 DEF Unlist
  <2>2. sockets' \in Seq(Socket)
    BY <1>1, <2>1, RemoveAtFacts
  <2>3. TypeOK'
    BY <1>1, <1>2, <2>2 DEF IInv, TypeOK, State, Lost
  <2>4. ListedOnce'
    <3> SUFFICES ASSUME exit \in {"running", "closing", "failed"}
                 PROVE  /\ IsInjective(sockets')
                        /\ \A x \in Socket : Contains(sockets', x)
                                             <=> ws'[x] \in Live \cup Lost
      BY <1>1 DEF ListedOnce
    <3>1. IsInjective(sockets)
      BY DEF IInv, ListedOnce
    <3>2. /\ IsInjective(sockets')
          /\ \A x : Contains(sockets', x) <=> Contains(sockets, x) /\ x # s
      BY <1>1, <2>1, <3>1, RemoveAtTakesOne
    <3> QED
      BY <1>1, <1>2, <3>2 DEF IInv, ListedOnce, Live, Lost
  <2>5. ServerInv'
    BY <1>1, <1>2 DEF IInv, ServerInv, Live
  <2> QED
    BY <2>3, <2>4, <2>5 DEF IInv
<1>3. CASE ~Contains(sockets, s) /\ ws' = [ws EXCEPT ![s] = "failed"] /\ UNCHANGED sockets
  <2>1. exit \notin {"running", "closing", "failed"}
    BY <1>1, <1>3 DEF IInv, ListedOnce, Live, Lost
  <2>2. TypeOK'
    BY <1>1, <1>3 DEF IInv, TypeOK, State, Lost
  <2>3. ListedOnce'
    BY <1>1, <2>1 DEF ListedOnce
  <2>4. ServerInv'
    BY <1>1, <1>3 DEF IInv, ServerInv, Live
  <2> QED
    BY <2>2, <2>3, <2>4 DEF IInv
<1> QED
  BY <1>2, <1>3 DEF Leave

\* The loop of exit() keeps the invariant, and is not bound by it once it is over.
LEMMA ExitLoopKeeps ==
    ASSUME IInv, ExitBegins \/ SkipClosed \/ CloseReturns \/ CloseUnprepared \/ ClearSockets
    PROVE  IInv'
<1>1. /\ UNCHANGED <<ws, home, closed, servers, runner, replaced>>
      /\ exit \notin {"done", "failed"} => exit' # "done"
  BY DEF ExitBegins, SkipClosed, CloseReturns, CloseUnprepared, ClearSockets, serverVars
<1>2. exit' # exit => exit' \in {"closing", "failed", "cleanup"}
  BY DEF ExitBegins, SkipClosed, CloseReturns, CloseUnprepared, ClearSockets
<1>3. pos' \in Nat \ {0} /\ closing' \in Socket \cup {None} /\ sockets' \in Seq(Socket)
  <2>1. pos \in Nat \ {0} /\ closing \in Socket \cup {None} /\ sockets \in Seq(Socket)
    BY DEF IInv, TypeOK
  <2>2. pos + 1 \in Nat \ {0} /\ <<>> \in Seq(Socket)
    BY <2>1
  <2> QED
    BY <2>1, <2>2 DEF ExitBegins, SkipClosed, CloseReturns, CloseUnprepared, ClearSockets
<1>4. TypeOK'
  BY <1>1, <1>2, <1>3 DEF IInv, TypeOK
<1>5. \/ /\ sockets' = sockets
         /\ exit' \in {"running", "closing", "failed"}
               => exit \in {"running", "closing", "failed"}
      \/ exit' = "cleanup"
  BY DEF ExitBegins, SkipClosed, CloseReturns, CloseUnprepared, ClearSockets, AtElement
<1>6. ListedOnce'
  BY <1>1, <1>5 DEF IInv, ListedOnce
<1>7. ServerInv'
  BY <1>1, <1>2 DEF IInv, ServerInv
<1> QED
  BY <1>4, <1>6, <1>7 DEF IInv

\* The cleanup of the runner drops the handlers of its server with the server.
LEMMA CleanupKeeps == ASSUME IInv, Cleanup PROVE IInv'
<1> USE DEF Cleanup, IInv
<1>1. TypeOK'
  BY DEF TypeOK, State, Lost
<1>2. ListedOnce'
  BY DEF ListedOnce
<1>3. ServerInv'
  <2>1. \A s \in Socket : ws'[s] \in Live => ws[s] \in Live /\ home[s] # runner
    BY DEF Live
  <2> QED
    BY <2>1 DEF ServerInv
<1> QED
  BY <1>1, <1>2, <1>3

\* Every behaviour keeps the inductive invariant.
THEOREM Invariance == Spec => []IInv
<1>1. Init => IInv
  BY FaceStarts
<1>2. IInv /\ [Next]_vars => IInv'
  <2> SUFFICES ASSUME IInv, [Next]_vars PROVE IInv'
    OBVIOUS
  <2>1. CASE UNCHANGED vars
    BY <2>1 DEF vars, serverVars, exitVars, IInv, TypeOK, ListedOnce, ServerInv
  <2>2. CASE Next
    BY <2>2, StartKeeps, ConnectKeeps, HandlerKeeps, CloseKeeps, LeaveKeeps, ExitLoopKeeps, CleanupKeeps
       DEF Next, Handler, ExitStep
  <2> QED
    BY <2>1, <2>2
<1> QED
  BY <1>1, <1>2, PTL DEF Spec

\* Every variable stays in its type.
THEOREM TypesKept == Spec => []TypeOK
<1>1. IInv => TypeOK
  BY DEF IInv
<1> QED
  BY <1>1, Invariance, PTL

\* Until exit() clears it, _sockets holds each connection at work once, so that
\* list.remove finds the entry of every handler that ends.
THEOREM SocketsListedOnce == Spec => []ListedOnce
<1>1. IInv => ListedOnce
  BY DEF IInv
<1> QED
  BY <1>1, Invariance, PTL

\* A completed exit() leaves no server and no handler, but of replaced runners.
THEOREM ExitsCloseAll == Spec => []ExitClosesAll
<1>1. IInv => ExitClosesAll
  BY DEF IInv, ServerInv, ExitClosesAll, TypeOK
<1> QED
  BY <1>1, Invariance, PTL
=============================================================================
