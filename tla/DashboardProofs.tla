-------------------------- MODULE DashboardProofs --------------------------
(***************************************************************************)
(* Proofs about Dashboard, for any number of starts and any faults: the    *)
(* inductive invariant IInv and the invariants it contains.                *)
(***************************************************************************)
EXTENDS Dashboard, TLAPS

USE DashboardAssumption DEF Instance, Alive

\* The initial states satisfy the inductive invariant.
LEMMA InitIInv == Init => IInv
  BY DEF Init, IInv, TypeOK, ActorState, WebState, ServerState, NoOrphan,
         BridgeOutlivesProcess, ExitComplete

\* start keeps the inductive invariant, however far it gets.
LEMMA StartIInv ==
    ASSUME IInv, Start \/ OpenBridge \/ Launch \/ StartFails PROVE IInv'
<1> USE DEF IInv, TypeOK, ActorState, WebState, ServerState
<1>1. CASE Start
  BY <1>1 DEF Start, NoOrphan, BridgeOutlivesProcess, ExitComplete
<1>2. CASE OpenBridge
  BY <1>2 DEF OpenBridge, NoOrphan, BridgeOutlivesProcess, ExitComplete
<1>3. CASE Launch
  BY <1>3 DEF Launch, NoOrphan, BridgeOutlivesProcess, ExitComplete
<1>4. CASE StartFails
  BY <1>4 DEF StartFails, NoOrphan, BridgeOutlivesProcess, ExitComplete
<1> QED
  BY <1>1, <1>2, <1>3, <1>4

\* stop and exit keep the inductive invariant.
LEMMA EndIInv ==
    ASSUME IInv,
           \/ Stop \/ ExitWithoutProcess \/ ExitAfterDeath
           \/ ExitTerminates \/ WaitReturns \/ WaitExpires
    PROVE  IInv'
<1> USE DEF IInv, TypeOK, ActorState, WebState, ServerState
<1>1. CASE Stop
  BY <1>1 DEF Stop, NoOrphan, BridgeOutlivesProcess, ExitComplete
<1>2. CASE ExitWithoutProcess
  BY <1>2 DEF ExitWithoutProcess, NoOrphan, BridgeOutlivesProcess, ExitComplete
<1>3. CASE ExitAfterDeath
  BY <1>3 DEF ExitAfterDeath, CloseBridge, NoOrphan, BridgeOutlivesProcess, ExitComplete
<1>4. CASE ExitTerminates
  BY <1>4 DEF ExitTerminates, NoOrphan, BridgeOutlivesProcess, ExitComplete
<1>5. CASE WaitReturns
  BY <1>5 DEF WaitReturns, CloseBridge, NoOrphan, BridgeOutlivesProcess, ExitComplete
<1>6. CASE WaitExpires
  BY <1>6 DEF WaitExpires, CloseBridge, NoOrphan, BridgeOutlivesProcess, ExitComplete
<1> QED
  BY <1>1, <1>2, <1>3, <1>4, <1>5, <1>6

\* A step of a web process brings none to life and forgets none.
LEMMA WebIInv ==
    ASSUME IInv, NEW n \in Instance, Web(n) PROVE IInv'
<1>1. PICK to \in WebState : /\ web[n] # "absent" /\ web[n] # "dead" /\ to # "absent"
                             /\ web' = [web EXCEPT ![n] = to]
                             /\ UNCHANGED <<actorVars, term, server>>
  BY DEF Web, Boot, AskParams, BindPort, Call, Terminate, Hold, Release, End, Crash,
         WebStep, WebState
<1> QED
  BY <1>1 DEF IInv, TypeOK, actorVars, NoOrphan, BridgeOutlivesProcess, ExitComplete

\* A step of a bridge keeps the inductive invariant.
LEMMA BridgeIInv ==
    ASSUME IInv, NEW n \in Instance, Bridge(n) PROVE IInv'
<1>1. PICK to \in {"free", "busy", "stuck"} :
          /\ server[n] \in {"free", "busy"}
          /\ server' = [server EXCEPT ![n] = to]
          /\ UNCHANGED <<actorVars, term>>
  BY DEF Bridge, TakeCall, AnswerCall, LoseCall
<1>2. /\ web' \in [Instance -> WebState]
      /\ \A m \in Instance : /\ web'[m] = "absent" <=> web[m] = "absent"
                             /\ web'[m] = "dead" <=> web[m] = "dead"
  BY DEF Bridge, TakeCall, AnswerCall, LoseCall, IInv, TypeOK, WebState
<1> QED
  BY <1>1, <1>2
     DEF IInv, TypeOK, ServerState, actorVars, NoOrphan, BridgeOutlivesProcess, ExitComplete

\* Every step keeps the inductive invariant.
LEMMA NextIInv == IInv /\ [Next]_vars => IInv'
<1> SUFFICES ASSUME IInv, [Next]_vars PROVE IInv'
  OBVIOUS
<1>1. CASE Actor
  BY <1>1, StartIInv, EndIInv DEF Actor
<1>2. ASSUME NEW n \in Instance, Web(n) \/ Bridge(n) PROVE IInv'
  BY <1>2, WebIInv, BridgeIInv
<1>3. CASE UNCHANGED vars
  BY <1>3 DEF vars, IInv, TypeOK, NoOrphan, BridgeOutlivesProcess, ExitComplete
<1> QED
  BY <1>1, <1>2, <1>3 DEF Next

\* The inductive invariant, and with it the types, holds in every reachable state.
THEOREM Invariance == Spec => []IInv
  BY InitIInv, NextIInv, PTL DEF Spec

\* An actor that is used in order leaves no process behind that was not told to end.
THEOREM DashboardNoOrphan == Spec => []NoOrphan
<1>1. IInv => NoOrphan
  BY DEF IInv
<1> QED
  BY Invariance, <1>1, PTL

\* No process ever waits on a closed bridge, whatever the order of commands.
THEOREM DashboardBridgeOutlivesProcess == Spec => []BridgeOutlivesProcess
<1>1. IInv => BridgeOutlivesProcess
  BY DEF IInv
<1> QED
  BY Invariance, <1>1, PTL

\* exit() leaves the process dead and the bridge closed.
THEOREM DashboardExitComplete == Spec => []ExitComplete
<1>1. IInv => ExitComplete
  BY DEF IInv
<1> QED
  BY Invariance, <1>1, PTL
=============================================================================
