-------------------------------- MODULE Rpc --------------------------------
(***************************************************************************)
(* What the dashboard's web process may rely on when one of its handlers   *)
(* calls the actor system through zmq_client.client.ask: an at-most-once   *)
(* remote call, one at a time.                                             *)
(*                                                                         *)
(*   - calls are submitted one after the other (the caller blocks);        *)
(*   - a submitted call is run at most once;                               *)
(*   - a call returns an answer only after it was run, and the answer is   *)
(*     its own;                                                            *)
(*   - a call may fail: refused calls never run, lost calls may still run, *)
(*     once, at any later time.                                            *)
(***************************************************************************)
EXTENDS Naturals

CONSTANTS Call,    \* invocations of the remote call
          NoCall   \* not a call

VARIABLES status,  \* status[c]: how far call c got, as its caller sees it
          runs,    \* runs[c]: how often the command of c was run
          answer   \* answer[c]: the call whose answer c returned

vars == <<status, runs, answer>>

Init == /\ status = [c \in Call |-> "new"]
        /\ runs = [c \in Call |-> 0]
        /\ answer = [c \in Call |-> NoCall]

Submit(c) == /\ status[c] = "new"
             /\ \A d \in Call : status[d] # "pending"
             /\ status' = [status EXCEPT ![c] = "pending"]
             /\ UNCHANGED <<runs, answer>>

Run(c) == /\ status[c] \in {"pending", "lost"}
          /\ runs[c] = 0
          /\ runs' = [runs EXCEPT ![c] = 1]
          /\ UNCHANGED <<status, answer>>

Return(c) == /\ status[c] = "pending"
             /\ runs[c] = 1
             /\ status' = [status EXCEPT ![c] = "answered"]
             /\ answer' = [answer EXCEPT ![c] = c]
             /\ UNCHANGED runs

Refuse(c) == /\ status[c] = "new"
             /\ status' = [status EXCEPT ![c] = "refused"]
             /\ UNCHANGED <<runs, answer>>

Lose(c) == /\ status[c] = "pending"
           /\ status' = [status EXCEPT ![c] = "lost"]
           /\ UNCHANGED <<runs, answer>>

Next == \E c \in Call : Submit(c) \/ Run(c) \/ Return(c) \/ Refuse(c) \/ Lose(c)

Spec == Init /\ [][Next]_vars
=============================================================================
