---------------------------- MODULE MCZmqBridge ----------------------------
(* Instances of ZmqBridge for TLC. *)
EXTENDS ZmqBridge
AllFaults == FaultKinds
ClientFaults == {"sendError", "recvError"}
=============================================================================
