---------------------------- MODULE MCWorkQueue ----------------------------
(* Small instances of WorkQueue for TLC.                                   *)
EXTENDS WorkQueue

CONSTANTS j1, j2, j3, w1, w2, w3

AllFaults   == FaultKinds
NoReplyLoss == FaultKinds \ {"reply"}
\* The faults a worker process survives or leaves its loop in order.
Survivable  == {"redis", "horse", "hang", "expiry", "stop"}
NoFaults    == {}
=============================================================================
