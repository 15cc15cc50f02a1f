-------------------------- MODULE MCForkedProcess --------------------------
(* Every kind of job, and a process, in one instance.                      *)
EXTENDS ForkedProcess

Allowed == {j \in JobKinds : ByJobBase(j) /\ Placed(j)}
=============================================================================
