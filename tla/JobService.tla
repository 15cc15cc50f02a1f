----------------------------- MODULE JobService -----------------------------
(***************************************************************************)
(* What the job queue promises its clients, without queues, workers or      *)
(* Redis: a submitted job is invoked at most once, only between its start   *)
(* and its outcome; it is finished only if it was invoked; an outcome is    *)
(* final.  A job may fail without being invoked, and its record may expire  *)
(* while it waits, which does not stop a worker that already has it.        *)
(***************************************************************************)
EXTENDS Naturals

CONSTANT Jobs

VARIABLES status,  \* the status a client can ask for
          invoked  \* the jobs whose function has been called

vars == <<status, invoked>>

Waiting == {"queued", "expired"}
Statuses == {"none", "started", "finished", "failed"} \cup Waiting

\* A status is one that a client can be shown, and only jobs are invoked.
TypeOK == status \in [Jobs -> Statuses] /\ invoked \subseteq Jobs

Init == status = [j \in Jobs |-> "none"] /\ invoked = {}

\* The job passes from a status in From to the status to.
Pass(j, From, to) ==
  /\ status[j] \in From
  /\ status' = [status EXCEPT ![j] = to]
  /\ UNCHANGED invoked

Submit(j) == Pass(j, {"none"}, "queued")
Expire(j) == Pass(j, {"queued"}, "expired")
Start(j)  == Pass(j, Waiting, "started")

Invoke(j) ==
  /\ status[j] = "started"
  /\ j \notin invoked
  /\ invoked' = invoked \cup {j}
  /\ UNCHANGED status

Finish(j) == j \in invoked /\ Pass(j, {"started"}, "finished")
Fail(j)   == Pass(j, Waiting \cup {"started"}, "failed")

Next == \E j \in Jobs : Submit(j) \/ Expire(j) \/ Start(j) \/ Invoke(j) \/ Finish(j) \/ Fail(j)

Spec == Init /\ [][Next]_vars
=============================================================================
