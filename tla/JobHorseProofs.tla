--------------------------- MODULE JobHorseProofs ---------------------------
(***************************************************************************)
(* That a job of JobRun, seen from outside, is a work horse of WorkQueue,   *)
(* for every set of jobs.  From outside one sees two things, the command    *)
(* of aperform_job the horse is at and the status in Redis: each edge of    *)
(* HorseStep is first shown to be one in terms of those two, and then each  *)
(* action of JobRun to take such an edge or to leave both alone.            *)
(***************************************************************************)
EXTENDS JobRunProofs

\* The command at a step, after a step as well as before it.
CommandAt(c, s, r) ==
  CASE s \in {"new", "stored"}                       -> "prepare"
    [] s \in {"end", "error"}                        -> "exit_0"
    [] s = "leave" /\ c = "failure"                  -> "record_failure"
    [] s = "leave" /\ c # "failure" /\ r             -> "on_failure"
    [] s = "leave" /\ c = "function" /\ ~r           -> "on_success"
    [] s = "leave" /\ c = "success" /\ ~r            -> "record_success"
    [] s \in {"startup", "body", "shutdown"} /\ c = "function" -> "perform"
    [] s \in {"startup", "body", "shutdown"} /\ c = "success"  -> "on_success"
    [] s \in {"startup", "body", "shutdown"} /\ c = "failure"  -> "on_failure"

LEMMA CommandAtIs ==
  ASSUME NEW c \in Calls, NEW s \in Steps, NEW r \in BOOLEAN
  PROVE  /\ s \in {"new", "stored"} => CommandAt(c, s, r) = "prepare"
         /\ s \in {"end", "error"} => CommandAt(c, s, r) = "exit_0"
         /\ s = "leave" /\ c = "failure" => CommandAt(c, s, r) = "record_failure"
         /\ s = "leave" /\ c # "failure" /\ r => CommandAt(c, s, r) = "on_failure"
         /\ s = "leave" /\ c = "function" /\ ~r => CommandAt(c, s, r) = "on_success"
         /\ s = "leave" /\ c = "success" /\ ~r => CommandAt(c, s, r) = "record_success"
         /\ s \in {"startup", "body", "shutdown"} =>
              CommandAt(c, s, r) = CASE c = "function" -> "perform"
                                     [] c = "success"  -> "on_success"
                                     [] c = "failure"  -> "on_failure"
  BY DEF CommandAt, Calls, Hooks, Steps

\* The status in Redis when the horse is at a command.
KnownAt(k, o) == IF o # "none" THEN o ELSE IF k = "prepare" THEN "queued" ELSE "started"

-----------------------------------------------------------------------------
(* The edges of HorseStep.                                                 *)

LEMMA PrepareEdge ==
  ASSUME HorseAt = "prepare", HorseAt' = "perform", Known = "queued", Known' = "started"
  PROVE  Horse!Prepare("w")
  BY DEF Horse!Prepare, Horse!GoHorse, Horse!PrepareJobExecution

LEMMA PerformEdge ==
  ASSUME HorseAt = "perform", HorseAt' \in {"on_success", "on_failure"},
         Known = "started", Known' = "started"
  PROVE  Horse!Perform("w")
<1>1. \E next \in {"on_success", "on_failure"} : Horse!GoHorse("w", "perform", next)
  BY DEF Horse!GoHorse
<1>2. HorseAt \in {"prepare", "perform"} /\ HorseAt' \notin {"prepare", "perform"}
  OBVIOUS
<1> QED
  BY <1>1, <1>2 DEF Horse!Perform, Horse!redis

LEMMA OnSuccessEdge ==
  ASSUME HorseAt = "on_success", HorseAt' \in {"record_success", "on_failure"},
         Known = "started", Known' = "started"
  PROVE  Horse!OnSuccess("w")
  BY DEF Horse!OnSuccess, Horse!GoHorse, Horse!JobHeartbeat

LEMMA OnFailureEdge ==
  ASSUME HorseAt = "on_failure", HorseAt' = "record_failure",
         Known = "started", Known' = "started"
  PROVE  Horse!OnFailure("w")
  BY DEF Horse!OnFailure, Horse!GoHorse, Horse!JobHeartbeat

LEMMA RecordEdges ==
  ASSUME HorseAt' = "exit_0", Known = "started"
  PROVE  /\ HorseAt = "record_success" /\ Known' = "finished" => Horse!RecordSuccess("w")
         /\ HorseAt = "record_failure" /\ Known' = "failed" => Horse!RecordFailure("w")
  BY DEF Horse!RecordSuccess, Horse!RecordFailure, Horse!GoHorse, Horse!HandleJobSuccess,
         Horse!HandleJobFailure, Horse!Exited

LEMMA HorseStutter ==
  ASSUME HorseAt' = HorseAt, Known' = Known PROVE UNCHANGED Horse!vars
  BY DEF Horse!vars

\* No outcome is recorded before the last step of a worker's job.
LEMMA OutcomeOpen ==
  ASSUME Inv, job.queue = "worker", step \notin {"end", "error"}
  PROVE  outcome = "none"
  BY DEF Inv, OutcomeInv

-----------------------------------------------------------------------------
(* The steps of JobRun.                                                    *)

HorseMoves == Horse!HorseStep("w") \/ UNCHANGED Horse!vars

\* Inside a call the horse stays at its command until the call is over; the command that
\* follows depends on whether it raised.
LEMMA CallMoves ==
  ASSUME TypeInv, TypeInv', step \in {"startup", "body", "shutdown"}, call' = call,
         step' \in {"body", "shutdown", "leave"}, outcome = "none", outcome' = "none"
  PROVE  HorseMoves
<1> DEFINE H  == CommandAt(call, step, raised)
           H1 == CommandAt(call', step', raised')
<1>1. call \in Calls /\ step \in Steps /\ raised \in BOOLEAN /\ call' \in Calls /\ step' \in Steps
      /\ raised' \in BOOLEAN
  BY DEF TypeInv
<1>2. HorseAt = H /\ HorseAt' = H1
  BY DEF HorseAt, CommandAt
<1>3. Known = KnownAt(H, outcome) /\ Known' = KnownAt(H1, outcome')
  BY <1>2 DEF Known, KnownAt
<1>4. CASE call = "function"
  <2>1. H = "perform" /\ H1 \in {"perform", "on_success", "on_failure"}
    BY <1>1, <1>4, CommandAtIs
  <2>2. Known = "started" /\ Known' = "started"
    BY <1>3, <2>1 DEF KnownAt
  <2> HIDE DEF H, H1
  <2> QED
    BY <1>2, <2>1, <2>2, PerformEdge, HorseStutter DEF HorseMoves, Horse!HorseStep
<1>5. CASE call = "success"
  <2>1. H = "on_success" /\ H1 \in {"on_success", "record_success", "on_failure"}
    BY <1>1, <1>5, CommandAtIs
  <2>2. Known = "started" /\ Known' = "started"
    BY <1>3, <2>1 DEF KnownAt
  <2> HIDE DEF H, H1
  <2> QED
    BY <1>2, <2>1, <2>2, OnSuccessEdge, HorseStutter DEF HorseMoves, Horse!HorseStep
<1>6. CASE call = "failure"
  <2>1. H = "on_failure" /\ H1 \in {"on_failure", "record_failure"}
    BY <1>1, <1>6, CommandAtIs
  <2>2. Known = "started" /\ Known' = "started"
    BY <1>3, <2>1 DEF KnownAt
  <2> HIDE DEF H, H1
  <2> QED
    BY <1>2, <2>1, <2>2, OnFailureEdge, HorseStutter DEF HorseMoves, Horse!HorseStep
<1> QED
  BY <1>1, <1>4, <1>5, <1>6 DEF Calls, Hooks

LEMMA JobMoves == ASSUME Inv, Next, job.queue = "worker" PROVE HorseMoves
<1> DEFINE H  == CommandAt(call, step, raised)
           H1 == CommandAt(call', step', raised')
<1>1. TypeInv /\ TypeInv' /\ job \in Jobs
  BY TypeStep DEF Inv, TypeInv
<1>2. call \in Calls /\ step \in Steps /\ raised \in BOOLEAN /\ call' \in Calls /\ step' \in Steps
      /\ raised' \in BOOLEAN
  BY <1>1 DEF TypeInv
<1>3. HorseAt = H /\ HorseAt' = H1
  BY DEF HorseAt, CommandAt
<1>4. Known = KnownAt(H, outcome) /\ Known' = KnownAt(H1, outcome')
  BY <1>3 DEF Known, KnownAt
<1>5. step \notin {"end", "error"} => outcome = "none"
  BY OutcomeOpen
<1>6. CASE Save
  <2>1. step = "new" /\ step' = "stored" /\ outcome' = outcome
    BY <1>6 DEF Save
  <2>2. H = "prepare" /\ H1 = "prepare"
    BY <1>2, <2>1, CommandAtIs
  <2> HIDE DEF H, H1
  <2> QED
    BY <1>3, <1>4, <2>1, <2>2, HorseStutter DEF HorseMoves
<1>7. CASE Perform
  <2>1. step = "stored" /\ call = "function" /\ ~job.inLoop
    BY <1>1, <1>7, JobFields DEF Perform, Inv, OutcomeInv
  <2>2. call' = "function" /\ step' \in {"startup", "body"} /\ outcome' = outcome
    BY <1>7, <2>1 DEF Perform, Blocked, First
  <2>3. H = "prepare" /\ H1 = "perform"
    BY <1>2, <2>1, <2>2, CommandAtIs
  <2>4. Known = "queued" /\ Known' = "started"
    BY <1>4, <1>5, <2>1, <2>2, <2>3 DEF KnownAt
  <2> HIDE DEF H, H1
  <2> QED
    BY <1>3, <2>3, <2>4, PrepareEdge DEF HorseMoves, Horse!HorseStep
<1>8. ASSUME NEW raises \in BOOLEAN, Startup(raises) \/ Body(raises) \/ Shutdown(raises)
      PROVE  HorseMoves
  <2>1. /\ step \in {"startup", "body", "shutdown"} /\ call' = call /\ outcome' = outcome
        /\ step' \in {"body", "shutdown", "leave"}
    BY <1>8 DEF Startup, Body, Shutdown
  <2> QED
    BY <1>1, <1>5, <2>1, CallMoves
<1>9. CASE WorkerOnSuccess
  <2>1. step = "leave" /\ call = "function" /\ ~raised /\ outcome' = outcome /\ call' = "success"
        /\ step' \in {"leave", "startup", "body"}
    BY <1>9 DEF WorkerOnSuccess, Enter, Skip, First
  <2>2. H = "on_success" /\ H1 \in {"on_success", "record_success", "on_failure"}
    BY <1>2, <2>1, CommandAtIs
  <2>3. Known = "started" /\ Known' = "started"
    BY <1>4, <1>5, <2>1, <2>2 DEF KnownAt
  <2> HIDE DEF H, H1
  <2> QED
    BY <1>3, <2>2, <2>3, OnSuccessEdge, HorseStutter DEF HorseMoves, Horse!HorseStep
<1>10. CASE WorkerOnFailure
  <2>1. step = "leave" /\ call # "failure" /\ raised /\ outcome' = outcome /\ call' = "failure"
        /\ step' \in {"leave", "startup", "body"}
    BY <1>10 DEF WorkerOnFailure, Enter, Skip, First
  <2>2. H = "on_failure" /\ H1 \in {"on_failure", "record_failure"}
    <3>1. H = "on_failure"
      BY <2>1 DEF CommandAt
    <3>2. H1 \in {"on_failure", "record_failure"}
      BY <1>2, <2>1, CommandAtIs
    <3> HIDE DEF H, H1
    <3> QED
      BY <3>1, <3>2
  <2>3. Known = "started" /\ Known' = "started"
    BY <1>4, <1>5, <2>1, <2>2 DEF KnownAt
  <2> HIDE DEF H, H1
  <2> QED
    BY <1>3, <2>2, <2>3, OnFailureEdge, HorseStutter DEF HorseMoves, Horse!HorseStep
<1>11. CASE WorkerSucceeded
  <2>1. step = "leave" /\ call = "success" /\ ~raised /\ outcome' = "finished" /\ step' = "end"
    BY <1>11 DEF WorkerSucceeded, Stop
  <2>2. H = "record_success" /\ H1 = "exit_0"
    BY <1>2, <2>1, CommandAtIs
  <2>3. Known = "started" /\ Known' = "finished"
    BY <1>4, <1>5, <2>1, <2>2 DEF KnownAt
  <2> HIDE DEF H, H1
  <2> QED
    BY <1>3, <2>2, <2>3, RecordEdges DEF HorseMoves, Horse!HorseStep
<1>12. CASE WorkerFailed
  <2>1. step = "leave" /\ call = "failure" /\ outcome' = "failed" /\ step' = "end"
    BY <1>12 DEF WorkerFailed, Stop
  <2>2. H = "record_failure" /\ H1 = "exit_0"
    BY <1>2, <2>1, CommandAtIs
  <2>3. Known = "started" /\ Known' = "failed"
    BY <1>4, <1>5, <2>1, <2>2 DEF KnownAt
  <2> HIDE DEF H, H1
  <2> QED
    BY <1>3, <2>2, <2>3, RecordEdges DEF HorseMoves, Horse!HorseStep
<1>13. CASE Abandon
  <2>1. step \in {"startup", "body", "shutdown"} /\ call' = call /\ outcome' = outcome
        /\ step' = "leave"
    BY <1>13 DEF Abandon, Parts
  <2> QED
    BY <1>1, <1>5, <2>1, CallMoves
<1>14. ~SyncPerformed /\ ~SyncCalledBack
  BY DEF SyncPerformed, SyncCalledBack
<1> QED
  BY <1>6, <1>7, <1>8, <1>9, <1>10, <1>11, <1>12, <1>13, <1>14
     DEF Next

\* A worker's job, with its hooks, callbacks and errors, does to Redis what WorkQueue lets a
\* work horse do and in that order (aperform_job around AscJob._execute and
\* run_sync_or_async).
THEOREM HorseImplemented == Spec => ImplementsHorse
<1>1. Inv /\ [Next]_vars => [job.queue = "worker" => Horse!HorseStep("w")]_(Horse!vars)
  <2>1. ASSUME UNCHANGED vars PROVE UNCHANGED Horse!vars
    <3>1. HorseAt' = HorseAt /\ Known' = Known
      BY <2>1 DEF vars, HorseAt, Known
    <3> QED
      BY <3>1, HorseStutter
  <2> QED
    BY <2>1, JobMoves DEF HorseMoves
<1> QED
  BY Invariance, <1>1, PTL DEF Spec, ImplementsHorse

\* The same in a process with a database.
THEOREM ForkedHorseImplemented == ForkSpec => ImplementsHorse
  BY ForkedImplementsJobRun, HorseImplemented, PTL
=============================================================================
