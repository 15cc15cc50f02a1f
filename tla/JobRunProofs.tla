---------------------------- MODULE JobRunProofs ----------------------------
(***************************************************************************)
(* Theorems about JobRun, for every set of jobs, and that ForkedProcess     *)
(* adds the database to it and nothing else.  The inductive invariant has   *)
(* these parts:                                                            *)
(*   TypeInv    the types, but for the counters of hooks                    *)
(*   HookInv    how many hooks have run when a call is at a step            *)
(*   OutcomeInv which outcome is recorded when                              *)
(*   DoneInv    which calls have returned when                              *)
(*   ParamsInv  what the params of callbacks are on their way               *)
(*   CleanInv   what holds of supported jobs as long as no user code raises *)
(***************************************************************************)
EXTENDS ForkedProcess, TLAPS

\* The calls of one job come in this order.
Rank(c) == CASE c = "function" -> 0 [] c = "success" -> 1 [] c = "failure" -> 2

TypeInv ==
  /\ job \in Jobs
  /\ args \in [Hooks -> {"value", "empty", "None"}]
  /\ call \in Calls /\ step \in Steps
  /\ raised \in BOOLEAN /\ userRaised \in BOOLEAN
  /\ outcome \in {"none", "finished", "failed"}
  /\ opened \in Nat /\ closed \in Nat /\ abandoned \in Nat
  /\ done \in SUBSET (Calls \X Parts)
  /\ received \in [Hooks -> {"no", "value", "empty", "None"}]

\* The calls before this one, and this one from its first hook on, have each opened at most
\* one life span, and none but the present one is open, abandoned ones aside.
HookInv ==
  /\ opened <= Rank(call) + (IF step \in {"new", "stored", "startup"} THEN 0 ELSE 1)
  /\ opened = closed + abandoned
                + (IF step \in {"body", "shutdown"} /\ InLifespan(call) THEN 1 ELSE 0)
  /\ step \in {"startup", "shutdown"} => InLifespan(call)

OutcomeInv ==
  /\ step \in {"new", "stored"} => call = "function"
  /\ step = "stored" => job.queue = "worker"
  /\ Over => call # "function"
  /\ job.queue = "worker" /\ outcome # "none" => step = "end"
  /\ job.queue = "worker" /\ step = "end" =>
       outcome = (IF call = "failure" THEN "failed" ELSE "finished")
  /\ job.queue = "worker" /\ outcome = "finished" => ~raised
  /\ job.queue = "sync" =>
       outcome = CASE call = "function" -> "none"
                   [] call = "success"  -> "finished"
                   [] call = "failure"  -> "failed"
  /\ abandoned > 0 =>
       job.queue = "worker" /\ (call = "failure" \/ (step = "leave" /\ raised))

\* Does the success callback reach its end, once it is called and nothing raises?
Awaited == job.success # "none" /\ (job.lifespan \/ ~job.coroCb)

DoneInv ==
  /\ step \in {"body", "shutdown"} /\ InLifespan(call) => <<call, "startup">> \in done
  /\ step = "shutdown" /\ ~raised => <<call, "body">> \in done
  /\ step = "leave" /\ ~raised /\ call = "function" => Complete("function")
  /\ call = "success" => Complete("function")
  /\ step = "leave" /\ ~raised /\ call = "success" /\ Awaited => Complete("success")
  /\ job.queue = "worker" /\ outcome = "finished" /\ Awaited => Complete("success")
  /\ <<"failure", "body">> \in done => call = "failure"

\* What create, to_dict and restore make of a param.
Restored(c) == IF job.params[c] = "value" THEN "value" ELSE "None"

ParamsInv ==
  /\ step = "new" => args = job.params
  /\ job.queue = "worker" /\ step # "new" => \A c \in Hooks : args[c] = Restored(c)
  /\ \A c \in Hooks : received[c] # "no" => Kind(c) = "asc" /\ received[c] = Restored(c)

CleanInv ==
  /\ step \in {"new", "stored"} => ~raised
  /\ Supported(job) /\ ~userRaised =>
       /\ ~raised /\ call # "failure" /\ step # "error"
       /\ /\ call = "success" /\ job.success # "none"
          /\ step \in {"shutdown", "leave", "end"}
          => <<"success", "body">> \in done

-----------------------------------------------------------------------------
(* Types.                                                                  *)

\* The fields of a job, from the assumption on Jobs.
LEMMA JobFields ==
  ASSUME NEW j \in Jobs
  PROVE  /\ j.queue \in {"worker", "sync"} /\ j.inLoop \in BOOLEAN /\ j.lifespan \in BOOLEAN
         /\ j.coro \in BOOLEAN /\ j.coroCb \in BOOLEAN
         /\ j.success \in Callbacks /\ j.failure \in Callbacks
         /\ j.params \in [Hooks -> {"value", "empty"}]
         /\ j.inLoop => j.queue = "sync"
  BY JobsAssumption DEF JobKinds, Placed

\* A step of create, of lifespan, of a callback or of what follows keeps the types.
LEMMA TypeStep == ASSUME TypeInv, [Next]_vars PROVE TypeInv'
<1> USE JobFields DEF TypeInv, Calls, Hooks, Steps, Parts
<1>1. ASSUME Save PROVE TypeInv'
  BY <1>1 DEF Save
<1>2. ASSUME Perform PROVE TypeInv'
  BY <1>2 DEF Perform, Blocked, InLifespan, First
<1>3. ASSUME NEW raises \in BOOLEAN, Startup(raises) PROVE TypeInv'
  BY <1>3 DEF Startup
<1>4. ASSUME NEW raises \in BOOLEAN, Body(raises) PROVE TypeInv'
  BY <1>4 DEF Body, NotAwaitable, InLifespan
<1>5. ASSUME NEW raises \in BOOLEAN, Shutdown(raises) PROVE TypeInv'
  BY <1>5 DEF Shutdown
<1>6. ASSUME NEW c \in Hooks, Enter(c), outcome' \in {"none", "finished", "failed"} PROVE TypeInv'
  <2>1. UNCHANGED <<job, args, userRaised, opened, closed, abandoned, done>> /\ call' = c
    BY <1>6 DEF Enter
  <2>2. CASE Skip(c)
    <3>1. raised' \in BOOLEAN /\ step' = "leave" /\ received' = received
      BY <2>2 DEF Skip
    <3> QED
      BY <1>6, <2>1, <3>1
  <2>3. CASE Reached(c) /\ raised' = FALSE /\ step' = First(c)
             /\ received' = [received EXCEPT ![c] = IF Kind(c) = "asc" THEN args[c] ELSE "no"]
    BY <1>6, <2>1, <2>3 DEF First
  <2> QED
    BY <1>6, <2>2, <2>3 DEF Enter
<1>7. ASSUME NEW s \in {"end", "error"}, Stop(s), outcome' \in {"none", "finished", "failed"}
      PROVE  TypeInv'
  BY <1>7 DEF Stop
<1>8. CASE WorkerSucceeded \/ WorkerFailed \/ SyncCalledBack
  BY <1>7, <1>8 DEF WorkerSucceeded, WorkerFailed, SyncCalledBack
<1>9. CASE WorkerOnSuccess \/ WorkerOnFailure \/ SyncPerformed
  BY <1>6, <1>9 DEF WorkerOnSuccess, WorkerOnFailure, SyncPerformed
<1>10. CASE Abandon
  BY <1>10 DEF Abandon
<1>11. CASE UNCHANGED vars
  BY <1>11 DEF vars
<1> QED
  BY <1>1, <1>2, <1>3, <1>4, <1>5, <1>8, <1>9, <1>10, <1>11 DEF Next

-----------------------------------------------------------------------------
(* Hooks, outcomes and calls.                                               *)

\* A call opens its life span once and closes it before the next call begins.
LEMMA HookStep == ASSUME TypeInv, HookInv, OutcomeInv, [Next]_vars PROVE HookInv'
<1> USE JobFields DEF TypeInv, HookInv, OutcomeInv, Rank, Calls, Hooks, Steps, InLifespan, Over
<1>1. ASSUME Save PROVE HookInv'
  BY <1>1 DEF Save
<1>2. ASSUME Perform PROVE HookInv'
  BY <1>2 DEF Perform, Blocked, First
<1>3. ASSUME NEW raises \in BOOLEAN, Startup(raises) PROVE HookInv'
  BY <1>3 DEF Startup
<1>4. ASSUME NEW raises \in BOOLEAN, Body(raises) PROVE HookInv'
  BY <1>4 DEF Body, NotAwaitable
<1>5. ASSUME NEW raises \in BOOLEAN, Shutdown(raises) PROVE HookInv'
  BY <1>5 DEF Shutdown
<1>6. ASSUME WorkerSucceeded PROVE HookInv'
  BY <1>6 DEF WorkerSucceeded, Stop
<1>7. ASSUME WorkerFailed PROVE HookInv'
  BY <1>7 DEF WorkerFailed, Stop
<1>8. ASSUME SyncCalledBack PROVE HookInv'
  BY <1>8 DEF SyncCalledBack, Stop
<1>9. ASSUME WorkerOnSuccess PROVE HookInv'
  BY <1>9 DEF WorkerOnSuccess, Enter, Skip, Reached, First
<1>10. ASSUME WorkerOnFailure PROVE HookInv'
  BY <1>10 DEF WorkerOnFailure, Enter, Skip, Reached, First
<1>11. ASSUME SyncPerformed PROVE HookInv'
  BY <1>11 DEF SyncPerformed, Enter, Skip, Reached, First
<1>12. CASE Abandon
  BY <1>12 DEF Abandon, NotAwaitable, Parts
<1>13. CASE UNCHANGED vars
  BY <1>13 DEF vars
<1> QED
  BY <1>1, <1>2, <1>3, <1>4, <1>5, <1>6, <1>7, <1>8, <1>9, <1>10, <1>11, <1>12, <1>13 DEF Next

\* A worker records the outcome last, a synchronous queue when the function has returned.
LEMMA OutcomeStep == ASSUME TypeInv, OutcomeInv, [Next]_vars PROVE OutcomeInv'
<1> USE JobFields DEF TypeInv, OutcomeInv, Calls, Hooks, Steps, Over
<1>1. ASSUME Save PROVE OutcomeInv'
  BY <1>1 DEF Save
<1>2. ASSUME Perform PROVE OutcomeInv'
  BY <1>2 DEF Perform, Blocked, First
<1>3. ASSUME NEW raises \in BOOLEAN, Startup(raises) PROVE OutcomeInv'
  BY <1>3 DEF Startup
<1>4. ASSUME NEW raises \in BOOLEAN, Body(raises) PROVE OutcomeInv'
  BY <1>4 DEF Body, NotAwaitable, InLifespan
<1>5. ASSUME NEW raises \in BOOLEAN, Shutdown(raises) PROVE OutcomeInv'
  BY <1>5 DEF Shutdown
<1>6. ASSUME WorkerSucceeded PROVE OutcomeInv'
  BY <1>6 DEF WorkerSucceeded, Stop
<1>7. ASSUME WorkerFailed PROVE OutcomeInv'
  BY <1>7 DEF WorkerFailed, Stop
<1>8. ASSUME SyncCalledBack PROVE OutcomeInv'
  BY <1>8 DEF SyncCalledBack, Stop
<1>9. ASSUME WorkerOnSuccess PROVE OutcomeInv'
  BY <1>9 DEF WorkerOnSuccess, Enter, Skip, Reached, First
<1>10. ASSUME WorkerOnFailure PROVE OutcomeInv'
  BY <1>10 DEF WorkerOnFailure, Enter, Skip, Reached, First
<1>11. ASSUME SyncPerformed PROVE OutcomeInv'
  BY <1>11 DEF SyncPerformed, Enter, Skip, Reached, First
<1>12. CASE Abandon
  BY <1>12 DEF Abandon, NotAwaitable, Parts
<1>13. CASE UNCHANGED vars
  BY <1>13 DEF vars
<1> QED
  BY <1>1, <1>2, <1>3, <1>4, <1>5, <1>6, <1>7, <1>8, <1>9, <1>10, <1>11, <1>12, <1>13 DEF Next

\* What ran to its end stays so.
LEMMA DoneGrows == ASSUME [Next]_vars PROVE done \subseteq done' /\ job' = job
<1>1. CASE Next
  BY <1>1 DEF Next, Save, Perform, Startup, Body, Shutdown, Abandon, WorkerSucceeded,
     WorkerOnSuccess, WorkerOnFailure, WorkerFailed, SyncPerformed, SyncCalledBack, Enter, Stop
<1> QED
  BY <1>1 DEF vars

LEMMA CompleteKept ==
  ASSUME [Next]_vars, NEW c \in Calls, Complete(c) PROVE Complete(c)'
  BY DoneGrows DEF Complete, InLifespan, Calls, Hooks

\* The success callback is called when the function has returned, the failure callback last.
LEMMA DoneStep == ASSUME TypeInv, HookInv, OutcomeInv, DoneInv, [Next]_vars PROVE DoneInv'
<1> USE JobFields DEF TypeInv, DoneInv, Calls, Hooks
<1>0. /\ job \in Jobs /\ job' = job /\ done \subseteq done'
      /\ Complete("function") => Complete("function")'
      /\ Complete("success") => Complete("success")'
      /\ Awaited' = Awaited
  BY DoneGrows, CompleteKept DEF Awaited
<1>1. ASSUME Save PROVE DoneInv'
  BY <1>0, <1>1 DEF Save
<1>2. ASSUME Perform PROVE DoneInv'
  BY <1>0, <1>2 DEF Perform, Blocked, First, OutcomeInv, InLifespan
<1>3. ASSUME NEW raises \in BOOLEAN, Startup(raises) PROVE DoneInv'
  BY <1>0, <1>3 DEF Startup, InLifespan, HookInv
<1>4. ASSUME NEW raises \in BOOLEAN, Body(raises) PROVE DoneInv'
  BY <1>0, <1>4 DEF Body, NotAwaitable, InLifespan, Dropped, Awaited, Complete, OutcomeInv
<1>5. ASSUME NEW raises \in BOOLEAN, Shutdown(raises) PROVE DoneInv'
  BY <1>0, <1>5 DEF Shutdown, HookInv, InLifespan, Complete
<1>6. ASSUME WorkerSucceeded PROVE DoneInv'
  BY <1>0, <1>6 DEF WorkerSucceeded, Stop
<1>7. ASSUME WorkerFailed PROVE DoneInv'
  BY <1>0, <1>7 DEF WorkerFailed, Stop
<1>8. ASSUME SyncCalledBack PROVE DoneInv'
  BY <1>0, <1>8 DEF SyncCalledBack, Stop
<1>9. ASSUME WorkerOnSuccess PROVE DoneInv'
  BY <1>0, <1>9 DEF WorkerOnSuccess, Enter, Skip, Reached, First, Kind, Awaited, InLifespan
<1>10. ASSUME WorkerOnFailure PROVE DoneInv'
  BY <1>0, <1>10 DEF WorkerOnFailure, Enter, Skip, Reached, First, InLifespan
<1>11. ASSUME SyncPerformed PROVE DoneInv'
  BY <1>0, <1>11 DEF SyncPerformed, Enter, Skip, Reached, First, Kind, Awaited, InLifespan
<1>12. CASE Abandon
  BY <1>0, <1>12 DEF Abandon, Parts
<1>13. CASE UNCHANGED vars
  BY <1>0, <1>13 DEF vars, InLifespan
<1> QED
  BY <1>1, <1>2, <1>3, <1>4, <1>5, <1>6, <1>7, <1>8, <1>9, <1>10, <1>11, <1>12, <1>13 DEF Next

-----------------------------------------------------------------------------
(* Params, and jobs whose user code never raises.                           *)

\* Params pass through the hash and reach the callback they were given for.
LEMMA ParamsStep == ASSUME TypeInv, OutcomeInv, ParamsInv, [Next]_vars PROVE ParamsInv'
<1> USE JobFields DEF TypeInv, OutcomeInv, ParamsInv, Restored, Kind, Calls, Hooks, Steps
<1>1. ASSUME Save PROVE ParamsInv'
  BY <1>1 DEF Save
<1>2. ASSUME Perform PROVE ParamsInv'
  BY <1>2 DEF Perform, Blocked, First
<1>3. ASSUME NEW raises \in BOOLEAN, Startup(raises) PROVE ParamsInv'
  BY <1>3 DEF Startup
<1>4. ASSUME NEW raises \in BOOLEAN, Body(raises) PROVE ParamsInv'
  BY <1>4 DEF Body
<1>5. ASSUME NEW raises \in BOOLEAN, Shutdown(raises) PROVE ParamsInv'
  BY <1>5 DEF Shutdown
<1>6. ASSUME WorkerSucceeded PROVE ParamsInv'
  BY <1>6 DEF WorkerSucceeded, Stop
<1>7. ASSUME WorkerFailed PROVE ParamsInv'
  BY <1>7 DEF WorkerFailed, Stop
<1>8. ASSUME SyncCalledBack PROVE ParamsInv'
  BY <1>8 DEF SyncCalledBack, Stop
<1>9. ASSUME WorkerOnSuccess PROVE ParamsInv'
  BY <1>9 DEF WorkerOnSuccess, Enter, Skip, Reached, First, Fits
<1>10. ASSUME WorkerOnFailure PROVE ParamsInv'
  BY <1>10 DEF WorkerOnFailure, Enter, Skip, Reached, First, Fits
<1>11. ASSUME SyncPerformed PROVE ParamsInv'
  BY <1>11 DEF SyncPerformed, Enter, Skip, Reached, First, Fits
<1>12. CASE Abandon
  BY <1>12 DEF Abandon, NotAwaitable, Parts
<1>13. CASE UNCHANGED vars
  BY <1>13 DEF vars
<1> QED
  BY <1>1, <1>2, <1>3, <1>4, <1>5, <1>6, <1>7, <1>8, <1>9, <1>10, <1>11, <1>12, <1>13 DEF Next

\* Nothing but user code raises in a supported job, and its callback runs.
LEMMA CleanStep == ASSUME TypeInv, HookInv, OutcomeInv, CleanInv, [Next]_vars PROVE CleanInv'
<1> USE JobFields DEF TypeInv, HookInv, OutcomeInv, CleanInv, Supported, Kind, InLifespan,
                      Callbacks, Calls, Hooks, Steps, Over
<1>1. ASSUME Save PROVE CleanInv'
  BY <1>1 DEF Save
<1>2. ASSUME Perform PROVE CleanInv'
  BY <1>2 DEF Perform, Blocked, First
<1>3. ASSUME NEW raises \in BOOLEAN, Startup(raises) PROVE CleanInv'
  BY <1>3 DEF Startup
<1>4. ASSUME NEW raises \in BOOLEAN, Body(raises) PROVE CleanInv'
  BY <1>4 DEF Body, NotAwaitable, Dropped
<1>5. ASSUME NEW raises \in BOOLEAN, Shutdown(raises) PROVE CleanInv'
  BY <1>5 DEF Shutdown
<1>6. ASSUME WorkerSucceeded PROVE CleanInv'
  BY <1>6 DEF WorkerSucceeded, Stop
<1>7. ASSUME WorkerFailed PROVE CleanInv'
  BY <1>7 DEF WorkerFailed, Stop
<1>8. ASSUME SyncCalledBack PROVE CleanInv'
  BY <1>8 DEF SyncCalledBack, Stop
<1>9. ASSUME WorkerOnSuccess PROVE CleanInv'
  BY <1>9 DEF WorkerOnSuccess, Enter, Skip, Reached, First, Fits, Blocked
<1>10. ASSUME WorkerOnFailure PROVE CleanInv'
  BY <1>10 DEF WorkerOnFailure, Enter, Skip, Reached, First, Fits, Blocked
<1>11. ASSUME SyncPerformed PROVE CleanInv'
  BY <1>11 DEF SyncPerformed, Enter, Skip, Reached, First, Fits, Blocked
<1>12. CASE Abandon
  BY <1>12 DEF Abandon, NotAwaitable, Parts
<1>13. CASE UNCHANGED vars
  BY <1>13 DEF vars
<1> QED
  BY <1>1, <1>2, <1>3, <1>4, <1>5, <1>6, <1>7, <1>8, <1>9, <1>10, <1>11, <1>12, <1>13 DEF Next

-----------------------------------------------------------------------------
Inv == TypeInv /\ HookInv /\ OutcomeInv /\ DoneInv /\ ParamsInv /\ CleanInv

LEMMA InitInv == ASSUME Init PROVE Inv
<1>1. args \in [Hooks -> {"value", "empty", "None"}]
  <2>1. job.params \in [Hooks -> {"value", "empty"}] /\ args = job.params
    BY JobFields DEF Init
  <2> QED
    BY <2>1
<1>2. TypeInv
  BY <1>1 DEF Init, TypeInv, Calls, Hooks, Steps
<1>3. HookInv /\ OutcomeInv /\ DoneInv /\ ParamsInv
  BY JobFields DEF Init, HookInv, OutcomeInv, DoneInv, ParamsInv, Rank, Hooks, Over
<1>4. CleanInv
  BY DEF Init, CleanInv
<1> QED
  BY <1>2, <1>3, <1>4 DEF Inv

\* The invariant of JobRun, from its parts.
THEOREM Invariance == Spec => []Inv
<1>1. Inv /\ [Next]_vars => Inv'
  BY TypeStep, HookStep, OutcomeStep, DoneStep, ParamsStep, CleanStep DEF Inv
<1> QED
  BY InitInv, <1>1, PTL DEF Spec

\* Types, at most three life spans of one job, and none closed that was not opened.
THEOREM TypeCorrect == Spec => []TypeOK
<1>1. Inv => TypeOK
  <2> SUFFICES ASSUME Inv PROVE TypeOK
    OBVIOUS
  <2>1. opened <= 3 /\ closed <= opened /\ abandoned <= opened
    BY DEF Inv, TypeInv, HookInv, Rank, Calls, Hooks
  <2> QED
    BY <2>1 DEF Inv, TypeInv, TypeOK
<1> QED
  BY Invariance, <1>1, PTL

\* lifespan: every on_startup that completed is followed by its on_shutdown before the
\* call is over, whatever user code raises, but for life spans that the time limit ends while
\* they are suspended, whose job fails.
THEOREM HooksBalanced == Spec => []Balanced
<1>1. Inv => Balanced
  BY JobFields DEF Inv, TypeInv, HookInv, OutcomeInv, Balanced, Over, Calls, Hooks
<1> QED
  BY Invariance, <1>1, PTL

\* A finished job's function, hooks and, on a worker, success callback have all returned.
THEOREM FinishedComplete == Spec => []FinishedMeansComplete
<1>1. Inv => FinishedMeansComplete
  BY JobFields DEF Inv, TypeInv, OutcomeInv, DoneInv, Awaited, FinishedMeansComplete, Calls,
                   Hooks, Over
<1> QED
  BY Invariance, <1>1, PTL

\* The failure callback runs for failed jobs, and for all of them that have one.
THEOREM CallbackAgrees == Spec => []FailureCallbackAgrees
<1>1. Inv => FailureCallbackAgrees
  BY JobFields DEF Inv, TypeInv, OutcomeInv, DoneInv, FailureCallbackAgrees, Calls, Hooks, Over
<1> QED
  BY Invariance, <1>1, PTL

\* Params reach the callback they were given for, unchanged but that falsy ones are None.
THEOREM ParamsDelivered == Spec => []ParamsArrive
<1>1. Inv => ParamsArrive
  BY DEF Inv, ParamsInv, ParamsArrive, Restored
<1> QED
  BY Invariance, <1>1, PTL

\* A supported job fails only by user code, and its success callback is called.
THEOREM CleanSuccess == Spec => []CleanRunSucceeds
<1>1. Inv => CleanRunSucceeds
  BY JobFields DEF Inv, TypeInv, OutcomeInv, CleanInv, CleanRunSucceeds, Calls, Hooks, Steps, Over
<1> QED
  BY Invariance, <1>1, PTL

-----------------------------------------------------------------------------
LEMMA ForkedStep == ASSUME [ForkNext]_forkVars PROVE [Next]_vars
  BY DEF ForkNext, forkVars, vars, JobStep, JobElsewhere, JobStartup, JobBody, JobShutdown,
         JobAbandon, ProcessStep, Next

\* ForkedProcess adds the database to JobRun and takes nothing away: what holds of every
\* job holds of one in a process with a database.
THEOREM ForkedImplementsJobRun == ForkSpec => Spec
<1>1. ForkInit => Init
  BY DEF ForkInit
<1>2. [ForkNext]_forkVars => [Next]_vars
  BY ForkedStep
<1> QED
  BY <1>1, <1>2, PTL DEF ForkSpec, Spec
=============================================================================
