------------------------------ MODULE JobHorse ------------------------------
(***************************************************************************)
(* JobRun and WorkQueue meet here.  WorkQueue takes aperform_job in large   *)
(* steps: the job's function with its life span is one, a callback with     *)
(* the heartbeat before it is another.  The job that JobRun follows through *)
(* hooks, exceptions and callbacks, seen from outside, is a work horse of   *)
(* WorkQueue from the moment its worker has forked it.                      *)
(***************************************************************************)
EXTENDS JobRun

\* The command of aperform_job a worker's horse is at.
HorseAt ==
  CASE step \in {"new", "stored"}                          -> "prepare"
    [] step \in {"end", "error"}                           -> "exit_0"
    [] step = "leave" /\ call = "failure"                  -> "record_failure"
    [] step = "leave" /\ call # "failure" /\ raised        -> "on_failure"
    [] step = "leave" /\ call = "function" /\ ~raised      -> "on_success"
    [] step = "leave" /\ call = "success" /\ ~raised       -> "record_success"
    [] step \in {"startup", "body", "shutdown"} /\ call = "function" -> "perform"
    [] step \in {"startup", "body", "shutdown"} /\ call = "success"  -> "on_success"
    [] step \in {"startup", "body", "shutdown"} /\ call = "failure"  -> "on_failure"

Known == IF outcome # "none" THEN outcome ELSE IF HorseAt = "prepare" THEN "queued" ELSE "started"

Horse == INSTANCE WorkQueue WITH
  Jobs <- {"j"}, Workers <- {"w"}, NoJob <- "none", Movers <- {"w"}, Unreadable <- {},
  Raising <- {}, QuitsWhenIdle <- FALSE, MaxJobs <- 0, Faults <- {}, MaxFaults <- 0,
  queue <- <<>>, faults <- 0,
  intermediate <- IF HorseAt = "prepare" THEN {"j"} ELSE {},
  started <- IF Known = "started" THEN {"j"} ELSE {},
  status <- [j \in {"j"} |-> Known],
  wpc <- [w \in {"w"} |-> "monitor"],
  hpc <- [w \in {"w"} |-> HorseAt],
  job <- [w \in {"w"} |-> "j"],
  completed <- [w \in {"w"} |-> 0],
  runs <- [j \in {"j"} |-> IF HorseAt \in {"prepare", "perform"} THEN 0 ELSE 1]

\* What JobRun does with a job of a worker, with all its hooks, callbacks and errors,
\* is what WorkQueue lets a work horse do: perform once, callback before outcome, a
\* failure callback before the failure, and one outcome.
ImplementsHorse == [][job.queue = "worker" => Horse!HorseStep("w")]_(Horse!vars)
=============================================================================
