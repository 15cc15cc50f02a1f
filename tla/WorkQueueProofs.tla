--------------------------- MODULE WorkQueueProofs ---------------------------
(***************************************************************************)
(* Theorems about WorkQueue, for every set of jobs and workers and every    *)
(* kind and number of faults, and their proofs.  Each invariant has a lemma *)
(* that one step preserves it, with one step of the proof per action; the   *)
(* theorems at the end combine the lemmas:                                  *)
(*   TypeInv    the types, and which program counters go together           *)
(*   OwnerInv   one owner per popped job; a new id is nowhere yet           *)
(*   InvokedInv an invoked job is past the point where it would be invoked  *)
(*   SettledInv where a job of each status may be, if no reply is lost      *)
(*   ServedInv  every horse has its worker, if no worker dies               *)
(***************************************************************************)
EXTENDS WorkQueue, TLAPS

Idle    == {"loop", "heartbeat"}
Holding == {"popped", "fetched", "monitor"}

\* The parent and its horse: who holds a job, who is waited for.
ControlInv ==
  \A w \in Workers :
    /\ wpc[w] \in Idle => job[w] = NoJob
    /\ wpc[w] \in Holding => job[w] \in Jobs
    /\ hpc[w] # "none" => job[w] \in Jobs /\ wpc[w] \in {"monitor"} \cup Gone

TypeInv == TypeOK /\ ControlInv

\* Every step of awork, aperform_job and of the faults keeps the types.
LEMMA TypeStep == ASSUME TypeInv, [Next]_vars PROVE TypeInv'
<1> USE ConstantsAssumption DEF TypeInv, TypeOK, ControlInv, Idle, Holding, redis, GoWorker,
    GoHorse, Settled, Status, Running, Exited, Gone
<1>1. ASSUME NEW j \in Jobs, Enqueue(j) PROVE TypeInv'
  BY <1>1 DEF Enqueue, PushJob
<1>2. ASSUME NEW j \in Jobs, Expire(j) PROVE TypeInv'
  BY <1>2 DEF Expire, Fault
<1>3. ASSUME NEW w \in Workers, Pop(w) PROVE TypeInv'
  BY <1>3 DEF Pop
<1>4. ASSUME NEW w \in Workers, QuitIdle(w) PROVE TypeInv'
  BY <1>4 DEF QuitIdle
<1>5. ASSUME NEW w \in Workers, Fetch(w) PROVE TypeInv'
  BY <1>5 DEF Fetch
<1>6. ASSUME NEW w \in Workers, FetchMissing(w) PROVE TypeInv'
  BY <1>6 DEF FetchMissing
<1>7. ASSUME NEW w \in Workers, FetchUnreadable(w) PROVE TypeInv'
  BY <1>7 DEF FetchUnreadable
<1>8. ASSUME NEW w \in Workers, Fork(w) PROVE TypeInv'
  BY <1>8 DEF Fork
<1>9. ASSUME NEW w \in Workers, KillHung(w) PROVE TypeInv'
  BY <1>9 DEF KillHung
<1>10. ASSUME NEW w \in Workers, Reap(w) PROVE TypeInv'
  BY <1>10 DEF Reap, HandleJobFailure
<1>11. ASSUME NEW w \in Workers, Heartbeat(w) PROVE TypeInv'
  <2> DEFINE n == completed[w] + 1
  <2>1. n \in Nat /\ completed' = [completed EXCEPT ![w] = n] /\ wpc[w] = "heartbeat"
    BY <1>11 DEF Heartbeat
  <2>2. MaxJobs > 0 => completed[w] < MaxJobs
    BY <2>1
  <2>3. CASE MaxJobs > 0 /\ n >= MaxJobs
    BY <1>11, <2>1, <2>2, <2>3 DEF Heartbeat
  <2>4. CASE ~(MaxJobs > 0 /\ n >= MaxJobs)
    BY <1>11, <2>1, <2>2, <2>4 DEF Heartbeat
  <2> QED BY <2>3, <2>4
<1>12. ASSUME NEW w \in Workers, Prepare(w) PROVE TypeInv'
  BY <1>12 DEF Prepare, PrepareJobExecution
<1>13. ASSUME NEW w \in Workers, Perform(w) PROVE TypeInv'
  BY <1>13 DEF Perform
<1>14. ASSUME NEW w \in Workers, OnSuccess(w) PROVE TypeInv'
  BY <1>14 DEF OnSuccess, JobHeartbeat
<1>15. ASSUME NEW w \in Workers, RecordSuccess(w) PROVE TypeInv'
  BY <1>15 DEF RecordSuccess, HandleJobSuccess
<1>16. ASSUME NEW w \in Workers, OnFailure(w) PROVE TypeInv'
  BY <1>16 DEF OnFailure, JobHeartbeat
<1>17. ASSUME NEW w \in Workers, RecordFailure(w) PROVE TypeInv'
  BY <1>17 DEF RecordFailure, HandleJobFailure
<1>18. ASSUME NEW w \in Workers, WorkerFails(w) PROVE TypeInv'
  BY <1>18 DEF WorkerFails, Fault
<1>19. ASSUME NEW w \in Workers, MonitorFails(w) PROVE TypeInv'
  BY <1>19 DEF MonitorFails, Fault
<1>20. ASSUME NEW w \in Workers, StopRequested(w) PROVE TypeInv'
  BY <1>20 DEF StopRequested, Fault
<1>21. ASSUME NEW w \in Workers, WorkerCrash(w) PROVE TypeInv'
  BY <1>21 DEF WorkerCrash, Fault
<1>22. ASSUME NEW w \in Workers, PrepareFails(w) PROVE TypeInv'
  BY <1>22 DEF PrepareFails, Fault
<1>23. ASSUME NEW w \in Workers, Hang(w) PROVE TypeInv'
  BY <1>23 DEF Hang, Fault
<1>24. ASSUME NEW w \in Workers, OnSuccessFails(w) PROVE TypeInv'
  BY <1>24 DEF OnSuccessFails, Fault
<1>25. ASSUME NEW w \in Workers, RecordSuccessFails(w) PROVE TypeInv'
  BY <1>25 DEF RecordSuccessFails, Fault
<1>26. ASSUME NEW w \in Workers, RecordSuccessReplyLost(w) PROVE TypeInv'
  BY <1>26 DEF RecordSuccessReplyLost, HandleJobSuccess, Fault
<1>27. ASSUME NEW w \in Workers, OnFailureFails(w) PROVE TypeInv'
  BY <1>27 DEF OnFailureFails, Fault
<1>28. ASSUME NEW w \in Workers, RecordFailureFails(w) PROVE TypeInv'
  BY <1>28 DEF RecordFailureFails, Fault
<1>29. ASSUME NEW w \in Workers, HorseKilled(w) PROVE TypeInv'
  BY <1>29 DEF HorseKilled, Fault
<1>30. ASSUME NEW w \in Workers, ReapFails(w) PROVE TypeInv'
  BY <1>30 DEF ReapFails, Fault
<1>31. ASSUME NEW w \in Workers, NEW j \in Jobs, CleanMarks(w, j) PROVE TypeInv'
  BY <1>31 DEF CleanMarks, Abandoned
<1>32. ASSUME NEW w \in Workers, NEW j \in Jobs, CleanStarted(w, j) PROVE TypeInv'
  BY <1>32 DEF CleanStarted, Abandoned, HandleJobFailure
<1>33. ASSUME NEW w \in Workers, NEW j \in Jobs, CleanRaises(w, j) PROVE TypeInv'
  BY <1>33 DEF CleanRaises
<1>34. ASSUME NEW w \in Workers, NEW j \in Jobs, CleanIntermediate(w, j) PROVE TypeInv'
  BY <1>34 DEF CleanIntermediate, Stuck
<1>35. ASSUME NEW w \in Workers, NEW j \in Jobs, CleanUnreadable(w, j) PROVE TypeInv'
  BY <1>35 DEF CleanUnreadable
<1>36. ASSUME UNCHANGED vars PROVE TypeInv'
  BY <1>36 DEF vars
<1> QED BY <1>1, <1>2, <1>3, <1>4, <1>5, <1>6, <1>7, <1>8, <1>9, <1>10, <1>11, <1>12, <1>13,
    <1>14, <1>15, <1>16, <1>17, <1>18, <1>19, <1>20, <1>21, <1>22, <1>23, <1>24, <1>25, <1>26,
    <1>27, <1>28, <1>29, <1>30, <1>31, <1>32, <1>33, <1>34, <1>35, <1>36
  DEF Next, WorkerStep, HorseStep, FaultStep, Maintenance

-----------------------------------------------------------------------------
Elements(q) == {q[i] : i \in DOMAIN q}
OnceEach(q) == \A i, k \in DOMAIN q : q[i] = q[k] => i = k

\* RPUSH: what Queue.enqueue does to the ids of the queue.
LEMMA AppendElements ==
  ASSUME NEW S, NEW q \in Seq(S), NEW e \in S
  PROVE  /\ Append(q, e) \in Seq(S)
         /\ Elements(Append(q, e)) = Elements(q) \cup {e}
         /\ OnceEach(q) /\ e \notin Elements(q) => OnceEach(Append(q, e))
<1> DEFINE r == Append(q, e)
<1>1. r \in Seq(S) /\ DOMAIN q = 1..Len(q) /\ DOMAIN r = 1..Len(q) + 1 /\ Len(q) \in Nat
  OBVIOUS
<1>2. \A i \in 1..Len(q) : r[i] = q[i]
  OBVIOUS
<1>3. r[Len(q) + 1] = e
  OBVIOUS
<1> QED BY <1>1, <1>2, <1>3 DEF Elements, OnceEach

\* LPOP or LMOVE: what AscQueue.lpop and lmove do to them.
LEMMA TailElements ==
  ASSUME NEW S, NEW q \in Seq(S), q # <<>>
  PROVE  /\ Head(q) \in S /\ Tail(q) \in Seq(S)
         /\ Elements(q) = Elements(Tail(q)) \cup {Head(q)}
         /\ OnceEach(q) => OnceEach(Tail(q)) /\ Head(q) \notin Elements(Tail(q))
<1> DEFINE r == Tail(q)
<1>1. /\ Head(q) \in S /\ r \in Seq(S) /\ Head(q) = q[1]
      /\ Len(q) \in Nat /\ Len(q) > 0 /\ DOMAIN q = 1..Len(q) /\ DOMAIN r = 1..Len(q) - 1
  OBVIOUS
<1>2. \A i \in 1..Len(q) - 1 : r[i] = q[i + 1]
  OBVIOUS
<1>3. \A i \in 2..Len(q) : q[i] = r[i - 1]
  BY <1>1, <1>2
<1>4. Elements(r) \subseteq Elements(q) /\ Head(q) \in Elements(q)
  BY <1>1, <1>2 DEF Elements
<1>5. Elements(q) \subseteq Elements(r) \cup {Head(q)}
  <2> SUFFICES ASSUME NEW i \in DOMAIN q, i # 1 PROVE q[i] \in Elements(r)
    BY <1>1 DEF Elements
  <2>1. i - 1 \in DOMAIN r /\ q[i] = r[i - 1]
    BY <1>1, <1>3
  <2> QED BY <2>1 DEF Elements
<1>6. OnceEach(q) => OnceEach(r) /\ Head(q) \notin Elements(r)
  BY <1>1, <1>2 DEF OnceEach, Elements
<1> QED BY <1>1, <1>4, <1>5, <1>6

\* An id that was never enqueued is not in Redis and not in a worker's hands.
FreshInv ==
  \A j \in Jobs : status[j] = "none" => j \notin Queued /\ \A w \in Workers : job[w] # j

OwnerInv == ExclusiveOwner /\ FreshInv

\* No step makes a second owner of a job.
LEMMA OwnerStep == ASSUME TypeInv, OwnerInv, [Next]_vars PROVE OwnerInv'
<1> USE ConstantsAssumption DEF TypeInv, TypeOK, ControlInv, Idle, Holding, OwnerInv,
    ExclusiveOwner, FreshInv, Queued, redis, GoWorker, GoHorse
<1>1. ASSUME NEW j \in Jobs, Enqueue(j) PROVE OwnerInv'
  BY <1>1 DEF Enqueue, PushJob
<1>2. ASSUME NEW j \in Jobs, Expire(j) PROVE OwnerInv'
  BY <1>2 DEF Expire, Fault
<1>3. ASSUME NEW w \in Workers, Pop(w) PROVE OwnerInv'
  <2>1. /\ queue \in Seq(Jobs) /\ queue # <<>> /\ queue' = Tail(queue) /\ UNCHANGED status
        /\ job' = [job EXCEPT ![w] = Head(queue)] /\ job \in [Workers -> Jobs \cup {NoJob}]
    BY <1>3 DEF Pop
  <2>2. OnceEach(queue) /\ Queued = Elements(queue) /\ Queued' = Elements(queue')
    BY DEF OnceEach, Elements
  <2>3. Head(queue) \in Jobs /\ Queued = Queued' \cup {Head(queue)}
    BY <2>1, <2>2, TailElements
  <2>4. OnceEach(queue') /\ Head(queue) \notin Queued'
    BY <2>1, <2>2, TailElements
  <2>5. ExclusiveOwner'
    <3>1. \A v \in Workers : job'[v] \notin Queued'
      BY <2>1, <2>3, <2>4
    <3>2. \A v, u \in Workers : v # u /\ job'[v] = job'[u] => job'[v] = NoJob
      BY <2>1, <2>3
    <3> QED BY <2>4, <3>1, <3>2 DEF OnceEach
  <2>6. FreshInv'
    BY <2>1, <2>3
  <2> QED BY <2>5, <2>6
<1>4. ASSUME NEW w \in Workers, QuitIdle(w) PROVE OwnerInv'
  BY <1>4 DEF QuitIdle
<1>5. ASSUME NEW w \in Workers, Fetch(w) PROVE OwnerInv'
  BY <1>5 DEF Fetch
<1>6. ASSUME NEW w \in Workers, FetchMissing(w) PROVE OwnerInv'
  BY <1>6 DEF FetchMissing
<1>7. ASSUME NEW w \in Workers, FetchUnreadable(w) PROVE OwnerInv'
  BY <1>7 DEF FetchUnreadable
<1>8. ASSUME NEW w \in Workers, Fork(w) PROVE OwnerInv'
  BY <1>8 DEF Fork
<1>9. ASSUME NEW w \in Workers, KillHung(w) PROVE OwnerInv'
  BY <1>9 DEF KillHung
<1>10. ASSUME NEW w \in Workers, Reap(w) PROVE OwnerInv'
  BY <1>10 DEF Reap, HandleJobFailure
<1>11. ASSUME NEW w \in Workers, Heartbeat(w) PROVE OwnerInv'
  BY <1>11 DEF Heartbeat
<1>12. ASSUME NEW w \in Workers, Prepare(w) PROVE OwnerInv'
  BY <1>12 DEF Prepare, PrepareJobExecution
<1>13. ASSUME NEW w \in Workers, Perform(w) PROVE OwnerInv'
  BY <1>13 DEF Perform
<1>14. ASSUME NEW w \in Workers, OnSuccess(w) PROVE OwnerInv'
  BY <1>14 DEF OnSuccess, JobHeartbeat
<1>15. ASSUME NEW w \in Workers, RecordSuccess(w) PROVE OwnerInv'
  BY <1>15 DEF RecordSuccess, HandleJobSuccess
<1>16. ASSUME NEW w \in Workers, OnFailure(w) PROVE OwnerInv'
  BY <1>16 DEF OnFailure, JobHeartbeat
<1>17. ASSUME NEW w \in Workers, RecordFailure(w) PROVE OwnerInv'
  BY <1>17 DEF RecordFailure, HandleJobFailure
<1>18. ASSUME NEW w \in Workers, WorkerFails(w) PROVE OwnerInv'
  BY <1>18 DEF WorkerFails, Fault
<1>19. ASSUME NEW w \in Workers, MonitorFails(w) PROVE OwnerInv'
  BY <1>19 DEF MonitorFails, Fault
<1>20. ASSUME NEW w \in Workers, StopRequested(w) PROVE OwnerInv'
  BY <1>20 DEF StopRequested, Fault
<1>21. ASSUME NEW w \in Workers, WorkerCrash(w) PROVE OwnerInv'
  BY <1>21 DEF WorkerCrash, Fault
<1>22. ASSUME NEW w \in Workers, PrepareFails(w) PROVE OwnerInv'
  BY <1>22 DEF PrepareFails, Fault
<1>23. ASSUME NEW w \in Workers, Hang(w) PROVE OwnerInv'
  BY <1>23 DEF Hang, Fault
<1>24. ASSUME NEW w \in Workers, OnSuccessFails(w) PROVE OwnerInv'
  BY <1>24 DEF OnSuccessFails, Fault
<1>25. ASSUME NEW w \in Workers, RecordSuccessFails(w) PROVE OwnerInv'
  BY <1>25 DEF RecordSuccessFails, Fault
<1>26. ASSUME NEW w \in Workers, RecordSuccessReplyLost(w) PROVE OwnerInv'
  BY <1>26 DEF RecordSuccessReplyLost, HandleJobSuccess, Fault
<1>27. ASSUME NEW w \in Workers, OnFailureFails(w) PROVE OwnerInv'
  BY <1>27 DEF OnFailureFails, Fault
<1>28. ASSUME NEW w \in Workers, RecordFailureFails(w) PROVE OwnerInv'
  BY <1>28 DEF RecordFailureFails, Fault
<1>29. ASSUME NEW w \in Workers, HorseKilled(w) PROVE OwnerInv'
  BY <1>29 DEF HorseKilled, Fault
<1>30. ASSUME NEW w \in Workers, ReapFails(w) PROVE OwnerInv'
  BY <1>30 DEF ReapFails, Fault
<1>31. ASSUME NEW w \in Workers, NEW j \in Jobs, CleanMarks(w, j) PROVE OwnerInv'
  BY <1>31 DEF CleanMarks, Abandoned
<1>32. ASSUME NEW w \in Workers, NEW j \in Jobs, CleanStarted(w, j) PROVE OwnerInv'
  BY <1>32 DEF CleanStarted, Abandoned, HandleJobFailure
<1>33. ASSUME NEW w \in Workers, NEW j \in Jobs, CleanRaises(w, j) PROVE OwnerInv'
  BY <1>33 DEF CleanRaises
<1>34. ASSUME NEW w \in Workers, NEW j \in Jobs, CleanIntermediate(w, j) PROVE OwnerInv'
  BY <1>34 DEF CleanIntermediate, Stuck
<1>35. ASSUME NEW w \in Workers, NEW j \in Jobs, CleanUnreadable(w, j) PROVE OwnerInv'
  BY <1>35 DEF CleanUnreadable
<1>36. ASSUME UNCHANGED vars PROVE OwnerInv'
  BY <1>36 DEF vars
<1> QED BY <1>1, <1>2, <1>3, <1>4, <1>5, <1>6, <1>7, <1>8, <1>9, <1>10, <1>11, <1>12, <1>13,
    <1>14, <1>15, <1>16, <1>17, <1>18, <1>19, <1>20, <1>21, <1>22, <1>23, <1>24, <1>25, <1>26,
    <1>27, <1>28, <1>29, <1>30, <1>31, <1>32, <1>33, <1>34, <1>35, <1>36
  DEF Next, WorkerStep, HorseStep, FaultStep, Maintenance

\* A job that was invoked is out of the queue and past its horse's perform.
InvokedInv ==
  \A j \in Jobs : runs[j] > 0 =>
    /\ status[j] # "none" /\ j \notin Queued
    /\ \A w \in Workers :
         job[w] = j => wpc[w] \notin {"popped", "fetched"} /\ hpc[w] \notin {"prepare", "perform"}

\* No step brings an invoked job back before its invocation.
LEMMA InvokedStep ==
  ASSUME TypeInv, OwnerInv, InvokedInv, AtMostOnce, [Next]_vars PROVE InvokedInv' /\ AtMostOnce'
<1> USE ConstantsAssumption DEF TypeInv, TypeOK, ControlInv, Idle, Holding, OwnerInv,
    ExclusiveOwner, FreshInv, InvokedInv, AtMostOnce, Queued, redis, GoWorker, GoHorse,
    Exited, Gone
<1>1. ASSUME NEW j \in Jobs, Enqueue(j) PROVE InvokedInv' /\ AtMostOnce'
  BY <1>1 DEF Enqueue, PushJob
<1>2. ASSUME NEW j \in Jobs, Expire(j) PROVE InvokedInv' /\ AtMostOnce'
  BY <1>2 DEF Expire, Fault
<1>3. ASSUME NEW w \in Workers, Pop(w) PROVE InvokedInv' /\ AtMostOnce'
  BY <1>3 DEF Pop
<1>4. ASSUME NEW w \in Workers, QuitIdle(w) PROVE InvokedInv' /\ AtMostOnce'
  BY <1>4 DEF QuitIdle
<1>5. ASSUME NEW w \in Workers, Fetch(w) PROVE InvokedInv' /\ AtMostOnce'
  BY <1>5 DEF Fetch
<1>6. ASSUME NEW w \in Workers, FetchMissing(w) PROVE InvokedInv' /\ AtMostOnce'
  BY <1>6 DEF FetchMissing
<1>7. ASSUME NEW w \in Workers, FetchUnreadable(w) PROVE InvokedInv' /\ AtMostOnce'
  BY <1>7 DEF FetchUnreadable
<1>8. ASSUME NEW w \in Workers, Fork(w) PROVE InvokedInv' /\ AtMostOnce'
  BY <1>8 DEF Fork
<1>9. ASSUME NEW w \in Workers, KillHung(w) PROVE InvokedInv' /\ AtMostOnce'
  BY <1>9 DEF KillHung
<1>10. ASSUME NEW w \in Workers, Reap(w) PROVE InvokedInv' /\ AtMostOnce'
  BY <1>10 DEF Reap, HandleJobFailure
<1>11. ASSUME NEW w \in Workers, Heartbeat(w) PROVE InvokedInv' /\ AtMostOnce'
  BY <1>11 DEF Heartbeat
<1>12. ASSUME NEW w \in Workers, Prepare(w) PROVE InvokedInv' /\ AtMostOnce'
  BY <1>12 DEF Prepare, PrepareJobExecution
<1>13. ASSUME NEW w \in Workers, Perform(w) PROVE InvokedInv' /\ AtMostOnce'
  <2>1. /\ hpc[w] = "perform"
        /\ \E next \in {"on_success", "on_failure"} : hpc' = [hpc EXCEPT ![w] = next]
        /\ runs' = [runs EXCEPT ![job[w]] = @ + 1] /\ UNCHANGED <<queue, status, wpc, job>>
    BY <1>13 DEF Perform
  <2>2. job[w] \in Jobs /\ ~(runs[job[w]] > 0) /\ runs[job[w]] \in Nat
    BY <2>1
  <2>3. runs[job[w]] = 0
    BY <2>2
  <2>4. status[job[w]] # "none" /\ job[w] \notin Queued
    BY <2>1, <2>2
  <2>5. wpc[w] \notin {"popped", "fetched"} /\ \A v \in Workers \ {w} : job[v] # job[w]
    BY <2>1, <2>2
  <2>6. AtMostOnce'
    BY <2>1, <2>2, <2>3
  <2>7. InvokedInv'
    BY <2>1, <2>2, <2>3, <2>4, <2>5
  <2> QED BY <2>6, <2>7
<1>14. ASSUME NEW w \in Workers, OnSuccess(w) PROVE InvokedInv' /\ AtMostOnce'
  BY <1>14 DEF OnSuccess, JobHeartbeat
<1>15. ASSUME NEW w \in Workers, RecordSuccess(w) PROVE InvokedInv' /\ AtMostOnce'
  BY <1>15 DEF RecordSuccess, HandleJobSuccess
<1>16. ASSUME NEW w \in Workers, OnFailure(w) PROVE InvokedInv' /\ AtMostOnce'
  BY <1>16 DEF OnFailure, JobHeartbeat
<1>17. ASSUME NEW w \in Workers, RecordFailure(w) PROVE InvokedInv' /\ AtMostOnce'
  BY <1>17 DEF RecordFailure, HandleJobFailure
<1>18. ASSUME NEW w \in Workers, WorkerFails(w) PROVE InvokedInv' /\ AtMostOnce'
  BY <1>18 DEF WorkerFails, Fault
<1>19. ASSUME NEW w \in Workers, MonitorFails(w) PROVE InvokedInv' /\ AtMostOnce'
  BY <1>19 DEF MonitorFails, Fault
<1>20. ASSUME NEW w \in Workers, StopRequested(w) PROVE InvokedInv' /\ AtMostOnce'
  BY <1>20 DEF StopRequested, Fault
<1>21. ASSUME NEW w \in Workers, WorkerCrash(w) PROVE InvokedInv' /\ AtMostOnce'
  BY <1>21 DEF WorkerCrash, Fault
<1>22. ASSUME NEW w \in Workers, PrepareFails(w) PROVE InvokedInv' /\ AtMostOnce'
  BY <1>22 DEF PrepareFails, Fault
<1>23. ASSUME NEW w \in Workers, Hang(w) PROVE InvokedInv' /\ AtMostOnce'
  <2>1. /\ hpc[w] = "perform" /\ hpc' = [hpc EXCEPT ![w] = "hung"]
        /\ runs' = [runs EXCEPT ![job[w]] = @ + 1] /\ UNCHANGED <<queue, status, wpc, job>>
    BY <1>23 DEF Hang, Fault
  <2>2. job[w] \in Jobs /\ ~(runs[job[w]] > 0) /\ runs[job[w]] \in Nat
    BY <2>1
  <2>3. runs[job[w]] = 0
    BY <2>2
  <2>4. status[job[w]] # "none" /\ job[w] \notin Queued
    BY <2>1, <2>2
  <2>5. wpc[w] \notin {"popped", "fetched"} /\ \A v \in Workers \ {w} : job[v] # job[w]
    <3>1. wpc[w] \notin {"popped", "fetched"}
      BY <2>1
    <3>2. ASSUME NEW v \in Workers \ {w} PROVE job[v] # job[w]
      BY <2>1, <2>2, <3>2
    <3> QED BY <3>1, <3>2
  <2>6. AtMostOnce'
    BY <2>1, <2>2, <2>3
  <2>7. InvokedInv'
    BY <2>1, <2>2, <2>3, <2>4, <2>5
  <2> QED BY <2>6, <2>7
<1>24. ASSUME NEW w \in Workers, OnSuccessFails(w) PROVE InvokedInv' /\ AtMostOnce'
  BY <1>24 DEF OnSuccessFails, Fault
<1>25. ASSUME NEW w \in Workers, RecordSuccessFails(w) PROVE InvokedInv' /\ AtMostOnce'
  BY <1>25 DEF RecordSuccessFails, Fault
<1>26. ASSUME NEW w \in Workers, RecordSuccessReplyLost(w) PROVE InvokedInv' /\ AtMostOnce'
  BY <1>26 DEF RecordSuccessReplyLost, HandleJobSuccess, Fault
<1>27. ASSUME NEW w \in Workers, OnFailureFails(w) PROVE InvokedInv' /\ AtMostOnce'
  BY <1>27 DEF OnFailureFails, Fault
<1>28. ASSUME NEW w \in Workers, RecordFailureFails(w) PROVE InvokedInv' /\ AtMostOnce'
  BY <1>28 DEF RecordFailureFails, Fault
<1>29. ASSUME NEW w \in Workers, HorseKilled(w) PROVE InvokedInv' /\ AtMostOnce'
  BY <1>29 DEF HorseKilled, Fault
<1>30. ASSUME NEW w \in Workers, ReapFails(w) PROVE InvokedInv' /\ AtMostOnce'
  BY <1>30 DEF ReapFails, Fault
<1>31. ASSUME NEW w \in Workers, NEW j \in Jobs, CleanMarks(w, j) PROVE InvokedInv' /\ AtMostOnce'
  BY <1>31 DEF CleanMarks, Abandoned
<1>32. ASSUME NEW w \in Workers, NEW j \in Jobs, CleanStarted(w, j)
       PROVE  InvokedInv' /\ AtMostOnce'
  BY <1>32 DEF CleanStarted, Abandoned, HandleJobFailure
<1>33. ASSUME NEW w \in Workers, NEW j \in Jobs, CleanRaises(w, j)
       PROVE  InvokedInv' /\ AtMostOnce'
  BY <1>33 DEF CleanRaises
<1>34. ASSUME NEW w \in Workers, NEW j \in Jobs, CleanIntermediate(w, j)
       PROVE  InvokedInv' /\ AtMostOnce'
  BY <1>34 DEF CleanIntermediate, Stuck
<1>35. ASSUME NEW w \in Workers, NEW j \in Jobs, CleanUnreadable(w, j)
       PROVE  InvokedInv' /\ AtMostOnce'
  BY <1>35 DEF CleanUnreadable
<1>36. ASSUME UNCHANGED vars PROVE InvokedInv' /\ AtMostOnce'
  BY <1>36 DEF vars
<1> QED BY <1>1, <1>2, <1>3, <1>4, <1>5, <1>6, <1>7, <1>8, <1>9, <1>10, <1>11, <1>12, <1>13,
    <1>14, <1>15, <1>16, <1>17, <1>18, <1>19, <1>20, <1>21, <1>22, <1>23, <1>24, <1>25, <1>26,
    <1>27, <1>28, <1>29, <1>30, <1>31, <1>32, <1>33, <1>34, <1>35, <1>36
  DEF Next, WorkerStep, HorseStep, FaultStep, Maintenance

\* No step takes a waiting or started job off the list that tracks it.
LEMMA TrackedStep ==
  ASSUME TypeInv, NoJobLost, [Next]_vars PROVE NoJobLost'
<1> USE ConstantsAssumption DEF TypeInv, TypeOK, ControlInv, Idle, Holding, NoJobLost,
    StartedIsTracked, QueuedIsTracked, Queued, redis, GoWorker, GoHorse
<1>1. ASSUME NEW j \in Jobs, Enqueue(j) PROVE NoJobLost'
  <2>1. queue \in Seq(Jobs) /\ queue' = Append(queue, j) /\ UNCHANGED <<intermediate, started>>
    BY <1>1 DEF Enqueue, PushJob
  <2> Queued = Elements(queue) /\ Queued' = Elements(queue')
    BY DEF Elements
  <2>2. Elements(Append(queue, j)) = Elements(queue) \cup {j}
    BY <2>1, AppendElements
  <2> QED BY <1>1, <2>1, <2>2 DEF Enqueue, PushJob
<1>2. ASSUME NEW j \in Jobs, Expire(j) PROVE NoJobLost'
  BY <1>2 DEF Expire, Fault
<1>3. ASSUME NEW w \in Workers, Pop(w) PROVE NoJobLost'
  <2>1. queue \in Seq(Jobs) /\ queue # <<>> /\ queue' = Tail(queue) /\ UNCHANGED <<status, started>>
    BY <1>3 DEF Pop
  <2> Queued = Elements(queue) /\ Queued' = Elements(queue')
    BY DEF Elements
  <2>2. Queued = Queued' \cup {Head(queue)}
    BY <2>1, TailElements
  <2>3. Movers = Workers => intermediate' = intermediate \cup {Head(queue)}
    BY <1>3 DEF Pop
  <2> QED BY <2>1, <2>2, <2>3
<1>4. ASSUME NEW w \in Workers, QuitIdle(w) PROVE NoJobLost'
  BY <1>4 DEF QuitIdle
<1>5. ASSUME NEW w \in Workers, Fetch(w) PROVE NoJobLost'
  BY <1>5 DEF Fetch
<1>6. ASSUME NEW w \in Workers, FetchMissing(w) PROVE NoJobLost'
  BY <1>6 DEF FetchMissing
<1>7. ASSUME NEW w \in Workers, FetchUnreadable(w) PROVE NoJobLost'
  BY <1>7 DEF FetchUnreadable
<1>8. ASSUME NEW w \in Workers, Fork(w) PROVE NoJobLost'
  BY <1>8 DEF Fork
<1>9. ASSUME NEW w \in Workers, KillHung(w) PROVE NoJobLost'
  BY <1>9 DEF KillHung
<1>10. ASSUME NEW w \in Workers, Reap(w) PROVE NoJobLost'
  <2>1. CASE UNCHANGED redis
    BY <2>1
  <2>2. CASE HandleJobFailure(job[w])
    BY <2>2 DEF HandleJobFailure
  <2> QED BY <1>10, <2>1, <2>2 DEF Reap
<1>11. ASSUME NEW w \in Workers, Heartbeat(w) PROVE NoJobLost'
  BY <1>11 DEF Heartbeat
<1>12. ASSUME NEW w \in Workers, Prepare(w) PROVE NoJobLost'
  BY <1>12 DEF Prepare, PrepareJobExecution
<1>13. ASSUME NEW w \in Workers, Perform(w) PROVE NoJobLost'
  BY <1>13 DEF Perform
<1>14. ASSUME NEW w \in Workers, OnSuccess(w) PROVE NoJobLost'
  BY <1>14 DEF OnSuccess, JobHeartbeat
<1>15. ASSUME NEW w \in Workers, RecordSuccess(w) PROVE NoJobLost'
  BY <1>15 DEF RecordSuccess, HandleJobSuccess
<1>16. ASSUME NEW w \in Workers, OnFailure(w) PROVE NoJobLost'
  BY <1>16 DEF OnFailure, JobHeartbeat
<1>17. ASSUME NEW w \in Workers, RecordFailure(w) PROVE NoJobLost'
  BY <1>17 DEF RecordFailure, HandleJobFailure
<1>18. ASSUME NEW w \in Workers, WorkerFails(w) PROVE NoJobLost'
  BY <1>18 DEF WorkerFails, Fault
<1>19. ASSUME NEW w \in Workers, MonitorFails(w) PROVE NoJobLost'
  BY <1>19 DEF MonitorFails, Fault
<1>20. ASSUME NEW w \in Workers, StopRequested(w) PROVE NoJobLost'
  BY <1>20 DEF StopRequested, Fault
<1>21. ASSUME NEW w \in Workers, WorkerCrash(w) PROVE NoJobLost'
  BY <1>21 DEF WorkerCrash, Fault
<1>22. ASSUME NEW w \in Workers, PrepareFails(w) PROVE NoJobLost'
  BY <1>22 DEF PrepareFails, Fault
<1>23. ASSUME NEW w \in Workers, Hang(w) PROVE NoJobLost'
  BY <1>23 DEF Hang, Fault
<1>24. ASSUME NEW w \in Workers, OnSuccessFails(w) PROVE NoJobLost'
  BY <1>24 DEF OnSuccessFails, Fault
<1>25. ASSUME NEW w \in Workers, RecordSuccessFails(w) PROVE NoJobLost'
  BY <1>25 DEF RecordSuccessFails, Fault
<1>26. ASSUME NEW w \in Workers, RecordSuccessReplyLost(w) PROVE NoJobLost'
  BY <1>26 DEF RecordSuccessReplyLost, HandleJobSuccess, Fault
<1>27. ASSUME NEW w \in Workers, OnFailureFails(w) PROVE NoJobLost'
  BY <1>27 DEF OnFailureFails, Fault
<1>28. ASSUME NEW w \in Workers, RecordFailureFails(w) PROVE NoJobLost'
  BY <1>28 DEF RecordFailureFails, Fault
<1>29. ASSUME NEW w \in Workers, HorseKilled(w) PROVE NoJobLost'
  BY <1>29 DEF HorseKilled, Fault
<1>30. ASSUME NEW w \in Workers, ReapFails(w) PROVE NoJobLost'
  BY <1>30 DEF ReapFails, Fault
<1>31. ASSUME NEW w \in Workers, NEW j \in Jobs, CleanMarks(w, j) PROVE NoJobLost'
  BY <1>31 DEF CleanMarks, Abandoned
<1>32. ASSUME NEW w \in Workers, NEW j \in Jobs, CleanStarted(w, j) PROVE NoJobLost'
  BY <1>32 DEF CleanStarted, Abandoned, HandleJobFailure
<1>33. ASSUME NEW w \in Workers, NEW j \in Jobs, CleanRaises(w, j) PROVE NoJobLost'
  BY <1>33 DEF CleanRaises
<1>34. ASSUME NEW w \in Workers, NEW j \in Jobs, CleanIntermediate(w, j) PROVE NoJobLost'
  BY <1>34 DEF CleanIntermediate, Stuck
<1>35. ASSUME NEW w \in Workers, NEW j \in Jobs, CleanUnreadable(w, j) PROVE NoJobLost'
  BY <1>35 DEF CleanUnreadable
<1>36. ASSUME UNCHANGED vars PROVE NoJobLost'
  BY <1>36 DEF vars
<1> QED BY <1>1, <1>2, <1>3, <1>4, <1>5, <1>6, <1>7, <1>8, <1>9, <1>10, <1>11, <1>12, <1>13,
    <1>14, <1>15, <1>16, <1>17, <1>18, <1>19, <1>20, <1>21, <1>22, <1>23, <1>24, <1>25, <1>26,
    <1>27, <1>28, <1>29, <1>30, <1>31, <1>32, <1>33, <1>34, <1>35, <1>36
  DEF Next, WorkerStep, HorseStep, FaultStep, Maintenance

\* JobBase.enqueue adds the id to the queue.
LEMMA EnqueueQueued ==
  ASSUME TypeInv, NEW j \in Jobs, Enqueue(j) PROVE Queued' = Queued \cup {j}
<1> Queued = Elements(queue) /\ Queued' = Elements(queue')
  BY DEF Elements, Queued
<1>1. queue \in Seq(Jobs) /\ queue' = Append(queue, j)
  BY DEF Enqueue, PushJob, TypeInv, TypeOK
<1>2. Elements(Append(queue, j)) = Elements(queue) \cup {j}
  BY <1>1, AppendElements
<1> QED BY <1>1, <1>2

\* dequeue_any takes the front id off the queue.
LEMMA PopQueued ==
  ASSUME TypeInv, OwnerInv, NEW w \in Workers, Pop(w)
  PROVE  Head(queue) \in Jobs /\ Queued = Queued' \cup {Head(queue)} /\ Head(queue) \notin Queued'
<1> Queued = Elements(queue) /\ Queued' = Elements(queue') /\ OnceEach(queue)
  BY DEF Elements, Queued, OnceEach, OwnerInv, ExclusiveOwner
<1>1. queue \in Seq(Jobs) /\ queue # <<>> /\ queue' = Tail(queue)
  BY DEF Pop, TypeInv, TypeOK
<1> QED BY <1>1, TailElements

\* The worker that holds job j is gone.
Orphaned(j) == \E w \in Workers : job[w] = j /\ wpc[w] \in Gone

\* Where a job of each status may be.
SettledJobs ==
  \A j \in Jobs :
    /\ status[j] = "none" => j \notin intermediate /\ j \notin started
    /\ j \in Queued => /\ status[j] \in {"queued", "expired"}
                       /\ j \notin intermediate /\ j \notin started
    /\ status[j] = "finished" => j \notin intermediate /\ (j \in started => Orphaned(j))

\* Where the job of a worker is, by the worker's and its horse's step.
SettledWorkers ==
  \A w \in Workers :
    /\ wpc[w] \in {"popped", "fetched"} =>
         status[job[w]] \in {"queued", "expired"} /\ job[w] \notin started
    /\ wpc[w] = "monitor" /\ hpc[w] = "prepare" => status[job[w]] \in {"queued", "expired"}
    /\ hpc[w] \in {"perform", "on_success", "record_success"} =>
         job[w] \notin intermediate /\ (wpc[w] = "monitor" => status[job[w]] = "started")
    /\ wpc[w] = "monitor" /\ hpc[w] \in {"on_failure", "record_failure", "hung"} =>
         status[job[w]] # "finished"

SettledInv == SettledJobs /\ SettledWorkers

\* What the following lemmas need of TypeInv.
Shape ==
  /\ status \in [Jobs -> Status] /\ intermediate \subseteq Jobs /\ started \subseteq Jobs
  /\ wpc \in [Workers -> {"loop", "popped", "fetched", "monitor", "heartbeat"} \cup Gone]
  /\ hpc \in [Workers -> {"none", "hung"} \cup Running \cup Exited]
  /\ job \in [Workers -> Jobs \cup {NoJob}] /\ NoJob \notin Jobs
  /\ runs \in [Jobs -> Nat]
  /\ ControlInv

\* The types and the control invariant give the shape.
LEMMA TypeShape == ASSUME TypeInv PROVE Shape
  BY ConstantsAssumption DEF TypeInv, TypeOK, Shape

\* Every step keeps each job where its status says.
LEMMA SettledStep ==
  ASSUME "reply" \notin Faults, TypeInv, OwnerInv, SettledInv, [Next]_vars PROVE SettledInv'
<1>0. Shape
  BY TypeShape
<1> USE <1>0 DEF Shape, ControlInv, Idle, Holding, OwnerInv, ExclusiveOwner, FreshInv,
    SettledInv, SettledJobs, SettledWorkers, Orphaned, redis, GoWorker, GoHorse, Settled, Exited,
    Gone, Running
<1>1. ASSUME NEW j \in Jobs, Enqueue(j) PROVE SettledInv'
  <2>1. /\ status[j] = "none" /\ status' = [status EXCEPT ![j] = "queued"]
        /\ UNCHANGED <<intermediate, started, wpc, hpc, job>>
    BY <1>1 DEF Enqueue, PushJob
  <2>2. Queued' = Queued \cup {j} /\ \A v \in Workers : job[v] # j
    BY <1>1, <2>1, EnqueueQueued
  <2> HIDE DEF ExclusiveOwner, FreshInv
  <2>4. SettledJobs'
    BY <2>1, <2>2
  <2>5. SettledWorkers'
    BY <2>1, <2>2
  <2> QED BY <2>4, <2>5
<1>2. ASSUME NEW j \in Jobs, Expire(j) PROVE SettledInv'
  BY <1>2 DEF Expire, Fault, Queued
<1>3. ASSUME NEW w \in Workers, Pop(w) PROVE SettledInv'
  <2> DEFINE h == Head(queue)
  <2>1. /\ wpc[w] = "loop" /\ wpc' = [wpc EXCEPT ![w] = "popped"]
        /\ job' = [job EXCEPT ![w] = h] /\ UNCHANGED <<status, started, hpc>>
    BY <1>3 DEF Pop
  <2>2. intermediate' = intermediate \cup {h} \/ intermediate' = intermediate
    BY <1>3 DEF Pop
  <2>3. h \in Jobs /\ Queued = Queued' \cup {h} /\ h \notin Queued'
    BY <1>3, PopQueued
  <2>4. job[w] = NoJob /\ hpc[w] = "none"
    BY <2>1
  <2> HIDE DEF h, ExclusiveOwner, FreshInv
  <2>5. status[h] \in {"queued", "expired"} /\ h \notin started
    BY <2>3
  <2>6. SettledJobs'
    BY <2>1, <2>2, <2>3, <2>4, <2>5
  <2>7. SettledWorkers'
    <3> SUFFICES ASSUME NEW v \in Workers
                 PROVE  SettledWorkers!(v)'
      BY DEF SettledWorkers
    <3>1. CASE v = w
      BY <2>1, <2>4, <2>5, <3>1
    <3>2. CASE v # w
      <4>1. job[v] # h
        BY <2>3, <3>2 DEF ExclusiveOwner
      <4> QED BY <2>1, <2>2, <3>2, <4>1
    <3> QED BY <3>1, <3>2
  <2> QED BY <2>6, <2>7
<1>4. ASSUME NEW w \in Workers, QuitIdle(w) PROVE SettledInv'
  BY <1>4 DEF QuitIdle, Queued
<1>5. ASSUME NEW w \in Workers, Fetch(w) PROVE SettledInv'
  BY <1>5 DEF Fetch, Queued
<1>6. ASSUME NEW w \in Workers, FetchMissing(w) PROVE SettledInv'
  BY <1>6 DEF FetchMissing, Queued
<1>7. ASSUME NEW w \in Workers, FetchUnreadable(w) PROVE SettledInv'
  BY <1>7 DEF FetchUnreadable, Queued
<1>8. ASSUME NEW w \in Workers, Fork(w) PROVE SettledInv'
  BY <1>8 DEF Fork, Queued
<1>9. ASSUME NEW w \in Workers, KillHung(w) PROVE SettledInv'
  BY <1>9 DEF KillHung, Queued
<1>10. ASSUME NEW w \in Workers, Reap(w) PROVE SettledInv'
  <2>1. /\ wpc[w] = "monitor" /\ wpc' = [wpc EXCEPT ![w] = "heartbeat"]
        /\ hpc' = [hpc EXCEPT ![w] = "none"] /\ job' = [job EXCEPT ![w] = NoJob]
        /\ UNCHANGED <<queue, intermediate>>
    BY <1>10 DEF Reap, HandleJobFailure
  <2>2. /\ job[w] \in Jobs /\ job[w] \notin Queued /\ Queued' = Queued
        /\ \A v \in Workers \ {w} : job[v] # job[w]
    BY <2>1 DEF Queued
  <2>3. \/ UNCHANGED <<status, started>>
        \/ /\ status[job[w]] \in {"queued", "started"} /\ started' = started \ {job[w]}
           /\ status' = [status EXCEPT ![job[w]] = "failed"]
    BY <1>10 DEF Reap, HandleJobFailure, MustFail
  <2> HIDE DEF ExclusiveOwner, FreshInv
  <2>4. SettledJobs'
    BY <2>1, <2>2, <2>3
  <2>5. SettledWorkers'
    BY <2>1, <2>2, <2>3
  <2> QED BY <2>4, <2>5
<1>11. ASSUME NEW w \in Workers, Heartbeat(w) PROVE SettledInv'
  BY <1>11 DEF Heartbeat, Queued
<1>12. ASSUME NEW w \in Workers, Prepare(w) PROVE SettledInv'
  <2>1. /\ hpc[w] = "prepare" /\ hpc' = [hpc EXCEPT ![w] = "perform"]
        /\ status' = [status EXCEPT ![job[w]] = "started"]
        /\ started' = started \cup {job[w]} /\ intermediate' = intermediate \ {job[w]}
        /\ UNCHANGED <<queue, wpc, job>>
    BY <1>12 DEF Prepare, PrepareJobExecution
  <2>2. /\ job[w] \in Jobs /\ job[w] \notin Queued /\ wpc[w] \in {"monitor"} \cup Gone
        /\ \A v \in Workers \ {w} : job[v] # job[w]
    BY <2>1 DEF Queued
  <2>3. Queued' = Queued
    BY <2>1 DEF Queued
  <2> HIDE DEF ExclusiveOwner, FreshInv
  <2>4. SettledJobs'
    BY <2>1, <2>2, <2>3
  <2>5. SettledWorkers'
    BY <2>1, <2>2, <2>3
  <2> QED BY <2>4, <2>5
<1>13. ASSUME NEW w \in Workers, Perform(w) PROVE SettledInv'
  BY <1>13 DEF Perform, Queued
<1>14. ASSUME NEW w \in Workers, OnSuccess(w) PROVE SettledInv'
  BY <1>14 DEF OnSuccess, JobHeartbeat, Queued
<1>15. ASSUME NEW w \in Workers, RecordSuccess(w) PROVE SettledInv'
  <2>1. /\ hpc[w] = "record_success" /\ hpc' = [hpc EXCEPT ![w] = "exit_0"]
        /\ status' = [status EXCEPT ![job[w]] = "finished"]
        /\ started' = started \ {job[w]} /\ UNCHANGED <<queue, intermediate, wpc, job>>
    BY <1>15 DEF RecordSuccess, HandleJobSuccess
  <2>2. /\ job[w] \in Jobs /\ job[w] \notin Queued /\ wpc[w] \in {"monitor"} \cup Gone
        /\ \A v \in Workers \ {w} : job[v] # job[w]
    BY <2>1 DEF Queued
  <2>3. Queued' = Queued
    BY <2>1 DEF Queued
  <2> HIDE DEF ExclusiveOwner, FreshInv
  <2>4. SettledJobs'
    BY <2>1, <2>2, <2>3
  <2>5. SettledWorkers'
    BY <2>1, <2>2, <2>3
  <2> QED BY <2>4, <2>5
<1>16. ASSUME NEW w \in Workers, OnFailure(w) PROVE SettledInv'
  BY <1>16 DEF OnFailure, JobHeartbeat, Queued
<1>17. ASSUME NEW w \in Workers, RecordFailure(w) PROVE SettledInv'
  <2>1. /\ hpc[w] = "record_failure" /\ \E exit \in Exited : hpc' = [hpc EXCEPT ![w] = exit]
        /\ status' = [status EXCEPT ![job[w]] = "failed"]
        /\ started' = started \ {job[w]} /\ UNCHANGED <<queue, intermediate, wpc, job>>
    BY <1>17 DEF RecordFailure, HandleJobFailure
  <2>2. /\ job[w] \in Jobs /\ job[w] \notin Queued /\ wpc[w] \in {"monitor"} \cup Gone
        /\ \A v \in Workers \ {w} : job[v] # job[w]
    BY <2>1 DEF Queued
  <2>3. Queued' = Queued
    BY <2>1 DEF Queued
  <2> HIDE DEF ExclusiveOwner, FreshInv
  <2>4. SettledJobs'
    BY <2>1, <2>2, <2>3
  <2>5. SettledWorkers'
    BY <2>1, <2>2, <2>3
  <2> QED BY <2>4, <2>5
<1>18. ASSUME NEW w \in Workers, WorkerFails(w) PROVE SettledInv'
  BY <1>18 DEF WorkerFails, Fault, Queued
<1>19. ASSUME NEW w \in Workers, MonitorFails(w) PROVE SettledInv'
  BY <1>19 DEF MonitorFails, Fault, Queued
<1>20. ASSUME NEW w \in Workers, StopRequested(w) PROVE SettledInv'
  BY <1>20 DEF StopRequested, Fault, Queued
<1>21. ASSUME NEW w \in Workers, WorkerCrash(w) PROVE SettledInv'
  BY <1>21 DEF WorkerCrash, Fault, Queued
<1>22. ASSUME NEW w \in Workers, PrepareFails(w) PROVE SettledInv'
  BY <1>22 DEF PrepareFails, Fault, Queued
<1>23. ASSUME NEW w \in Workers, Hang(w) PROVE SettledInv'
  BY <1>23 DEF Hang, Fault, Queued
<1>24. ASSUME NEW w \in Workers, OnSuccessFails(w) PROVE SettledInv'
  BY <1>24 DEF OnSuccessFails, Fault, Queued
<1>25. ASSUME NEW w \in Workers, RecordSuccessFails(w) PROVE SettledInv'
  BY <1>25 DEF RecordSuccessFails, Fault, Queued
<1>26. ASSUME NEW w \in Workers, RecordSuccessReplyLost(w) PROVE SettledInv'
  BY <1>26 DEF RecordSuccessReplyLost, HandleJobSuccess, Fault, Queued
<1>27. ASSUME NEW w \in Workers, OnFailureFails(w) PROVE SettledInv'
  BY <1>27 DEF OnFailureFails, Fault, Queued
<1>28. ASSUME NEW w \in Workers, RecordFailureFails(w) PROVE SettledInv'
  BY <1>28 DEF RecordFailureFails, Fault, Queued
<1>29. ASSUME NEW w \in Workers, HorseKilled(w) PROVE SettledInv'
  BY <1>29 DEF HorseKilled, Fault, Queued
<1>30. ASSUME NEW w \in Workers, ReapFails(w) PROVE SettledInv'
  BY <1>30 DEF ReapFails, Fault, Queued
<1>31. ASSUME NEW w \in Workers, NEW j \in Jobs, CleanMarks(w, j) PROVE SettledInv'
  BY <1>31 DEF CleanMarks, Abandoned, Monitored, Queued
<1>32. ASSUME NEW w \in Workers, NEW j \in Jobs, CleanStarted(w, j) PROVE SettledInv'
  BY <1>32 DEF CleanStarted, Abandoned, HandleJobFailure, Monitored, Queued
<1>33. ASSUME NEW w \in Workers, NEW j \in Jobs, CleanRaises(w, j) PROVE SettledInv'
  BY <1>33 DEF CleanRaises, Queued
<1>34. ASSUME NEW w \in Workers, NEW j \in Jobs, CleanIntermediate(w, j) PROVE SettledInv'
  BY <1>34 DEF CleanIntermediate, Stuck, OnItsWay, Queued
<1>35. ASSUME NEW w \in Workers, NEW j \in Jobs, CleanUnreadable(w, j) PROVE SettledInv'
  BY <1>35 DEF CleanUnreadable, Queued
<1>36. ASSUME UNCHANGED vars PROVE SettledInv'
  BY <1>36 DEF vars, Queued
<1> QED BY <1>1, <1>2, <1>3, <1>4, <1>5, <1>6, <1>7, <1>8, <1>9, <1>10, <1>11, <1>12, <1>13,
    <1>14, <1>15, <1>16, <1>17, <1>18, <1>19, <1>20, <1>21, <1>22, <1>23, <1>24, <1>25, <1>26,
    <1>27, <1>28, <1>29, <1>30, <1>31, <1>32, <1>33, <1>34, <1>35, <1>36
  DEF Next, WorkerStep, HorseStep, FaultStep, Maintenance

\* A step that overwrites an outcome is one for the job of a worker that is gone.
LEMMA StableStep ==
  ASSUME "reply" \notin Faults, TypeInv, OwnerInv, SettledInv, [Next]_vars,
         NEW k \in Jobs, Overwritten(k)
  PROVE  Orphaned(k)
<1>0. Shape
  BY TypeShape
<1> USE <1>0 DEF Shape, ControlInv, Idle, Holding, OwnerInv,
    ExclusiveOwner, SettledInv, SettledJobs, SettledWorkers, Orphaned, Overwritten, redis,
    GoWorker, GoHorse, Settled, Exited, Gone, Running
<1>1. ASSUME NEW j \in Jobs, Enqueue(j) PROVE Orphaned(k)
  BY <1>1 DEF Enqueue, PushJob
<1>2. ASSUME NEW j \in Jobs, Expire(j) PROVE Orphaned(k)
  BY <1>2 DEF Expire, Fault
<1>3. ASSUME NEW w \in Workers, Pop(w) PROVE Orphaned(k)
  BY <1>3 DEF Pop
<1>4. ASSUME NEW w \in Workers, QuitIdle(w) PROVE Orphaned(k)
  BY <1>4 DEF QuitIdle
<1>5. ASSUME NEW w \in Workers, Fetch(w) PROVE Orphaned(k)
  BY <1>5 DEF Fetch
<1>6. ASSUME NEW w \in Workers, FetchMissing(w) PROVE Orphaned(k)
  BY <1>6 DEF FetchMissing
<1>7. ASSUME NEW w \in Workers, FetchUnreadable(w) PROVE Orphaned(k)
  BY <1>7 DEF FetchUnreadable
<1>8. ASSUME NEW w \in Workers, Fork(w) PROVE Orphaned(k)
  BY <1>8 DEF Fork
<1>9. ASSUME NEW w \in Workers, KillHung(w) PROVE Orphaned(k)
  BY <1>9 DEF KillHung
<1>10. ASSUME NEW w \in Workers, Reap(w) PROVE Orphaned(k)
  BY <1>10 DEF Reap, HandleJobFailure, MustFail
<1>11. ASSUME NEW w \in Workers, Heartbeat(w) PROVE Orphaned(k)
  BY <1>11 DEF Heartbeat
<1>12. ASSUME NEW w \in Workers, Prepare(w) PROVE Orphaned(k)
  BY <1>12 DEF Prepare, PrepareJobExecution
<1>13. ASSUME NEW w \in Workers, Perform(w) PROVE Orphaned(k)
  BY <1>13 DEF Perform
<1>14. ASSUME NEW w \in Workers, OnSuccess(w) PROVE Orphaned(k)
  BY <1>14 DEF OnSuccess, JobHeartbeat
<1>15. ASSUME NEW w \in Workers, RecordSuccess(w) PROVE Orphaned(k)
  BY <1>15 DEF RecordSuccess, HandleJobSuccess
<1>16. ASSUME NEW w \in Workers, OnFailure(w) PROVE Orphaned(k)
  BY <1>16 DEF OnFailure, JobHeartbeat
<1>17. ASSUME NEW w \in Workers, RecordFailure(w) PROVE Orphaned(k)
  BY <1>17 DEF RecordFailure, HandleJobFailure
<1>18. ASSUME NEW w \in Workers, WorkerFails(w) PROVE Orphaned(k)
  BY <1>18 DEF WorkerFails, Fault
<1>19. ASSUME NEW w \in Workers, MonitorFails(w) PROVE Orphaned(k)
  BY <1>19 DEF MonitorFails, Fault
<1>20. ASSUME NEW w \in Workers, StopRequested(w) PROVE Orphaned(k)
  BY <1>20 DEF StopRequested, Fault
<1>21. ASSUME NEW w \in Workers, WorkerCrash(w) PROVE Orphaned(k)
  BY <1>21 DEF WorkerCrash, Fault
<1>22. ASSUME NEW w \in Workers, PrepareFails(w) PROVE Orphaned(k)
  BY <1>22 DEF PrepareFails, Fault
<1>23. ASSUME NEW w \in Workers, Hang(w) PROVE Orphaned(k)
  BY <1>23 DEF Hang, Fault
<1>24. ASSUME NEW w \in Workers, OnSuccessFails(w) PROVE Orphaned(k)
  BY <1>24 DEF OnSuccessFails, Fault
<1>25. ASSUME NEW w \in Workers, RecordSuccessFails(w) PROVE Orphaned(k)
  BY <1>25 DEF RecordSuccessFails, Fault
<1>26. ASSUME NEW w \in Workers, RecordSuccessReplyLost(w) PROVE Orphaned(k)
  BY <1>26 DEF RecordSuccessReplyLost, HandleJobSuccess, Fault
<1>27. ASSUME NEW w \in Workers, OnFailureFails(w) PROVE Orphaned(k)
  BY <1>27 DEF OnFailureFails, Fault
<1>28. ASSUME NEW w \in Workers, RecordFailureFails(w) PROVE Orphaned(k)
  BY <1>28 DEF RecordFailureFails, Fault
<1>29. ASSUME NEW w \in Workers, HorseKilled(w) PROVE Orphaned(k)
  BY <1>29 DEF HorseKilled, Fault
<1>30. ASSUME NEW w \in Workers, ReapFails(w) PROVE Orphaned(k)
  BY <1>30 DEF ReapFails, Fault
<1>31. ASSUME NEW w \in Workers, NEW j \in Jobs, CleanMarks(w, j) PROVE Orphaned(k)
  BY <1>31 DEF CleanMarks, Abandoned, Monitored
<1>32. ASSUME NEW w \in Workers, NEW j \in Jobs, CleanStarted(w, j) PROVE Orphaned(k)
  BY <1>32 DEF CleanStarted, Abandoned, HandleJobFailure, Monitored
<1>33. ASSUME NEW w \in Workers, NEW j \in Jobs, CleanRaises(w, j) PROVE Orphaned(k)
  BY <1>33 DEF CleanRaises
<1>34. ASSUME NEW w \in Workers, NEW j \in Jobs, CleanIntermediate(w, j) PROVE Orphaned(k)
  BY <1>34 DEF CleanIntermediate, Stuck, OnItsWay
<1>35. ASSUME NEW w \in Workers, NEW j \in Jobs, CleanUnreadable(w, j) PROVE Orphaned(k)
  BY <1>35 DEF CleanUnreadable
<1>36. ASSUME UNCHANGED vars PROVE Orphaned(k)
  BY <1>36 DEF vars
<1> QED BY <1>1, <1>2, <1>3, <1>4, <1>5, <1>6, <1>7, <1>8, <1>9, <1>10, <1>11, <1>12, <1>13,
    <1>14, <1>15, <1>16, <1>17, <1>18, <1>19, <1>20, <1>21, <1>22, <1>23, <1>24, <1>25, <1>26,
    <1>27, <1>28, <1>29, <1>30, <1>31, <1>32, <1>33, <1>34, <1>35, <1>36
  DEF Next, WorkerStep, HorseStep, FaultStep, Maintenance

\* No worker process dies or loses sight of its horse, no reply is lost.
NoDeaths == Faults \cap {"crash", "monitor", "reply"} = {}

\* Without dying workers every horse is waited for, a successful one has
\* invoked its job, and a job in the hands of a worker that quit is not finished.
ServedInv ==
  \A w \in Workers :
    /\ hpc[w] # "none" => wpc[w] = "monitor"
    /\ hpc[w] \in {"on_success", "record_success"} => runs[job[w]] > 0
    /\ wpc[w] \in Gone /\ job[w] \in Jobs => status[job[w]] # "finished"

\* No fault but a death or a lost monitor separates a horse from its worker.
LEMMA ServedStep ==
  ASSUME NoDeaths, TypeInv, OwnerInv, SettledInv, ServedInv, [Next]_vars PROVE ServedInv'
<1>0. Shape
  BY TypeShape
<1> USE <1>0 DEF Shape, ControlInv, Idle, Holding, OwnerInv,
    ExclusiveOwner, SettledInv, SettledWorkers, ServedInv, redis, GoWorker, GoHorse, Exited,
    Gone, Running, NoDeaths
<1>1. ASSUME NEW j \in Jobs, Enqueue(j) PROVE ServedInv'
  BY <1>1 DEF Enqueue, PushJob
<1>2. ASSUME NEW j \in Jobs, Expire(j) PROVE ServedInv'
  BY <1>2 DEF Expire, Fault
<1>3. ASSUME NEW w \in Workers, Pop(w) PROVE ServedInv'
  BY <1>3 DEF Pop
<1>4. ASSUME NEW w \in Workers, QuitIdle(w) PROVE ServedInv'
  BY <1>4 DEF QuitIdle
<1>5. ASSUME NEW w \in Workers, Fetch(w) PROVE ServedInv'
  BY <1>5 DEF Fetch
<1>6. ASSUME NEW w \in Workers, FetchMissing(w) PROVE ServedInv'
  BY <1>6 DEF FetchMissing
<1>7. ASSUME NEW w \in Workers, FetchUnreadable(w) PROVE ServedInv'
  BY <1>7 DEF FetchUnreadable
<1>8. ASSUME NEW w \in Workers, Fork(w) PROVE ServedInv'
  BY <1>8 DEF Fork
<1>9. ASSUME NEW w \in Workers, KillHung(w) PROVE ServedInv'
  BY <1>9 DEF KillHung
<1>10. ASSUME NEW w \in Workers, Reap(w) PROVE ServedInv'
  BY <1>10 DEF Reap, HandleJobFailure
<1>11. ASSUME NEW w \in Workers, Heartbeat(w) PROVE ServedInv'
  BY <1>11 DEF Heartbeat
<1>12. ASSUME NEW w \in Workers, Prepare(w) PROVE ServedInv'
  BY <1>12 DEF Prepare, PrepareJobExecution
<1>13. ASSUME NEW w \in Workers, Perform(w) PROVE ServedInv'
  BY <1>13 DEF Perform
<1>14. ASSUME NEW w \in Workers, OnSuccess(w) PROVE ServedInv'
  BY <1>14 DEF OnSuccess, JobHeartbeat
<1>15. ASSUME NEW w \in Workers, RecordSuccess(w) PROVE ServedInv'
  BY <1>15 DEF RecordSuccess, HandleJobSuccess
<1>16. ASSUME NEW w \in Workers, OnFailure(w) PROVE ServedInv'
  BY <1>16 DEF OnFailure, JobHeartbeat
<1>17. ASSUME NEW w \in Workers, RecordFailure(w) PROVE ServedInv'
  BY <1>17 DEF RecordFailure, HandleJobFailure
<1>18. ASSUME NEW w \in Workers, WorkerFails(w) PROVE ServedInv'
  <2>1. /\ wpc[w] \in {"loop", "popped", "fetched", "heartbeat"}
        /\ wpc' = [wpc EXCEPT ![w] = "quit"] /\ UNCHANGED <<status, hpc, job, runs>>
    BY <1>18 DEF WorkerFails
  <2>2. hpc[w] = "none"
    BY <2>1
  <2>3. job[w] \in Jobs => status[job[w]] # "finished"
    BY <2>1
  <2> QED BY <2>1, <2>2, <2>3
<1>19. ASSUME NEW w \in Workers, MonitorFails(w) PROVE ServedInv'
  BY <1>19 DEF MonitorFails, Fault
<1>20. ASSUME NEW w \in Workers, StopRequested(w) PROVE ServedInv'
  <2>1. /\ wpc[w] \in {"loop", "popped", "fetched", "heartbeat"}
        /\ wpc' = [wpc EXCEPT ![w] = "quit"] /\ UNCHANGED <<status, hpc, job, runs>>
    BY <1>20 DEF StopRequested
  <2>2. hpc[w] = "none"
    BY <2>1
  <2>3. job[w] \in Jobs => status[job[w]] # "finished"
    BY <2>1
  <2> QED BY <2>1, <2>2, <2>3
<1>21. ASSUME NEW w \in Workers, WorkerCrash(w) PROVE ServedInv'
  BY <1>21 DEF WorkerCrash, Fault
<1>22. ASSUME NEW w \in Workers, PrepareFails(w) PROVE ServedInv'
  BY <1>22 DEF PrepareFails, Fault
<1>23. ASSUME NEW w \in Workers, Hang(w) PROVE ServedInv'
  BY <1>23 DEF Hang, Fault
<1>24. ASSUME NEW w \in Workers, OnSuccessFails(w) PROVE ServedInv'
  BY <1>24 DEF OnSuccessFails, Fault
<1>25. ASSUME NEW w \in Workers, RecordSuccessFails(w) PROVE ServedInv'
  BY <1>25 DEF RecordSuccessFails, Fault
<1>26. ASSUME NEW w \in Workers, RecordSuccessReplyLost(w) PROVE ServedInv'
  BY <1>26 DEF RecordSuccessReplyLost, HandleJobSuccess, Fault
<1>27. ASSUME NEW w \in Workers, OnFailureFails(w) PROVE ServedInv'
  BY <1>27 DEF OnFailureFails, Fault
<1>28. ASSUME NEW w \in Workers, RecordFailureFails(w) PROVE ServedInv'
  BY <1>28 DEF RecordFailureFails, Fault
<1>29. ASSUME NEW w \in Workers, HorseKilled(w) PROVE ServedInv'
  BY <1>29 DEF HorseKilled, Fault
<1>30. ASSUME NEW w \in Workers, ReapFails(w) PROVE ServedInv'
  BY <1>30 DEF ReapFails, Fault
<1>31. ASSUME NEW w \in Workers, NEW j \in Jobs, CleanMarks(w, j) PROVE ServedInv'
  BY <1>31 DEF CleanMarks, Abandoned
<1>32. ASSUME NEW w \in Workers, NEW j \in Jobs, CleanStarted(w, j) PROVE ServedInv'
  BY <1>32 DEF CleanStarted, Abandoned, HandleJobFailure
<1>33. ASSUME NEW w \in Workers, NEW j \in Jobs, CleanRaises(w, j) PROVE ServedInv'
  BY <1>33 DEF CleanRaises
<1>34. ASSUME NEW w \in Workers, NEW j \in Jobs, CleanIntermediate(w, j) PROVE ServedInv'
  BY <1>34 DEF CleanIntermediate, Stuck
<1>35. ASSUME NEW w \in Workers, NEW j \in Jobs, CleanUnreadable(w, j) PROVE ServedInv'
  BY <1>35 DEF CleanUnreadable
<1>36. ASSUME UNCHANGED vars PROVE ServedInv'
  BY <1>36 DEF vars
<1> QED BY <1>1, <1>2, <1>3, <1>4, <1>5, <1>6, <1>7, <1>8, <1>9, <1>10, <1>11, <1>12, <1>13,
    <1>14, <1>15, <1>16, <1>17, <1>18, <1>19, <1>20, <1>21, <1>22, <1>23, <1>24, <1>25, <1>26,
    <1>27, <1>28, <1>29, <1>30, <1>31, <1>32, <1>33, <1>34, <1>35, <1>36
  DEF Next, WorkerStep, HorseStep, FaultStep, Maintenance

\* A step of the life cycle JobService describes, or a stutter.
ServiceStep == [Service!Next]_(Service!vars)

\* Every step of the queue is a step of JobService or leaves its variables alone.
LEMMA RefinementStep ==
  ASSUME NoDeaths, TypeInv, OwnerInv, InvokedInv, SettledInv, ServedInv, [Next]_vars
  PROVE  ServiceStep
<1>0. Shape
  BY TypeShape
<1> USE <1>0 DEF Orphaned, Shape, ControlInv, Idle, Holding,
    OwnerInv, ExclusiveOwner, FreshInv, InvokedInv, SettledInv, SettledJobs, SettledWorkers,
    ServedInv, redis, GoWorker, GoHorse, Settled, Status, Exited, Gone, Running, NoDeaths
<1>1. ASSUME NEW j \in Jobs, Enqueue(j) PROVE ServiceStep
  <2>1. j \in Jobs
    BY <1>1 DEF Enqueue, PushJob
  <2>2. Service!Submit(j) \/ UNCHANGED <<status, runs>>
    BY <1>1, <2>1 DEF Enqueue, PushJob, Service!Submit, Service!Pass, Service!Waiting
  <2> QED BY <2>1, <2>2 DEF ServiceStep, Service!Next, Service!vars
<1>2. ASSUME NEW j \in Jobs, Expire(j) PROVE ServiceStep
  <2>1. j \in Jobs
    BY <1>2 DEF Expire, Fault
  <2>2. Service!Expire(j) \/ UNCHANGED <<status, runs>>
    BY <1>2, <2>1 DEF Expire, Fault, Service!Expire, Service!Pass, Service!Waiting
  <2> QED BY <2>1, <2>2 DEF ServiceStep, Service!Next, Service!vars
<1>3. ASSUME NEW w \in Workers, Pop(w) PROVE ServiceStep
  BY <1>3 DEF Pop, ServiceStep, Service!vars
<1>4. ASSUME NEW w \in Workers, QuitIdle(w) PROVE ServiceStep
  BY <1>4 DEF QuitIdle, ServiceStep, Service!vars
<1>5. ASSUME NEW w \in Workers, Fetch(w) PROVE ServiceStep
  BY <1>5 DEF Fetch, ServiceStep, Service!vars
<1>6. ASSUME NEW w \in Workers, FetchMissing(w) PROVE ServiceStep
  BY <1>6 DEF FetchMissing, ServiceStep, Service!vars
<1>7. ASSUME NEW w \in Workers, FetchUnreadable(w) PROVE ServiceStep
  BY <1>7 DEF FetchUnreadable, ServiceStep, Service!vars
<1>8. ASSUME NEW w \in Workers, Fork(w) PROVE ServiceStep
  BY <1>8 DEF Fork, ServiceStep, Service!vars
<1>9. ASSUME NEW w \in Workers, KillHung(w) PROVE ServiceStep
  BY <1>9 DEF KillHung, ServiceStep, Service!vars
<1>10. ASSUME NEW w \in Workers, Reap(w) PROVE ServiceStep
  <2>1. job[w] \in Jobs
    BY <1>10 DEF Reap, HandleJobFailure, MustFail
  <2>2. Service!Fail(job[w]) \/ UNCHANGED <<status, runs>>
    BY <1>10, <2>1 DEF Reap, HandleJobFailure, MustFail, Service!Fail, Service!Pass,
        Service!Waiting
  <2> QED BY <2>1, <2>2 DEF ServiceStep, Service!Next, Service!vars
<1>11. ASSUME NEW w \in Workers, Heartbeat(w) PROVE ServiceStep
  BY <1>11 DEF Heartbeat, ServiceStep, Service!vars
<1>12. ASSUME NEW w \in Workers, Prepare(w) PROVE ServiceStep
  <2>1. job[w] \in Jobs
    BY <1>12 DEF Prepare, PrepareJobExecution
  <2>2. Service!Start(job[w]) \/ UNCHANGED <<status, runs>>
    BY <1>12, <2>1 DEF Prepare, PrepareJobExecution, Service!Start, Service!Pass,
        Service!Waiting
  <2> QED BY <2>1, <2>2 DEF ServiceStep, Service!Next, Service!vars
<1>13. ASSUME NEW w \in Workers, Perform(w) PROVE ServiceStep
  <2>1. job[w] \in Jobs
    BY <1>13 DEF Perform
  <2>2. Service!Invoke(job[w])
    BY <1>13, <2>1 DEF Perform, Service!Invoke
  <2>3. Service!Next
    BY ONLY <2>1, <2>2 DEF Service!Next, Service!Invoke
  <2> QED BY ONLY <2>3 DEF ServiceStep
<1>14. ASSUME NEW w \in Workers, OnSuccess(w) PROVE ServiceStep
  BY <1>14 DEF OnSuccess, JobHeartbeat, ServiceStep, Service!vars
<1>15. ASSUME NEW w \in Workers, RecordSuccess(w) PROVE ServiceStep
  <2>1. job[w] \in Jobs
    BY <1>15 DEF RecordSuccess, HandleJobSuccess
  <2>2. Service!Finish(job[w]) \/ UNCHANGED <<status, runs>>
    BY <1>15, <2>1 DEF RecordSuccess, HandleJobSuccess, Service!Finish, Service!Pass,
        Service!Waiting
  <2> QED BY <2>1, <2>2 DEF ServiceStep, Service!Next, Service!vars
<1>16. ASSUME NEW w \in Workers, OnFailure(w) PROVE ServiceStep
  BY <1>16 DEF OnFailure, JobHeartbeat, ServiceStep, Service!vars
<1>17. ASSUME NEW w \in Workers, RecordFailure(w) PROVE ServiceStep
  <2>1. job[w] \in Jobs
    BY <1>17 DEF RecordFailure, HandleJobFailure
  <2>2. Service!Fail(job[w]) \/ UNCHANGED <<status, runs>>
    <3>1. status[job[w]] \notin {"none", "finished"}
      BY <1>17, <2>1 DEF RecordFailure
    <3>2. CASE status[job[w]] = "failed"
      BY <1>17, <3>2 DEF RecordFailure, HandleJobFailure
    <3>3. CASE status[job[w]] # "failed"
      BY <1>17, <2>1, <3>1, <3>3 DEF RecordFailure, HandleJobFailure, Service!Fail,
          Service!Pass, Service!Waiting
    <3> QED BY <3>2, <3>3
  <2> QED BY <2>1, <2>2 DEF ServiceStep, Service!Next, Service!vars
<1>18. ASSUME NEW w \in Workers, WorkerFails(w) PROVE ServiceStep
  BY <1>18 DEF WorkerFails, Fault, ServiceStep, Service!vars
<1>19. ASSUME NEW w \in Workers, MonitorFails(w) PROVE ServiceStep
  BY <1>19 DEF MonitorFails, Fault, ServiceStep, Service!vars
<1>20. ASSUME NEW w \in Workers, StopRequested(w) PROVE ServiceStep
  BY <1>20 DEF StopRequested, Fault, ServiceStep, Service!vars
<1>21. ASSUME NEW w \in Workers, WorkerCrash(w) PROVE ServiceStep
  BY <1>21 DEF WorkerCrash, Fault, ServiceStep, Service!vars
<1>22. ASSUME NEW w \in Workers, PrepareFails(w) PROVE ServiceStep
  BY <1>22 DEF PrepareFails, Fault, ServiceStep, Service!vars
<1>23. ASSUME NEW w \in Workers, Hang(w) PROVE ServiceStep
  <2>1. job[w] \in Jobs
    BY <1>23 DEF Hang, Fault
  <2>2. Service!Invoke(job[w])
    BY <1>23, <2>1 DEF Hang, Fault, Service!Invoke
  <2>3. Service!Next
    BY ONLY <2>1, <2>2 DEF Service!Next, Service!Invoke
  <2> QED BY ONLY <2>3 DEF ServiceStep
<1>24. ASSUME NEW w \in Workers, OnSuccessFails(w) PROVE ServiceStep
  BY <1>24 DEF OnSuccessFails, Fault, ServiceStep, Service!vars
<1>25. ASSUME NEW w \in Workers, RecordSuccessFails(w) PROVE ServiceStep
  BY <1>25 DEF RecordSuccessFails, Fault, ServiceStep, Service!vars
<1>26. ASSUME NEW w \in Workers, RecordSuccessReplyLost(w) PROVE ServiceStep
  <2>1. job[w] \in Jobs
    BY <1>26 DEF RecordSuccessReplyLost, HandleJobSuccess, Fault
  <2>2. Service!Finish(job[w]) \/ UNCHANGED <<status, runs>>
    BY <1>26, <2>1 DEF RecordSuccessReplyLost, HandleJobSuccess, Fault, Service!Finish,
        Service!Pass, Service!Waiting
  <2> QED BY <2>1, <2>2 DEF ServiceStep, Service!Next, Service!vars
<1>27. ASSUME NEW w \in Workers, OnFailureFails(w) PROVE ServiceStep
  BY <1>27 DEF OnFailureFails, Fault, ServiceStep, Service!vars
<1>28. ASSUME NEW w \in Workers, RecordFailureFails(w) PROVE ServiceStep
  BY <1>28 DEF RecordFailureFails, Fault, ServiceStep, Service!vars
<1>29. ASSUME NEW w \in Workers, HorseKilled(w) PROVE ServiceStep
  BY <1>29 DEF HorseKilled, Fault, ServiceStep, Service!vars
<1>30. ASSUME NEW w \in Workers, ReapFails(w) PROVE ServiceStep
  BY <1>30 DEF ReapFails, Fault, ServiceStep, Service!vars
<1>31. ASSUME NEW w \in Workers, NEW j \in Jobs, CleanMarks(w, j) PROVE ServiceStep
  <2>1. j \in Jobs
    OBVIOUS
  <2>2. Service!Fail(j) \/ UNCHANGED <<status, runs>>
    <3>1. status[j] \notin {"none", "finished"}
      BY <1>31 DEF CleanMarks, Abandoned
    <3>2. CASE status[j] = "failed"
      BY <1>31, <3>2 DEF CleanMarks, Abandoned
    <3>3. CASE status[j] # "failed"
      BY <1>31, <3>1, <3>3 DEF CleanMarks, Abandoned, Service!Fail, Service!Pass,
          Service!Waiting
    <3> QED BY <3>2, <3>3
  <2> QED BY <2>1, <2>2 DEF ServiceStep, Service!Next, Service!vars
<1>32. ASSUME NEW w \in Workers, NEW j \in Jobs, CleanStarted(w, j) PROVE ServiceStep
  <2>1. j \in Jobs
    OBVIOUS
  <2>2. Service!Fail(j) \/ UNCHANGED <<status, runs>>
    <3>1. status[j] \notin {"none", "finished"}
      BY <1>32 DEF CleanStarted, Abandoned
    <3>2. CASE status[j] = "failed"
      BY <1>32, <3>2 DEF CleanStarted, Abandoned, HandleJobFailure
    <3>3. CASE status[j] # "failed"
      BY <1>32, <3>1, <3>3 DEF CleanStarted, Abandoned, HandleJobFailure, Service!Fail,
          Service!Pass, Service!Waiting
    <3> QED BY <3>2, <3>3
  <2> QED BY <2>1, <2>2 DEF ServiceStep, Service!Next, Service!vars
<1>33. ASSUME NEW w \in Workers, NEW j \in Jobs, CleanRaises(w, j) PROVE ServiceStep
  BY <1>33 DEF CleanRaises, ServiceStep, Service!vars
<1>34. ASSUME NEW w \in Workers, NEW j \in Jobs, CleanIntermediate(w, j) PROVE ServiceStep
  <2>1. j \in Jobs
    BY <1>34 DEF CleanIntermediate, Stuck, OnItsWay
  <2>2. Service!Fail(j) \/ UNCHANGED <<status, runs>>
    <3>1. CASE status[j] \in {"expired", "failed"}
      BY <1>34, <3>1 DEF CleanIntermediate, Stuck
    <3>2. CASE status[j] \notin {"expired", "failed"}
      <4>1. status[j] \in {"queued", "started"} /\ status' = [status EXCEPT ![j] = "failed"]
        BY <1>34, <3>2 DEF CleanIntermediate, Stuck
      <4>2. UNCHANGED runs
        BY <1>34 DEF CleanIntermediate
      <4> QED BY <4>1, <4>2 DEF Service!Fail, Service!Pass, Service!Waiting
    <3> QED BY <3>1, <3>2
  <2> QED BY <2>1, <2>2 DEF ServiceStep, Service!Next, Service!vars
<1>35. ASSUME NEW w \in Workers, NEW j \in Jobs, CleanUnreadable(w, j) PROVE ServiceStep
  BY <1>35 DEF CleanUnreadable, ServiceStep, Service!vars
<1>36. ASSUME UNCHANGED vars PROVE ServiceStep
  BY <1>36 DEF vars, ServiceStep, Service!vars
<1> QED BY <1>1, <1>2, <1>3, <1>4, <1>5, <1>6, <1>7, <1>8, <1>9, <1>10, <1>11, <1>12, <1>13,
    <1>14, <1>15, <1>16, <1>17, <1>18, <1>19, <1>20, <1>21, <1>22, <1>23, <1>24, <1>25, <1>26,
    <1>27, <1>28, <1>29, <1>30, <1>31, <1>32, <1>33, <1>34, <1>35, <1>36
  DEF Next, WorkerStep, HorseStep, FaultStep, Maintenance

-----------------------------------------------------------------------------
(* The theorems.                                                           *)

BasicInv == TypeInv /\ OwnerInv /\ InvokedInv /\ AtMostOnce

\* The invariants hold before the first job is enqueued.
LEMMA BasicInit == ASSUME Init PROVE BasicInv /\ SettledInv /\ ServedInv
  BY ConstantsAssumption
  DEF Init, BasicInv, TypeInv, TypeOK, ControlInv, Idle, Holding, OwnerInv, ExclusiveOwner,
      FreshInv, InvokedInv, AtMostOnce, SettledInv, SettledJobs, SettledWorkers, ServedInv,
      Orphaned, Queued, Status, Gone

\* awork and aperform_job keep the types, and no worker performs more than
\* max_jobs jobs.
THEOREM TypeCorrect == Spec => []TypeOK
<1>1. Init => TypeInv
  BY BasicInit DEF BasicInv
<1>2. TypeInv /\ [Next]_vars => TypeInv'
  BY TypeStep
<1>3. TypeInv => TypeOK
  BY DEF TypeInv
<1> QED BY <1>1, <1>2, <1>3, PTL DEF Spec

\* The inductive invariant behind ownership and single invocation.
THEOREM BasicInvariant == Spec => []BasicInv
<1>1. Init => BasicInv
  BY BasicInit
<1>2. BasicInv /\ [Next]_vars => BasicInv'
  BY TypeStep, OwnerStep, InvokedStep DEF BasicInv
<1> QED BY <1>1, <1>2, PTL DEF Spec

\* However workers pop, fork, die and clean up, a popped job has one owner.
THEOREM Exclusive == Spec => []ExclusiveOwner
<1>1. BasicInv => ExclusiveOwner
  BY DEF BasicInv, OwnerInv
<1> QED BY <1>1, BasicInvariant, PTL

\* No job function is invoked twice, for any number of workers and faults.
THEOREM InvokedOnce == Spec => []AtMostOnce
<1>1. BasicInv => AtMostOnce
  BY DEF BasicInv
<1> QED BY <1>1, BasicInvariant, PTL

\* No job is lost between two Redis commands: a started one never, a queued one if
\* all workers use the intermediate list.
THEOREM NothingLost == Spec => []NoJobLost
<1> DEFINE Inv == TypeInv /\ NoJobLost
<1>1. Init => Inv
  BY BasicInit DEF BasicInv, NoJobLost, StartedIsTracked, QueuedIsTracked, Init
<1>2. Inv /\ [Next]_vars => Inv'
  BY TypeStep, TrackedStep
<1>3. Inv => NoJobLost
  OBVIOUS
<1> QED BY <1>1, <1>2, <1>3, PTL DEF Spec

\* If no reply is lost, only the orphaned horse of a worker that is gone can
\* overwrite an outcome.
THEOREM OutcomesStable == "reply" \notin Faults => (Spec => OutcomeStable)
<1> SUFFICES ASSUME "reply" \notin Faults PROVE Spec => OutcomeStable
  OBVIOUS
<1> DEFINE Inv == BasicInv /\ SettledInv
           Kept == \A j \in Jobs :
                     Overwritten(j) => \E w \in Workers : job[w] = j /\ wpc[w] \in Gone
<1>1. Init => Inv
  BY BasicInit
<1>2. Inv /\ [Next]_vars => Inv'
  BY TypeStep, OwnerStep, InvokedStep, SettledStep DEF BasicInv
<1>3. Inv /\ [Next]_vars => [Kept]_vars
  BY StableStep DEF BasicInv, Orphaned
<1> QED BY <1>1, <1>2, <1>3, PTL DEF Spec, OutcomeStable

\* As long as no process dies behind the back of the other, workers, horses and
\* maintenance together implement the life cycle of JobService.
THEOREM Refinement == NoDeaths => (Spec => ImplementsJobService)
<1> SUFFICES ASSUME NoDeaths PROVE Spec => ImplementsJobService
  OBVIOUS
<1> DEFINE Inv == BasicInv /\ SettledInv /\ ServedInv
<1>1. Init => Inv
  BY BasicInit
<1>2. Inv /\ [Next]_vars => Inv'
  BY TypeStep, OwnerStep, InvokedStep, SettledStep, ServedStep DEF BasicInv, NoDeaths
<1>3. Inv /\ [Next]_vars => ServiceStep
  BY RefinementStep DEF BasicInv
<1>4. Init => Service!Init
  BY DEF Init, Service!Init
<1> QED BY <1>1, <1>2, <1>3, <1>4, PTL DEF Spec, ImplementsJobService, Service!Spec, ServiceStep

=============================================================================
