------------------------- MODULE BacktestJobsProofs -------------------------
(***************************************************************************)
(* Proofs about BacktestJobs, for every finite set of jobs and every bound *)
(* on the faults.                                                          *)
(***************************************************************************)
EXTENDS BacktestJobs, FiniteSetTheorems, TLAPS

-----------------------------------------------------------------------------
(* Queues.                                                                 *)

LEMMA AppendElements ==
    ASSUME NEW S, NEW s \in Seq(S), NEW e \in S
    PROVE  /\ Append(s, e) \in Seq(S)
           /\ Len(Append(s, e)) = Len(s) + 1
           /\ Append(s, e)[Len(s) + 1] = e
           /\ \A i \in 1..Len(s) : Append(s, e)[i] = s[i]
OBVIOUS

LEMMA TailElements ==
    ASSUME NEW S, NEW s \in Seq(S), s # <<>>
    PROVE  /\ Tail(s) \in Seq(S)
           /\ Head(s) = s[1] /\ Head(s) \in S
           /\ 1 \in 1..Len(s)
           /\ \A i \in 1..Len(Tail(s)) : i + 1 \in 1..Len(s) /\ Tail(s)[i] = s[i + 1]
OBVIOUS

LEMMA EmptyQueue == <<>> \in Seq(Jobs)
OBVIOUS

-----------------------------------------------------------------------------
(* Type correctness.                                                       *)

LEMMA UpdateType ==
    ASSUME JobsTypeOK, NEW j, NEW s \in Statuses, UpdateStatus(j, s)
    PROVE  job' \in [Jobs -> Statuses \cup NoRow]
BY DEF JobsTypeOK, UpdateStatus

LEMMA WorkerBusy ==
    ASSUME JobsTypeOK, worker.pc # "idle"
    PROVE  worker \in BusyWorkers /\ worker.job \in Jobs /\ worker.outcome \in Outcomes
BY DEF JobsTypeOK, IdleWorker, BusyWorkers

LEMMA HandlerType ==
    ASSUME JobsTypeOK, NEW j \in Jobs,
           RunBacktest(j) \/ PutJob(j) \/ CheckDelete(j) \/ DeleteJob(j) \/ FailHandler(j)
    PROVE  JobsTypeOK'
<1>1. CASE RunBacktest(j)
  BY <1>1 DEF RunBacktest, JobsTypeOK, Statuses
<1>2. CASE PutJob(j)
  <2>1. queue' \in Seq(Jobs)
    BY <1>2, AppendElements DEF PutJob, JobsTypeOK
  <2>2. QED
    BY <1>2, <2>1 DEF PutJob, JobsTypeOK
<1>3. CASE CheckDelete(j)
  BY <1>3 DEF CheckDelete, JobsTypeOK
<1>4. CASE DeleteJob(j)
  BY <1>4 DEF DeleteJob, JobsTypeOK, NoRow
<1>5. CASE FailHandler(j)
  BY <1>5 DEF FailHandler, Fault, JobsTypeOK
<1>6. QED
  BY <1>1, <1>2, <1>3, <1>4, <1>5

LEMMA WorkerType ==
    ASSUME JobsTypeOK, Worker \/ AbandonJob \/ FailRecording
    PROVE  JobsTypeOK'
<1>1. CASE TakeJob
  <2>1. Head(queue) \in Jobs /\ Tail(queue) \in Seq(Jobs)
    BY <1>1, TailElements DEF TakeJob, JobsTypeOK
  <2>2. worker' \in BusyWorkers
    BY <1>1, <2>1 DEF TakeJob, BusyWorkers, WorkerStates, Outcomes
  <2>3. QED
    BY <1>1, <2>1, <2>2 DEF TakeJob, JobsTypeOK
<1>2. CASE LoadJob
  <2>1. worker' \in {IdleWorker} \cup BusyWorkers
    BY <1>2, WorkerBusy DEF LoadJob, BusyWorkers, WorkerStates
  <2>2. QED
    BY <1>2, <2>1 DEF LoadJob, JobsTypeOK
<1>3. CASE MarkRunning
  <2>1. worker' \in {IdleWorker} \cup BusyWorkers
    BY <1>3, WorkerBusy DEF MarkRunning, BusyWorkers, WorkerStates
  <2>2. job' \in [Jobs -> Statuses \cup NoRow]
    BY <1>3, UpdateType DEF MarkRunning, Statuses
  <2>3. QED
    BY <1>3, <2>1, <2>2 DEF MarkRunning, JobsTypeOK
<1>4. CASE PrepareJob
  <2>1. worker' \in BusyWorkers
    BY <1>4, WorkerBusy DEF PrepareJob, BusyWorkers, WorkerStates
  <2>2. QED
    BY <1>4, <2>1 DEF PrepareJob, JobsTypeOK
<1>5. CASE RunSubprocess
  <2>1. worker' \in BusyWorkers
    BY <1>5, WorkerBusy DEF RunSubprocess, BusyWorkers, WorkerStates
  <2>2. QED
    BY <1>5, <2>1 DEF RunSubprocess, JobsTypeOK
<1>6. CASE RecordOutcome
  <2>1. worker' \in {IdleWorker} \cup BusyWorkers
    BY <1>6, WorkerBusy DEF RecordOutcome, BusyWorkers, Outcomes
  <2>2. job' \in [Jobs -> Statuses \cup NoRow]
    BY <1>6, UpdateType DEF RecordOutcome, Statuses
  <2>3. QED
    BY <1>6, <2>1, <2>2 DEF RecordOutcome, JobsTypeOK
<1>7. CASE AbandonJob
  BY <1>7 DEF AbandonJob, Fault, JobsTypeOK
<1>8. CASE FailRecording
  <2>1. job' \in [Jobs -> Statuses \cup NoRow]
    BY <1>8, UpdateType DEF FailRecording, Statuses, JobsTypeOK
  <2>2. QED
    BY <1>8, <2>1 DEF FailRecording, Fault, JobsTypeOK
<1>9. QED
  BY <1>1, <1>2, <1>3, <1>4, <1>5, <1>6, <1>7, <1>8 DEF Worker

\* Rows, queue, handlers and worker keep their types.
THEOREM TypeCorrect == JobsSpec => []JobsTypeOK
<1>1. JobsInit => JobsTypeOK
  BY FaultsAssumption, EmptyQueue DEF JobsInit, JobsTypeOK, NoRow
<1>2. JobsTypeOK /\ [JobsNext]_jobsVars => JobsTypeOK'
  <2> SUFFICES ASSUME JobsTypeOK, [JobsNext]_jobsVars PROVE JobsTypeOK'
    OBVIOUS
  <2>1. CASE UNCHANGED jobsVars
    BY <2>1 DEF jobsVars, JobsTypeOK
  <2>2. CASE Restart
    BY <2>2, EmptyQueue DEF Restart, Fault, JobsTypeOK
  <2>3. CASE \E j \in Jobs : RunBacktest(j) \/ PutJob(j) \/ CheckDelete(j) \/ DeleteJob(j)
                                \/ FailHandler(j)
    BY <2>3, HandlerType
  <2>4. CASE Worker \/ AbandonJob \/ FailRecording
    BY <2>4, WorkerType
  <2>5. QED
    BY <2>1, <2>2, <2>3, <2>4 DEF JobsNext
<1>3. QED
  BY <1>1, <1>2, PTL DEF JobsSpec

-----------------------------------------------------------------------------
(* The life of a job.  The worker writes a status without looking at the    *)
(* one it replaces, so the order of a job's statuses rests on where its id  *)
(* can be: the invariant ties each place to the statuses the row may have   *)
(* while the id is there.                                                   *)

ScheduledIsQueued == \A j \in Jobs : Scheduled(j) => job[j] \in {"queued", "deleted"}

ExecutingIsRunning ==
    \A j \in Jobs :
        Executing(j) =>
            \/ job[j] \in {"running", "deleted"}
            \/ job[j] = "completed" /\ worker.pc = "finished" /\ worker.outcome = "exception"

DeletingHasRow == \A j \in deleting : HasRow(j)

LifeInv == ScheduledOnce /\ ScheduledIsQueued /\ ExecutingIsRunning /\ DeletingHasRow

\* An id that is anywhere in the process belongs to a job that was created.
LEMMA NewJobIsNowhere ==
    ASSUME JobsTypeOK, LifeInv, NEW j \in Jobs, job[j] = "none"
    PROVE  j \notin posting /\ ~ Queued(j) /\ worker.job # j /\ j \notin deleting
<1>1. ~ Scheduled(j) /\ ~ Executing(j)
  BY DEF LifeInv, ScheduledIsQueued, ExecutingIsRunning
<1>2. worker.job # j
  <2>1. worker.pc = "idle" => worker = IdleWorker
    BY DEF JobsTypeOK, BusyWorkers
  <2>2. worker.pc # "idle" => worker.pc \in WorkerStates \ {"idle"}
    BY WorkerBusy DEF BusyWorkers
  <2>3. QED
    BY <1>1, <2>1, <2>2, JobsAssumption DEF IdleWorker, Scheduled, Executing, WorkerStates, NoJob
<1>3. QED
  BY <1>1, <1>2 DEF Scheduled, LifeInv, DeletingHasRow, HasRow, Statuses

LEMMA RunBacktestLife ==
    ASSUME JobsTypeOK, LifeInv, NEW j \in Jobs, RunBacktest(j)
    PROVE  LifeInv'
<1>1. /\ job' = [job EXCEPT ![j] = "queued"] /\ posting' = posting \cup {j}
      /\ UNCHANGED <<deleting, queue, worker>>
  BY DEF RunBacktest
<1>2. j \notin posting /\ ~ Queued(j) /\ worker.job # j /\ j \notin deleting
  BY NewJobIsNowhere DEF RunBacktest
<1>3. \A x \in Jobs : Queued(x)' <=> Queued(x)
  BY <1>1 DEF Queued
<1>4. \A x \in Jobs \ {j} : job'[x] = job[x]
  BY <1>1 DEF JobsTypeOK
<1>5. job'[j] = "queued"
  BY <1>1 DEF JobsTypeOK
<1>6. ScheduledOnce'
  BY <1>1, <1>2, <1>3 DEF LifeInv, ScheduledOnce
<1>7. ScheduledIsQueued'
  BY <1>1, <1>3, <1>4, <1>5 DEF LifeInv, ScheduledIsQueued, Scheduled
<1>8. ExecutingIsRunning'
  BY <1>1, <1>2, <1>4 DEF LifeInv, ExecutingIsRunning, Executing
<1>9. DeletingHasRow'
  BY <1>1, <1>2, <1>4, <1>5 DEF LifeInv, DeletingHasRow, HasRow, JobsTypeOK, Statuses
<1>10. QED
  BY <1>6, <1>7, <1>8, <1>9 DEF LifeInv

LEMMA PutJobLife ==
    ASSUME JobsTypeOK, LifeInv, NEW j \in Jobs, PutJob(j)
    PROVE  LifeInv'
<1>1. /\ j \in posting /\ queue' = Append(queue, j) /\ posting' = posting \ {j}
      /\ UNCHANGED <<job, deleting, worker>>
  BY DEF PutJob
<1>2. /\ Len(queue') = Len(queue) + 1 /\ queue'[Len(queue) + 1] = j
      /\ \A i \in 1..Len(queue) : queue'[i] = queue[i]
      /\ Len(queue) \in Nat
  BY <1>1, AppendElements DEF JobsTypeOK
<1>3. \A x \in Jobs : Queued(x)' <=> Queued(x) \/ x = j
  BY <1>2 DEF Queued
<1>4. ~ Queued(j) /\ worker.job # j
  BY <1>1 DEF LifeInv, ScheduledOnce
<1>5. \A i, k \in 1..Len(queue') : queue'[i] = queue'[k] => i = k
  <2>1. \A i \in 1..Len(queue') : i = Len(queue) + 1 \/ i \in 1..Len(queue)
    BY <1>2
  <2>2. \A i \in 1..Len(queue) : queue'[i] # j
    BY <1>2, <1>4 DEF Queued
  <2>3. QED
    BY <1>2, <2>1, <2>2 DEF LifeInv, ScheduledOnce
<1>6. ScheduledOnce'
  BY <1>1, <1>3, <1>4, <1>5 DEF LifeInv, ScheduledOnce
<1>7. ScheduledIsQueued'
  BY <1>1, <1>3 DEF LifeInv, ScheduledIsQueued, Scheduled
<1>8. ExecutingIsRunning' /\ DeletingHasRow'
  BY <1>1 DEF LifeInv, ExecutingIsRunning, Executing, DeletingHasRow, HasRow
<1>9. QED
  BY <1>6, <1>7, <1>8 DEF LifeInv

LEMMA DeleteLife ==
    ASSUME JobsTypeOK, LifeInv, NEW j \in Jobs, CheckDelete(j) \/ DeleteJob(j) \/ FailHandler(j)
    PROVE  LifeInv'
<1>1. UNCHANGED <<queue, worker>> /\ posting' \subseteq posting
  BY DEF CheckDelete, DeleteJob, FailHandler
<1>2. \A x \in Jobs : Queued(x)' <=> Queued(x)
  BY <1>1 DEF Queued
<1>3. \A x \in Jobs : job'[x] = job[x] \/ (x = j /\ job'[x] = "deleted" /\ x \notin deleting')
  BY DEF CheckDelete, DeleteJob, FailHandler, JobsTypeOK
<1>4. \A x \in deleting' : x \in Jobs /\ (x \in deleting \/ HasRow(x))
  BY DEF CheckDelete, DeleteJob, FailHandler, JobsTypeOK
<1>5. ScheduledOnce'
  BY <1>1, <1>2 DEF LifeInv, ScheduledOnce
<1>6. ScheduledIsQueued'
  BY <1>1, <1>2, <1>3 DEF LifeInv, ScheduledIsQueued, Scheduled
<1>7. ExecutingIsRunning'
  BY <1>1, <1>3 DEF LifeInv, ExecutingIsRunning, Executing
<1>8. DeletingHasRow'
  BY <1>3, <1>4 DEF LifeInv, DeletingHasRow, HasRow
<1>9. QED
  BY <1>5, <1>6, <1>7, <1>8 DEF LifeInv

LEMMA TakeJobLife ==
    ASSUME JobsTypeOK, LifeInv, TakeJob
    PROVE  LifeInv'
<1>0. PICK h \in Jobs : h = Head(queue)
  BY TailElements DEF TakeJob, JobsTypeOK
<1>1. /\ queue # <<>> /\ queue' = Tail(queue)
      /\ worker' = [pc |-> "taken", job |-> h, outcome |-> "object"]
      /\ UNCHANGED <<job, posting, deleting>>
  BY <1>0 DEF TakeJob
<1>2. /\ queue[1] = h /\ h \in Jobs /\ 1 \in 1..Len(queue)
      /\ \A i \in 1..Len(queue') : i \in Nat /\ i >= 1 /\ i + 1 \in 1..Len(queue)
                                     /\ queue'[i] = queue[i + 1]
  BY <1>0, <1>1, TailElements DEF JobsTypeOK
<1>3. \A x \in Jobs : Queued(x)' => Queued(x)
  BY <1>2 DEF Queued
<1>4. Queued(h)
  BY <1>2 DEF Queued
<1>5. ~ Queued(h)'
  <2> SUFFICES ASSUME NEW i \in 1..Len(queue'), queue'[i] = h PROVE FALSE
    BY DEF Queued
  <2>1. queue[i + 1] = queue[1] /\ i + 1 # 1
    BY <1>2
  <2>2. QED
    BY <1>2, <2>1 DEF LifeInv, ScheduledOnce
<1>6. \A i, k \in 1..Len(queue') : queue'[i] = queue'[k] => i = k
  <2> SUFFICES ASSUME NEW i \in 1..Len(queue'), NEW k \in 1..Len(queue'), queue'[i] = queue'[k]
               PROVE  i = k
    OBVIOUS
  <2>1. i + 1 = k + 1
    BY <1>2 DEF LifeInv, ScheduledOnce
  <2>2. QED
    BY <2>1
<1>7. ScheduledOnce'
  BY <1>1, <1>3, <1>4, <1>5, <1>6 DEF LifeInv, ScheduledOnce
<1>8. ScheduledIsQueued'
  BY <1>1, <1>2, <1>3, <1>4 DEF LifeInv, ScheduledIsQueued, Scheduled
<1>9. ExecutingIsRunning' /\ DeletingHasRow'
  BY <1>1 DEF LifeInv, Executing, ExecutingIsRunning, DeletingHasRow, HasRow
<1>10. QED
  BY <1>7, <1>8, <1>9 DEF LifeInv

\* Steps of the worker that leave the queue and the handlers alone, and give
\* the worker's own job one of the statuses that fit its next place.
LEMMA WorkerLife ==
    ASSUME JobsTypeOK, LifeInv, UNCHANGED <<posting, deleting, queue>>,
           \A j \in Jobs : job'[j] = job[j] \/ (worker.job = j /\ HasRow(j) /\ job'[j] \in Statuses),
           \A j \in Jobs :
              worker'.job = j =>
                 /\ worker.job = j
                 /\ Scheduled(j)' => job'[j] \in {"queued", "deleted"}
                 /\ Executing(j)' =>
                       \/ job'[j] \in {"running", "deleted"}
                       \/ job'[j] = "completed" /\ worker'.pc = "finished"
                             /\ worker'.outcome = "exception"
    PROVE  LifeInv'
<1>1. \A x \in Jobs : Queued(x)' <=> Queued(x)
  BY DEF Queued
<1>2. ScheduledOnce'
  BY <1>1 DEF LifeInv, ScheduledOnce
<1>3. ScheduledIsQueued'
  <2> SUFFICES ASSUME NEW j \in Jobs, Scheduled(j)', worker'.job # j
               PROVE  job'[j] \in {"queued", "deleted"}
    BY DEF ScheduledIsQueued
  <2>1. j \in posting \/ Queued(j)
    BY <1>1 DEF Scheduled
  <2>2. worker.job # j /\ Scheduled(j)
    BY <2>1 DEF LifeInv, ScheduledOnce, Scheduled
  <2>3. QED
    BY <2>2 DEF LifeInv, ScheduledIsQueued
<1>4. ExecutingIsRunning'
  BY DEF ExecutingIsRunning, Executing
<1>5. DeletingHasRow'
  <2>1. \A j \in deleting : j \in Jobs
    BY DEF JobsTypeOK
  <2>2. QED
    BY <2>1 DEF LifeInv, DeletingHasRow, HasRow
<1>6. QED
  BY <1>2, <1>3, <1>4, <1>5 DEF LifeInv

LEMMA IdleWorkerLife ==
    ASSUME JobsTypeOK, LifeInv, UNCHANGED <<posting, deleting, queue>>, worker' = IdleWorker,
           \A j \in Jobs : job'[j] = job[j] \/ (worker.job = j /\ HasRow(j) /\ job'[j] \in Statuses)
    PROVE  LifeInv'
<1>1. \A j \in Jobs : worker'.job # j
  BY JobsAssumption DEF IdleWorker, NoJob
<1>2. QED
  BY <1>1, WorkerLife

LEMMA UpdateEffect ==
    ASSUME JobsTypeOK, NEW j \in Jobs, NEW s \in Statuses, UpdateStatus(j, s)
    PROVE  /\ \A x \in Jobs \ {j} : job'[x] = job[x]
           /\ HasRow(j) => job'[j] = s
           /\ ~ HasRow(j) => job' = job
BY DEF UpdateStatus, JobsTypeOK

LEMMA WorkerStepLife ==
    ASSUME JobsTypeOK, LifeInv, Worker \/ AbandonJob \/ FailRecording
    PROVE  LifeInv'
<1>1. CASE TakeJob
  BY <1>1, TakeJobLife
<1>2. CASE LoadJob
  <2>1. UNCHANGED <<job, posting, deleting, queue>> /\ worker.pc = "taken"
    BY <1>2 DEF LoadJob
  <2>2. CASE worker' = IdleWorker
    BY <2>1, <2>2, IdleWorkerLife
  <2>3. CASE worker' = [worker EXCEPT !.pc = "loaded"]
    <3>1. worker'.job = worker.job /\ worker'.pc = "loaded"
      BY <2>1, <2>3, WorkerBusy DEF BusyWorkers
    <3>2. \A j \in Jobs : worker.job = j => job[j] \in {"queued", "deleted"}
      BY <2>1 DEF LifeInv, ScheduledIsQueued, Scheduled
    <3>3. \A j \in Jobs : ~ (Executing(j)' /\ worker'.job = j)
      BY <3>1 DEF Executing
    <3>4. QED
      BY <2>1, <3>1, <3>2, <3>3, WorkerLife
  <2>4. QED
    BY <1>2, <2>2, <2>3 DEF LoadJob
<1>3. CASE MarkRunning
  <2>1. UNCHANGED <<posting, deleting, queue>> /\ worker.pc = "loaded" /\ worker.job \in Jobs
    BY <1>3, WorkerBusy DEF MarkRunning
  <2>2. /\ \A x \in Jobs \ {worker.job} : job'[x] = job[x]
        /\ HasRow(worker.job) => job'[worker.job] = "running"
        /\ ~ HasRow(worker.job) => job' = job
    BY <1>3, <2>1, UpdateEffect DEF MarkRunning, Statuses
  <2>3. \A j \in Jobs : job'[j] = job[j]
                           \/ (worker.job = j /\ HasRow(j) /\ job'[j] = "running")
    BY <2>2
  <2>4. CASE ~ HasRow(worker.job)
    BY <1>3, <2>1, <2>3, <2>4, IdleWorkerLife DEF MarkRunning, Statuses
  <2>5. CASE HasRow(worker.job)
    <3>1. worker'.job = worker.job /\ worker'.pc = "marked"
      BY <1>3, <2>1, <2>5, WorkerBusy DEF MarkRunning, BusyWorkers
    <3>2. \A j \in Jobs : worker'.job = j => job'[j] = "running" /\ worker.job = j
      BY <2>2, <2>5, <3>1
    <3>3. \A j \in Jobs : worker'.job = j => ~ Scheduled(j)'
      <4>1. \A j \in Jobs : worker.job = j => j \notin posting /\ ~ Queued(j)
        BY DEF LifeInv, ScheduledOnce
      <4>2. \A j \in Jobs : Queued(j)' <=> Queued(j)
        BY <2>1 DEF Queued
      <4>3. QED
        BY <2>1, <3>1, <4>1, <4>2 DEF Scheduled
    <3>4. QED
      BY <2>1, <2>3, <3>2, <3>3, WorkerLife DEF Statuses
  <2>6. QED
    BY <2>4, <2>5
<1>4. CASE PrepareJob \/ RunSubprocess
  <2>1. UNCHANGED <<job, posting, deleting, queue>> /\ worker.pc \in {"marked", "prepared"}
    BY <1>4 DEF PrepareJob, RunSubprocess
  <2>2. worker'.job = worker.job /\ worker'.pc \in {"prepared", "finished"}
    BY <1>4, <2>1, WorkerBusy DEF PrepareJob, RunSubprocess, BusyWorkers
  <2>3. \A j \in Jobs : worker.job = j => job[j] \in {"running", "deleted"}
    BY <2>1 DEF LifeInv, ExecutingIsRunning, Executing
  <2>4. \A j \in Jobs : worker'.job = j => ~ Scheduled(j)'
    <3>1. \A j \in Jobs : worker.job = j => j \notin posting /\ ~ Queued(j)
      BY DEF LifeInv, ScheduledOnce
    <3>2. \A j \in Jobs : Queued(j)' <=> Queued(j)
      BY <2>1 DEF Queued
    <3>3. QED
      BY <2>1, <2>2, <3>1, <3>2 DEF Scheduled
  <2>5. QED
    BY <2>1, <2>2, <2>3, <2>4, WorkerLife
<1>5. CASE RecordOutcome
  <2>1. UNCHANGED <<posting, deleting, queue>> /\ worker.pc = "finished" /\ worker.job \in Jobs
    BY <1>5, WorkerBusy DEF RecordOutcome
  <2> DEFINE s == IF worker.outcome \in {"object", "not_object"} THEN "completed" ELSE "failed"
  <2>2. /\ \A x \in Jobs \ {worker.job} : job'[x] = job[x]
        /\ HasRow(worker.job) => job'[worker.job] = s
        /\ ~ HasRow(worker.job) => job' = job
    <3>1. s \in Statuses /\ UpdateStatus(worker.job, s)
      BY <1>5 DEF RecordOutcome, Statuses
    <3>2. QED
      BY <2>1, <3>1, UpdateEffect
  <2>3. \A j \in Jobs : job'[j] = job[j]
                           \/ (worker.job = j /\ HasRow(j) /\ job'[j] \in Statuses)
    BY <2>2 DEF Statuses
  <2>4. CASE worker.outcome = "not_object" /\ HasRow(worker.job)
    <3>1. /\ worker'.job = worker.job /\ worker'.pc = "finished"
          /\ worker'.outcome = "exception"
      BY <1>5, <2>1, <2>4, WorkerBusy DEF RecordOutcome, BusyWorkers
    <3>2. \A j \in Jobs : worker'.job = j => job'[j] = "completed" /\ worker.job = j
      BY <2>2, <2>4, <3>1
    <3>3. \A j \in Jobs : worker'.job = j => ~ Scheduled(j)'
      <4>1. \A j \in Jobs : worker.job = j => j \notin posting /\ ~ Queued(j)
        BY DEF LifeInv, ScheduledOnce
      <4>2. \A j \in Jobs : Queued(j)' <=> Queued(j)
        BY <2>1 DEF Queued
      <4>3. QED
        BY <2>1, <3>1, <4>1, <4>2 DEF Scheduled
    <3>4. QED
      BY <2>1, <2>3, <3>1, <3>2, <3>3, WorkerLife
  <2>5. CASE ~ (worker.outcome = "not_object" /\ HasRow(worker.job))
    BY <1>5, <2>1, <2>3, <2>5, IdleWorkerLife DEF RecordOutcome
  <2>6. QED
    BY <2>4, <2>5
<1>6. CASE AbandonJob
  BY <1>6, IdleWorkerLife DEF AbandonJob
<1>7. CASE FailRecording
  <2>1. worker.job \in Jobs
    BY <1>7, WorkerBusy DEF FailRecording
  <2>2. \A j \in Jobs : job'[j] = job[j] \/ (worker.job = j /\ HasRow(j) /\ job'[j] = "failed")
    BY <1>7, <2>1, UpdateEffect DEF FailRecording, Statuses
  <2>3. QED
    BY <1>7, <2>2, IdleWorkerLife DEF FailRecording, Statuses
<1>8. QED
  BY <1>1, <1>2, <1>3, <1>4, <1>5, <1>6, <1>7 DEF Worker

LEMMA InitLife == JobsInit => LifeInv
BY JobsAssumption
   DEF JobsInit, LifeInv, ScheduledOnce, ScheduledIsQueued, ExecutingIsRunning, DeletingHasRow,
       Scheduled, Executing, Queued, IdleWorker, NoJob

LEMMA StepLife == JobsTypeOK /\ LifeInv /\ [JobsNext]_jobsVars => LifeInv'
<1> SUFFICES ASSUME JobsTypeOK, LifeInv, [JobsNext]_jobsVars PROVE LifeInv'
  OBVIOUS
<1>1. CASE UNCHANGED jobsVars
  BY <1>1 DEF jobsVars, LifeInv, ScheduledOnce, ScheduledIsQueued, ExecutingIsRunning, DeletingHasRow,
              Scheduled, Executing, Queued, HasRow
<1>2. CASE \E j \in Jobs : RunBacktest(j) \/ PutJob(j) \/ CheckDelete(j) \/ DeleteJob(j)
                              \/ FailHandler(j)
  BY <1>2, RunBacktestLife, PutJobLife, DeleteLife
<1>3. CASE Worker \/ AbandonJob \/ FailRecording
  BY <1>3, WorkerStepLife
<1>4. CASE Restart
  <2>1. /\ posting' = {} /\ deleting' = {} /\ queue' = <<>> /\ worker' = IdleWorker
        /\ UNCHANGED job
    BY <1>4 DEF Restart
  <2>2. \A j \in Jobs : ~ Queued(j)' /\ worker'.job # j
    BY <2>1, JobsAssumption DEF Queued, IdleWorker, NoJob
  <2>3. \A j \in Jobs : ~ Scheduled(j)' /\ ~ Executing(j)'
    BY <2>1, <2>2 DEF Scheduled, Executing
  <2>4. ScheduledOnce'
    BY <2>1, <2>2 DEF ScheduledOnce
  <2>5. QED
    BY <2>1, <2>3, <2>4 DEF LifeInv, ScheduledIsQueued, ExecutingIsRunning, DeletingHasRow
<1>5. QED
  BY <1>1, <1>2, <1>3, <1>4 DEF JobsNext

\* The id of a job is in one place of the process at most, and there once.
THEOREM JobsAreScheduledOnce == JobsSpec => []ScheduledOnce
<1>1. LifeInv => ScheduledOnce
  BY DEF LifeInv
<1>2. QED
  BY <1>1, InitLife, StepLife, TypeCorrect, PTL DEF JobsSpec

-----------------------------------------------------------------------------
(* Consequences of the invariant.                                          *)

\* One step of JobLife.
JobStep ==
    \A j \in Jobs : \/ job'[j] = job[j]
                    \/ <<job[j], job'[j]>> \in JobMoves
                    \/ HasRow(j) /\ job'[j] = "deleted"

LEMMA JobLifeStep == JobsTypeOK /\ LifeInv /\ [JobsNext]_jobsVars => JobStep
<1> SUFFICES ASSUME JobsTypeOK, LifeInv, [JobsNext]_jobsVars PROVE JobStep
  OBVIOUS
<1>1. CASE UNCHANGED job
  BY <1>1 DEF JobStep
<1>2. ASSUME NEW j \in Jobs, RunBacktest(j) \/ DeleteJob(j)
      PROVE  JobStep
  <2>1. RunBacktest(j) => job[j] = "none" /\ job' = [job EXCEPT ![j] = "queued"]
    BY DEF RunBacktest
  <2>2. DeleteJob(j) => HasRow(j) /\ job' = [job EXCEPT ![j] = "deleted"]
    BY DEF DeleteJob, LifeInv, DeletingHasRow
  <2>3. QED
    BY <1>2, <2>1, <2>2 DEF JobStep, JobMoves, JobsTypeOK
<1>3. CASE MarkRunning
  <2>1. worker.job \in Jobs /\ worker.pc = "loaded" /\ UpdateStatus(worker.job, "running")
    BY <1>3, WorkerBusy DEF MarkRunning
  <2>2. job[worker.job] \in {"queued", "deleted"}
    BY <2>1 DEF LifeInv, ScheduledIsQueued, Scheduled
  <2>3. QED
    BY <2>1, <2>2, UpdateEffect DEF JobStep, JobMoves, HasRow, Statuses
<1>4. CASE RecordOutcome \/ FailRecording
  <2>1. worker.job \in Jobs /\ worker.pc = "finished"
    BY <1>4, WorkerBusy DEF RecordOutcome, FailRecording
  <2>2. \/ job[worker.job] \in {"running", "deleted"}
        \/ job[worker.job] = "completed" /\ worker.outcome = "exception"
    BY <2>1 DEF LifeInv, ExecutingIsRunning, Executing
  <2>3. \/ UNCHANGED job
        \/ UpdateStatus(worker.job, "failed")
        \/ UpdateStatus(worker.job, "completed") /\ worker.outcome # "exception"
    BY <1>4 DEF RecordOutcome, FailRecording
  <2>4. QED
    BY <2>1, <2>2, <2>3, UpdateEffect DEF JobStep, JobMoves, HasRow, Statuses
<1>5. QED
  BY <1>1, <1>2, <1>3, <1>4
     DEF JobsNext, jobsVars, PutJob, CheckDelete, FailHandler, Worker, TakeJob, LoadJob, PrepareJob,
         RunSubprocess, AbandonJob, Restart

\* A job is created, marked running and given an outcome in this order, each
\* once, whatever restarts, errors and deletions happen in between.
THEOREM JobsFollowTheirLife == JobsSpec => JobLife
<1>1. JobStep => [JobStep]_jobsVars
  OBVIOUS
<1>2. QED
  BY <1>1, InitLife, StepLife, JobLifeStep, TypeCorrect, PTL DEF JobsSpec, JobLife, JobStep

LEMMA FaultCounts ==
    ASSUME JobsTypeOK, Fault PROVE faults' = faults + 1 /\ faults' # 0
BY DEF JobsTypeOK, Fault

LEMMA QueuedStep ==
    JobsTypeOK /\ LifeInv /\ QueuedIsScheduled /\ [JobsNext]_jobsVars => QueuedIsScheduled'
<1> SUFFICES ASSUME JobsTypeOK, QueuedIsScheduled, [JobsNext]_jobsVars,
                    faults' = 0, NEW j \in Jobs, job'[j] = "queued"
             PROVE  Scheduled(j)'
  BY DEF QueuedIsScheduled
<1>1. ~ Fault
  BY FaultCounts
<1>2. CASE UNCHANGED jobsVars
  BY <1>2 DEF jobsVars, QueuedIsScheduled, Scheduled, Queued
<1>3. ASSUME NEW x \in Jobs, RunBacktest(x)
      PROVE  Scheduled(j)'
  <2>1. CASE j = x
    BY <1>3, <2>1 DEF RunBacktest, Scheduled
  <2>2. CASE j # x
    BY <1>3, <2>2 DEF RunBacktest, Scheduled, Queued, QueuedIsScheduled, JobsTypeOK
  <2>3. QED
    BY <2>1, <2>2
<1>4. ASSUME NEW x \in Jobs, PutJob(x)
      PROVE  Scheduled(j)'
  <2>1. /\ queue' = Append(queue, x) /\ queue \in Seq(Jobs) /\ posting' = posting \ {x}
        /\ UNCHANGED <<job, worker, faults>>
    BY <1>4 DEF PutJob, JobsTypeOK
  <2>2. Queued(x)' /\ (Queued(j) => Queued(j)')
    BY <2>1, AppendElements DEF Queued
  <2>3. Scheduled(j)
    BY <2>1 DEF QueuedIsScheduled
  <2>4. QED
    BY <2>1, <2>2, <2>3 DEF Scheduled
<1>5. ASSUME NEW x \in Jobs, CheckDelete(x) \/ DeleteJob(x)
      PROVE  Scheduled(j)'
  <2>1. UNCHANGED <<posting, queue, worker, faults>>
    BY <1>5 DEF CheckDelete, DeleteJob
  <2>2. job[j] = "queued"
    BY <1>5 DEF CheckDelete, DeleteJob, JobsTypeOK
  <2>3. QED
    BY <2>1, <2>2 DEF QueuedIsScheduled, Scheduled, Queued
<1>6. CASE TakeJob
  <2>1. /\ queue \in Seq(Jobs) /\ queue # <<>> /\ queue' = Tail(queue)
        /\ worker'.job = Head(queue) /\ worker'.pc = "taken" /\ worker.pc = "idle"
        /\ UNCHANGED <<job, posting, faults>>
    BY <1>6 DEF TakeJob, JobsTypeOK
  <2>2. Queued(j) => Queued(j)' \/ worker'.job = j
    <3>1. ASSUME NEW i \in 1..Len(queue), queue[i] = j, i # 1
          PROVE  Queued(j)'
      <4>1. i - 1 \in 1..Len(queue') /\ queue'[i - 1] = queue[i]
        BY <2>1, <3>1
      <4>2. QED
        BY <3>1, <4>1 DEF Queued
    <3>2. QED
      BY <2>1, <3>1, TailElements DEF Queued
  <2>3. QED
    BY <2>1, <2>2 DEF QueuedIsScheduled, Scheduled
<1>7. CASE LoadJob \/ MarkRunning
  <2>1. UNCHANGED <<posting, queue, faults>> /\ worker.job \in Jobs
    BY <1>7, WorkerBusy DEF LoadJob, MarkRunning
  <2>2. job[j] = "queued"
    BY <1>7, <2>1, UpdateEffect DEF LoadJob, MarkRunning, Statuses
  <2>3. CASE worker.job = j
    <3>1. HasRow(j)
      BY <2>2 DEF HasRow, Statuses
    <3>2. LoadJob
      BY <1>7, <2>1, <2>3, <3>1, UpdateEffect DEF MarkRunning, Statuses
    <3>3. worker'.job = j /\ worker'.pc = "loaded"
      BY <2>3, <3>1, <3>2, WorkerBusy DEF LoadJob, BusyWorkers
    <3>4. QED
      BY <3>3 DEF Scheduled
  <2>4. QED
    BY <2>1, <2>2, <2>3 DEF QueuedIsScheduled, Scheduled, Queued
<1>8. CASE PrepareJob \/ RunSubprocess \/ RecordOutcome
  <2>1. UNCHANGED <<posting, queue, faults>>
        /\ worker.pc \in {"marked", "prepared", "finished"} /\ worker.job \in Jobs
    BY <1>8, WorkerBusy DEF PrepareJob, RunSubprocess, RecordOutcome
  <2>2. job[j] = "queued"
    BY <1>8, <2>1, UpdateEffect DEF PrepareJob, RunSubprocess, RecordOutcome, Statuses
  <2>3. QED
    BY <2>1, <2>2 DEF QueuedIsScheduled, Scheduled, Queued
<1>9. QED
  BY <1>1, <1>2, <1>3, <1>4, <1>5, <1>6, <1>7, <1>8
     DEF JobsNext, Worker, FailHandler, AbandonJob, FailRecording, Restart

\* As long as nothing fails, every accepted job is on its way to the worker.
THEOREM NoJobIsForgotten == JobsSpec => []QueuedIsScheduled
<1>1. JobsInit => QueuedIsScheduled
  BY DEF JobsInit, QueuedIsScheduled
<1>2. QED
  BY <1>1, InitLife, StepLife, QueuedStep, TypeCorrect, PTL DEF JobsSpec

\* A step strands no job, or is a fault and strands the worker's job at most.
LEMMA StrandedStep ==
    ASSUME JobsTypeOK, LifeInv, [JobsNext]_jobsVars
    PROVE  \/ Stranded' \subseteq Stranded /\ faults' = faults
           \/ Stranded' \subseteq Stranded \cup {worker.job} /\ faults' = faults + 1
<1>1. CASE UNCHANGED jobsVars
  BY <1>1 DEF jobsVars, Stranded, Executing
<1>2. ASSUME NEW x \in Jobs, RunBacktest(x) \/ PutJob(x) \/ CheckDelete(x) \/ DeleteJob(x)
      PROVE  Stranded' \subseteq Stranded /\ faults' = faults
  <2>1. UNCHANGED <<worker, faults>>
    BY <1>2 DEF RunBacktest, PutJob, CheckDelete, DeleteJob
  <2>2. \A j \in Jobs : job'[j] = "running" => job[j] = "running"
    BY <1>2 DEF RunBacktest, PutJob, CheckDelete, DeleteJob, JobsTypeOK
  <2>3. QED
    BY <2>1, <2>2 DEF Stranded, Executing
<1>3. CASE TakeJob \/ LoadJob \/ PrepareJob \/ RunSubprocess
  <2>1. UNCHANGED <<job, faults>>
    BY <1>3 DEF TakeJob, LoadJob, PrepareJob, RunSubprocess
  <2>2. \A j \in Jobs : Executing(j) => Executing(j)'
    BY <1>3, WorkerBusy DEF TakeJob, LoadJob, PrepareJob, RunSubprocess, Executing, BusyWorkers
  <2>3. QED
    BY <2>1, <2>2 DEF Stranded
<1>4. CASE MarkRunning
  <2>1. worker.job \in Jobs /\ UpdateStatus(worker.job, "running") /\ worker.pc = "loaded"
        /\ UNCHANGED faults
    BY <1>4, WorkerBusy DEF MarkRunning
  <2>2. HasRow(worker.job) => worker'.job = worker.job /\ worker'.pc = "marked"
    BY <1>4, WorkerBusy DEF MarkRunning, BusyWorkers
  <2>3. \A j \in Jobs : job'[j] = "running" /\ job[j] # "running" => Executing(j)'
    BY <2>1, <2>2, UpdateEffect DEF Executing, Statuses
  <2>4. \A j \in Jobs : ~ Executing(j)
    BY <2>1 DEF Executing
  <2>5. QED
    BY <2>1, <2>3, <2>4 DEF Stranded
<1>5. CASE RecordOutcome
  <2>1. worker.job \in Jobs /\ UNCHANGED faults
    BY <1>5, WorkerBusy DEF RecordOutcome
  <2>2. /\ \A x \in Jobs \ {worker.job} : job'[x] = job[x]
        /\ job'[worker.job] # "running"
    <3>1. \E s \in {"completed", "failed"} : UpdateStatus(worker.job, s)
      BY <1>5 DEF RecordOutcome
    <3>2. QED
      BY <2>1, <3>1, UpdateEffect DEF HasRow, Statuses
  <2>3. \A x \in Jobs \ {worker.job} : ~ Executing(x)
    BY DEF Executing
  <2>4. QED
    BY <2>1, <2>2, <2>3 DEF Stranded
<1>6. CASE AbandonJob \/ FailRecording \/ Restart \/ \E x \in Jobs : FailHandler(x)
  <2>1. faults' = faults + 1
    BY <1>6, FaultCounts DEF AbandonJob, FailRecording, Restart, FailHandler
  <2>2. \A j \in Jobs : job'[j] = "running" => job[j] = "running"
    <3>1. CASE FailRecording
      BY <3>1, WorkerBusy, UpdateEffect DEF FailRecording, Statuses
    <3>2. QED
      BY <1>6, <3>1 DEF AbandonJob, Restart, FailHandler
  <2>3. \A j \in Jobs \ {worker.job} : ~ Executing(j)
    BY DEF Executing
  <2>4. QED
    BY <2>1, <2>2, <2>3 DEF Stranded
<1>7. QED
  BY <1>1, <1>2, <1>3, <1>4, <1>5, <1>6 DEF JobsNext, Worker

\* Every job that the table calls running without the worker executing it is
\* the price of a fault of its own.
THEOREM FaultsStrandJobs == JobsSpec => []RunningIsExecuted
<1>1. \A S : S \in SUBSET Jobs => IsFiniteSet(S) /\ Cardinality(S) \in Nat
  BY JobsAssumption, FS_Subset, FS_CardinalityType
<1>2. JobsInit => RunningIsExecuted
  <2>1. JobsInit => Stranded = {} /\ faults = 0
    BY DEF JobsInit, Stranded
  <2>2. QED
    BY <2>1, FS_EmptySet DEF RunningIsExecuted
<1>3. JobsTypeOK /\ LifeInv /\ RunningIsExecuted /\ [JobsNext]_jobsVars => RunningIsExecuted'
  <2> SUFFICES ASSUME JobsTypeOK, LifeInv, RunningIsExecuted, [JobsNext]_jobsVars
               PROVE  RunningIsExecuted'
    OBVIOUS
  <2>1. Stranded \in SUBSET Jobs /\ Stranded' \in SUBSET Jobs /\ faults \in Nat
    BY DEF Stranded, JobsTypeOK
  <2>2. Cardinality(Stranded) \in Nat /\ Cardinality(Stranded') \in Nat /\ IsFiniteSet(Stranded)
    BY <1>1, <2>1
  <2>3. CASE Stranded' \subseteq Stranded /\ faults' = faults
    <3>1. \A T \in SUBSET Stranded : Cardinality(T) <= Cardinality(Stranded)
      BY <2>2, FS_Subset
    <3>2. Cardinality(Stranded') <= Cardinality(Stranded)
      BY <2>3, <3>1
    <3>3. QED
      BY <2>1, <2>2, <2>3, <3>2 DEF RunningIsExecuted
  <2>4. CASE Stranded' \subseteq Stranded \cup {worker.job} /\ faults' = faults + 1
    <3> DEFINE S == Stranded \cup {worker.job}
    <3>1. IsFiniteSet(S) /\ Cardinality(S) <= Cardinality(Stranded) + 1
      <4>1. /\ IsFiniteSet(S)
            /\ \/ Cardinality(S) = Cardinality(Stranded)
               \/ Cardinality(S) = Cardinality(Stranded) + 1
        BY <2>2, FS_AddElement, Zenon
      <4>2. QED
        BY <2>2, <4>1
    <3>2. Cardinality(Stranded') <= Cardinality(S)
      <4>1. Stranded' \in SUBSET S
        BY <2>4
      <4>2. \A T \in SUBSET S : Cardinality(T) <= Cardinality(S)
        BY <3>1, FS_Subset
      <4>3. QED
        BY <4>1, <4>2
    <3>3. Cardinality(S) \in Nat
      BY <3>1, FS_CardinalityType
    <3>4. QED
      BY <2>1, <2>2, <2>4, <3>1, <3>2, <3>3 DEF RunningIsExecuted
  <2>5. QED
    BY <2>3, <2>4, StrandedStep
<1>4. QED
  BY <1>2, <1>3, InitLife, StepLife, TypeCorrect, PTL DEF JobsSpec

-----------------------------------------------------------------------------
(* When a running job is not deleted.  A run shows that RunningIsNotDeleted *)
(* fails when the worker marks a job between the check and the DELETE of    *)
(* its row; it fails in no other way.                                       *)

\* No job that is being deleted is about to be marked.
DeletedApart == \A j \in deleting : ~ (worker.job = j /\ worker.pc = "loaded")

DeletingRests == \A j \in deleting : job[j] # "running"

LEMMA StepRests ==
    ASSUME JobsTypeOK, DeletingRests, DeletedApart, [JobsNext]_jobsVars
    PROVE  DeletingRests'
<1>1. ASSUME NEW j \in Jobs, RunBacktest(j) \/ DeleteJob(j)
      PROVE  DeletingRests'
  BY <1>1 DEF RunBacktest, DeleteJob, DeletingRests, JobsTypeOK
<1>2. ASSUME NEW j \in Jobs, PutJob(j) \/ CheckDelete(j) \/ FailHandler(j)
      PROVE  DeletingRests'
  BY <1>2 DEF PutJob, CheckDelete, FailHandler, DeletingRests
<1>3. CASE UNCHANGED <<job, deleting>>
  BY <1>3 DEF DeletingRests
<1>4. TakeJob \/ LoadJob \/ PrepareJob \/ RunSubprocess \/ AbandonJob \/ UNCHANGED jobsVars
         => UNCHANGED <<job, deleting>>
  BY DEF TakeJob, LoadJob, PrepareJob, RunSubprocess, AbandonJob, jobsVars
<1>5. CASE MarkRunning
  <2>1. worker.job \notin deleting /\ UNCHANGED deleting
    BY <1>5 DEF MarkRunning, DeletedApart
  <2>2. \A j \in Jobs : j # worker.job => job'[j] = job[j]
    BY <1>5 DEF MarkRunning, UpdateStatus, JobsTypeOK
  <2>3. deleting \subseteq Jobs
    BY DEF JobsTypeOK
  <2>4. QED
    BY <2>1, <2>2, <2>3 DEF DeletingRests
<1>6. CASE RecordOutcome \/ FailRecording
  <2>1. \A j \in Jobs : job'[j] \in {job[j], "completed", "failed"}
    BY <1>6 DEF RecordOutcome, FailRecording, UpdateStatus, JobsTypeOK
  <2>2. deleting' = deleting /\ deleting \subseteq Jobs
    BY <1>6 DEF RecordOutcome, FailRecording, JobsTypeOK
  <2>3. QED
    BY <2>1, <2>2 DEF DeletingRests
<1>7. CASE Restart
  BY <1>7 DEF Restart, DeletingRests
<1>8. QED
  BY <1>1, <1>2, <1>3, <1>4, <1>5, <1>6, <1>7 DEF JobsNext, Worker

\* As long as no job is marked while its row is being deleted, no running job is
\* deleted: the check of the DELETE handler fails in no other way.
THEOREM ApartRunningStays == JobsSpec /\ []DeletedApart => RunningIsNotDeleted
<1> DEFINE Stays == \A j \in Jobs : job[j] = "running" => job'[j] # "deleted"
<1>1. JobsTypeOK /\ DeletingRests /\ [JobsNext]_jobsVars => [Stays]_jobsVars
  <2> SUFFICES ASSUME JobsTypeOK, DeletingRests, JobsNext PROVE Stays
    OBVIOUS
  <2>1. ASSUME NEW j \in Jobs, DeleteJob(j) PROVE Stays
    BY <2>1 DEF DeleteJob, DeletingRests, JobsTypeOK
  <2>2. ASSUME NEW j \in Jobs, RunBacktest(j) \/ PutJob(j) \/ CheckDelete(j) \/ FailHandler(j)
        PROVE  Stays
    BY <2>2 DEF RunBacktest, PutJob, CheckDelete, FailHandler, JobsTypeOK
  <2>3. CASE Worker \/ AbandonJob \/ FailRecording \/ Restart
    <3>1. CASE UNCHANGED job
      BY <3>1
    <3>2. CASE MarkRunning \/ RecordOutcome \/ FailRecording
      BY <3>2 DEF MarkRunning, RecordOutcome, FailRecording, UpdateStatus, JobsTypeOK
    <3>3. TakeJob \/ LoadJob \/ PrepareJob \/ RunSubprocess \/ AbandonJob \/ Restart
             => UNCHANGED job
      BY DEF TakeJob, LoadJob, PrepareJob, RunSubprocess, AbandonJob, Restart
    <3>4. QED
      BY <2>3, <3>1, <3>2, <3>3 DEF Worker
  <2>4. QED
    BY <2>1, <2>2, <2>3 DEF JobsNext
<1>2. JobsInit => DeletingRests
  BY DEF JobsInit, DeletingRests
<1>3. JobsTypeOK /\ DeletingRests /\ DeletedApart /\ [JobsNext]_jobsVars => DeletingRests'
  BY StepRests
<1>4. QED
  BY <1>1, <1>2, <1>3, TypeCorrect, PTL DEF JobsSpec, RunningIsNotDeleted
=============================================================================
