---------------------------- MODULE BacktestJobs ----------------------------
(***************************************************************************)
(* Backtest jobs: the REST handlers that create and delete a job, the      *)
(* in-memory queue of job ids and the single worker task that takes ids    *)
(* from it, runs the engine in a subprocess and writes the outcome.        *)
(*                                                                         *)
(* Each step of the worker is what happens between two of its awaits: a    *)
(* handler or a restart can come between any two.  The queue lives in the  *)
(* process, the rows in PostgreSQL, so only the rows survive a restart.    *)
(* A job id is created once; who owns the job and what the engine computes *)
(* are left out.                                                           *)
(***************************************************************************)
EXTENDS Naturals, Sequences, FiniteSets

CONSTANTS
    Jobs,        \* job ids
    MaxFaults    \* bound: restarts, database errors and other exceptions

ASSUME FaultsAssumption == MaxFaults \in Nat
ASSUME JobsAssumption == IsFiniteSet(Jobs) /\ "nojob" \notin Jobs

VARIABLES
    job,       \* backtest_jobs.status as committed; "none", "deleted": no row
    posting,   \* jobs whose POST handler has committed and not yet put the id
    deleting,  \* jobs whose DELETE handler has checked the status and not yet deleted
    queue,     \* the asyncio.Queue
    worker,    \* the worker task
    faults

jobsVars == <<job, posting, deleting, queue, worker, faults>>

Statuses == {"queued", "running", "completed", "failed"}
Terminal == {"completed", "failed"}
NoRow    == {"none", "deleted"}

\* What the subprocess leaves behind: a JSON object, valid JSON that is no
\* object, anything else on stdout, a non-zero exit code, no exit in time, or
\* an exception on the way (the command not found, a full disk).
Outcomes == {"object", "not_object", "bad_json", "exit_code", "timeout", "exception"}

NoJob == "nojob"
WorkerStates == {"idle", "taken", "loaded", "marked", "prepared", "finished"}
IdleWorker == [pc |-> "idle", job |-> NoJob, outcome |-> "object"]
BusyWorkers == [pc : WorkerStates \ {"idle"}, job : Jobs, outcome : Outcomes]

JobsTypeOK ==
    /\ job \in [Jobs -> Statuses \cup NoRow]
    /\ posting \subseteq Jobs
    /\ deleting \subseteq Jobs
    /\ queue \in Seq(Jobs)
    /\ worker \in {IdleWorker} \cup BusyWorkers
    /\ faults \in Nat

JobsInit ==
    /\ job = [j \in Jobs |-> "none"]
    /\ posting = {}
    /\ deleting = {}
    /\ queue = <<>>
    /\ worker = IdleWorker
    /\ faults = 0

HasRow(j) == job[j] \in Statuses
Fault == faults < MaxFaults /\ faults' = faults + 1

\* UPDATE of the row of the worker's job.  If the row is gone the ORM raises:
\* the session is unusable, so the attempt to record the failure raises too.
UpdateStatus(j, s) ==
    job' = IF HasRow(j) THEN [job EXCEPT ![j] = s] ELSE job

-----------------------------------------------------------------------------
(* REST handlers.                                                          *)

\* POST /run: the row is inserted and committed ...
RunBacktest(j) ==
    /\ job[j] = "none"
    /\ job' = [job EXCEPT ![j] = "queued"]
    /\ posting' = posting \cup {j}
    /\ UNCHANGED <<deleting, queue, worker, faults>>

\* Variant with a bug: a handler that is retried puts the id again.
PutJobAgain(j) ==
    /\ j \in posting
    /\ Len(queue) < 3
    /\ queue' = Append(queue, j)
    /\ UNCHANGED <<job, posting, deleting, worker, faults>>

\* Variant with a bug: put_nowait on a bounded queue drops an id silently.
PutJobBounded(j) ==
    /\ j \in posting
    /\ queue' = IF queue = <<>> THEN <<j>> ELSE queue
    /\ posting' = posting \ {j}
    /\ UNCHANGED <<job, deleting, worker, faults>>

\* ... and only then is its id put into the queue.
PutJob(j) ==
    /\ j \in posting
    /\ queue' = Append(queue, j)
    /\ posting' = posting \ {j}
    /\ UNCHANGED <<job, deleting, worker, faults>>

\* DELETE: 409 if the job is running, as read here ...
CheckDelete(j) ==
    /\ HasRow(j) /\ job[j] # "running"
    /\ j \notin deleting
    /\ deleting' = deleting \cup {j}
    /\ UNCHANGED <<job, posting, queue, worker, faults>>

\* ... and the row is deleted whatever its status is by now.
DeleteJob(j) ==
    /\ j \in deleting
    /\ deleting' = deleting \ {j}
    /\ job' = [job EXCEPT ![j] = "deleted"]
    /\ UNCHANGED <<posting, queue, worker, faults>>

\* A handler fails before its last step: the put never happens, or the delete
\* is rolled back.
FailHandler(j) ==
    /\ j \in posting \cup deleting
    /\ posting' = posting \ {j}
    /\ deleting' = deleting \ {j}
    /\ Fault
    /\ UNCHANGED <<job, queue, worker>>

-----------------------------------------------------------------------------
(* The worker.                                                             *)

\* Variant with a bug: the id stays in the queue until the job is done.
PeekJob ==
    /\ worker.pc = "idle" /\ queue # <<>>
    /\ worker' = [pc |-> "taken", job |-> Head(queue), outcome |-> "object"]
    /\ UNCHANGED <<job, posting, deleting, queue, faults>>

TakeJob ==
    /\ worker.pc = "idle" /\ queue # <<>>
    /\ worker' = [pc |-> "taken", job |-> Head(queue), outcome |-> "object"]
    /\ queue' = Tail(queue)
    /\ UNCHANGED <<job, posting, deleting, faults>>

\* Variant with a bug: no early return for a missing job.
LoadJobUnchecked ==
    /\ worker.pc = "taken"
    /\ worker' = [worker EXCEPT !.pc = "loaded",
                               !.job = IF HasRow(worker.job) THEN worker.job ELSE NoJob]
    /\ UNCHANGED <<job, posting, deleting, queue, faults>>

\* A job without a row is logged as missing and dropped.
LoadJob ==
    /\ worker.pc = "taken"
    /\ worker' = IF HasRow(worker.job) THEN [worker EXCEPT !.pc = "loaded"] ELSE IdleWorker
    /\ UNCHANGED <<job, posting, deleting, queue, faults>>

\* UPDATE and commit of "running", whatever the status is.
MarkRunning ==
    /\ worker.pc = "loaded"
    /\ UpdateStatus(worker.job, "running")
    /\ worker' = IF HasRow(worker.job) THEN [worker EXCEPT !.pc = "marked"] ELSE IdleWorker
    /\ UNCHANGED <<posting, deleting, queue, faults>>

\* The parquet path and the engine's configuration.
PrepareJob ==
    /\ worker.pc = "marked"
    /\ worker' = [worker EXCEPT !.pc = "prepared"]
    /\ UNCHANGED <<job, posting, deleting, queue, faults>>

\* The subprocess ends, or is killed after the timeout.
RunSubprocess ==
    /\ worker.pc = "prepared"
    /\ \E o \in Outcomes : worker' = [worker EXCEPT !.pc = "finished", !.outcome = o]
    /\ UNCHANGED <<job, posting, deleting, queue, faults>>

\* Variant with a bug: a timeout is logged but not recorded.
RecordOutcomeButTimeout ==
    /\ worker.pc = "finished"
    /\ IF worker.outcome = "timeout"
          THEN UNCHANGED job
          ELSE UpdateStatus(worker.job,
                  IF worker.outcome \in {"object", "not_object"} THEN "completed" ELSE "failed")
    /\ worker' = IdleWorker
    /\ UNCHANGED <<posting, deleting, queue, faults>>

\* The outcome is written and committed.  After a result that is no JSON
\* object the log line raises, and the handler of that exception overwrites the
\* completed job.
RecordOutcome ==
    /\ worker.pc = "finished"
    /\ UpdateStatus(worker.job,
                    IF worker.outcome \in {"object", "not_object"} THEN "completed" ELSE "failed")
    /\ worker' = IF worker.outcome = "not_object" /\ HasRow(worker.job)
                    THEN [worker EXCEPT !.outcome = "exception"]
                    ELSE IdleWorker
    /\ UNCHANGED <<posting, deleting, queue, faults>>

\* An exception outside the try block of _process_job (a database error before
\* the job is marked, or anything while its configuration is prepared): the
\* worker logs it and goes on with the next id, the row stays as it is.
AbandonJob ==
    /\ worker.pc \in {"taken", "loaded", "marked"}
    /\ worker' = IdleWorker
    /\ Fault
    /\ UNCHANGED <<job, posting, deleting, queue>>

\* A database error while the outcome is written (the connection is lost, jsonb
\* refuses the NaN that json.loads has accepted): it may or may not be possible
\* to record the failure on the same session.
FailRecording ==
    /\ worker.pc = "finished"
    /\ UNCHANGED job \/ UpdateStatus(worker.job, "failed")
    /\ worker' = IdleWorker
    /\ Fault
    /\ UNCHANGED <<posting, deleting, queue>>

Worker == TakeJob \/ LoadJob \/ MarkRunning \/ PrepareJob \/ RunSubprocess \/ RecordOutcome

\* The process is stopped or dies and starts again with an empty queue; nothing
\* looks for the jobs it had accepted.
Restart ==
    /\ posting' = {}
    /\ deleting' = {}
    /\ queue' = <<>>
    /\ worker' = IdleWorker
    /\ Fault
    /\ UNCHANGED job

JobsNext ==
    \/ \E j \in Jobs : RunBacktest(j) \/ PutJob(j) \/ CheckDelete(j) \/ DeleteJob(j)
                          \/ FailHandler(j)
    \/ Worker \/ AbandonJob \/ FailRecording
    \/ Restart

JobsSpec == JobsInit /\ [][JobsNext]_jobsVars

\* Handlers end and the worker keeps working: both are tasks of one event loop,
\* and the subprocess ends by itself or by its timeout.
JobsFairness ==
    /\ \A j \in Jobs : WF_jobsVars(PutJob(j)) /\ WF_jobsVars(DeleteJob(j))
    /\ WF_jobsVars(Worker)

JobsFairSpec == JobsSpec /\ JobsFairness

-----------------------------------------------------------------------------
(* Properties.                                                             *)

Queued(j) == \E i \in 1..Len(queue) : queue[i] = j

\* A job that the process still has to take up: it has been accepted and waits
\* to be put, to be taken or to be marked.
Scheduled(j) ==
    \/ j \in posting
    \/ Queued(j)
    \/ worker.job = j /\ worker.pc \in {"taken", "loaded"}

\* The worker is between the two commits that bracket a run of j.
Executing(j) == worker.job = j /\ worker.pc \in {"marked", "prepared", "finished"}

\* A job waits in one place only, once: nothing is run twice.
ScheduledOnce ==
    /\ \A i, k \in 1..Len(queue) : queue[i] = queue[k] => i = k
    /\ \A j \in Jobs :
          /\ j \in posting => ~ Queued(j) /\ worker.job # j
          /\ Queued(j) => worker.job # j

\* The life of a job.  The worker marks a job running whatever its status is:
\* that a finished job never runs again, and that none is marked twice, rests
\* on its id being in the queue once.  A completed job may still turn to failed
\* (a result that is no JSON object), a failed one never changes.
JobMoves == {<<"none", "queued">>, <<"queued", "running">>, <<"running", "completed">>,
             <<"running", "failed">>, <<"completed", "failed">>}
JobLife ==
    [][\A j \in Jobs : \/ job'[j] = job[j]
                       \/ <<job[j], job'[j]>> \in JobMoves
                       \/ HasRow(j) /\ job'[j] = "deleted"]_jobsVars

\* Each fault strands at most one running job; without a fault the table says
\* running for no job but the one the worker executes.
Stranded == {j \in Jobs : job[j] = "running" /\ ~ Executing(j)}
RunningIsExecuted == Cardinality(Stranded) <= faults

\* Without a fault no accepted job is forgotten.
QueuedIsScheduled == faults = 0 => \A j \in Jobs : job[j] = "queued" => Scheduled(j)

\* Every accepted job gets an outcome, unless it is deleted or there is a fault.
JobsEnd ==
    \A j \in Jobs :
        job[j] = "queued" ~> (job[j] \in Terminal \cup {"deleted"} \/ faults > 0)

\* The answer to a DELETE promises "cannot delete a running job".
RunningIsNotDeleted == [][\A j \in Jobs : job[j] = "running" => job'[j] # "deleted"]_jobsVars

\* It also says "wait until it completes": a running job does.
RunningCompletes == \A j \in Jobs : job[j] = "running" ~> job[j] # "running"
=============================================================================
