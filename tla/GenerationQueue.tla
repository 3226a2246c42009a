--------------------------- MODULE GenerationQueue ---------------------------
(***************************************************************************)
(* The life of a generation task in the backend container: the API process *)
(* enqueues, cancels and retries tasks, the scheduler process claims them  *)
(* and supervises one short-lived worker process per task, and each of the *)
(* three writes the same two database rows (task and history) without any  *)
(* coordination but the database.                                          *)
(*                                                                         *)
(* One action is one committed database transaction, or the back-to-back   *)
(* commits of one synchronous helper (the task row and the history row of  *)
(* ctx.task_update, for instance), except where the code reads a row in    *)
(* one step and writes it in a later one: those are separate actions.      *)
(***************************************************************************)
EXTENDS Naturals, FiniteSets

CONSTANTS
  MaxTasks,     \* task ids are 1..MaxTasks, in order of created_at
  Workers,      \* slots for worker processes (and their supervisors)
  Limit,        \* CONCURRENCY_LIMIT
  MaxRestarts,  \* bound: container restarts after the first start
  MaxLost,      \* bound: failed database writes of _record_worker_failure
  MaxCancels,   \* bound: cancel requests
  NoTask        \* the job of a free slot

ASSUME QueueAssumption ==
  /\ MaxTasks \in Nat
  /\ Limit \in Nat
  /\ {MaxRestarts, MaxLost, MaxCancels} \subseteq Nat
  /\ NoTask \notin 1..MaxTasks

VARIABLES
  task,       \* status column of generation_tasks, "none" when there is no row
  payload,    \* is payload_json of the row set?
  history,    \* status column of generation_history, "none" when no row
  request,    \* progress of the run-now request that created the task
  cancelRead, \* status a pending cancel request has read, "none" if there is none
  running,    \* _running_task_ids of the scheduler process
  scan,       \* what is left of queued_tasks in the current tick
  job,        \* the task of each worker slot
  pc,         \* where each worker process is
  seen,       \* task status each worker read when it loaded its row
  apiUp,      \* has the API process passed its lifespan startup?
  schedulerUp,
  restarts, lost, cancels   \* counters for the bounds

rowVars     == <<task, payload, history>>
requestVars == <<request, cancelRead>>
workerVars  == <<job, pc, seen>>
bootVars    == <<apiUp, schedulerUp>>
countVars   == <<restarts, lost, cancels>>
vars == <<rowVars, requestVars, running, scan, workerVars, bootVars, countVars>>

Tasks == 1..MaxTasks

FinalStatuses == {"succeeded", "failed", "cancelled"}
TaskStatuses  == {"none", "queued", "running", "cancel_requested"} \cup FinalStatuses
HistoryStatuses ==
  {"none", "QUEUED", "RUNNING", "FAILED", "PENDING_REVIEW", "DECIDED"}
ResultStatuses == {"PENDING_REVIEW", "DECIDED"}

\* A worker that has not written to its task's rows yet, one that has, and a
\* process that is gone but whose supervisor has not run yet.
SilentPCs == {"booting", "loaded", "nopayload", "planning"}
LivePCs   == SilentPCs \cup {"generating", "saved", "notifying"}
ExitedPCs == {"done", "error"}

Busy(w) == pc[w] # "idle"
Live(w) == pc[w] \in LivePCs

\* The next row the database would create.
Fresh(t) == task[t] = "none" /\ \A u \in Tasks : u < t => task[u] # "none"

-----------------------------------------------------------------------------
TypeOK ==
  /\ task \in [Tasks -> TaskStatuses]
  /\ payload \in [Tasks -> BOOLEAN]
  /\ history \in [Tasks -> HistoryStatuses]
  /\ request \in [Tasks -> {"none", "preview", "queuing"}]
  /\ cancelRead \in [Tasks -> {"none", "queued", "running"}]
  /\ running \subseteq Tasks
  /\ scan \subseteq Tasks
  /\ job \in [Workers -> Tasks \cup {NoTask}]
  /\ pc \in [Workers -> {"idle"} \cup LivePCs \cup ExitedPCs]
  /\ seen \in [Workers -> TaskStatuses]
  /\ apiUp \in BOOLEAN /\ schedulerUp \in BOOLEAN
  /\ restarts \in 0..MaxRestarts
  /\ lost \in 0..MaxLost
  /\ cancels \in 0..MaxCancels

\* An empty database; the container is about to start its two processes.
Init ==
  /\ task = [t \in Tasks |-> "none"]
  /\ payload = [t \in Tasks |-> FALSE]
  /\ history = [t \in Tasks |-> "none"]
  /\ request = [t \in Tasks |-> "none"]
  /\ cancelRead = [t \in Tasks |-> "none"]
  /\ running = {}
  /\ scan = {}
  /\ job = [w \in Workers |-> NoTask]
  /\ pc = [w \in Workers |-> "idle"]
  /\ seen = [w \in Workers |-> "none"]
  /\ apiUp = FALSE /\ schedulerUp = FALSE
  /\ restarts = 0 /\ lost = 0 /\ cancels = 0

-----------------------------------------------------------------------------
(* Container: start.sh starts the scheduler and the API side by side, and  *)
(* stops both when either ends. Both run reset_stuck_tasks_on_startup.     *)

ResetStuckTasksOnStartup ==
  /\ history' = [t \in Tasks |-> IF history[t] = "RUNNING" THEN "FAILED" ELSE history[t]]
  /\ task' = [t \in Tasks |-> IF task[t] = "running" THEN "failed" ELSE task[t]]
  /\ UNCHANGED payload

SchedulerStart ==
  /\ ~schedulerUp
  /\ schedulerUp' = TRUE
  /\ ResetStuckTasksOnStartup
  /\ UNCHANGED <<requestVars, running, scan, workerVars, apiUp, countVars>>

ApiStart ==
  /\ ~apiUp
  /\ apiUp' = TRUE
  /\ ResetStuckTasksOnStartup
  /\ UNCHANGED <<requestVars, running, scan, workerVars, schedulerUp, countVars>>

\* Every process of the container dies; only the database survives.
Restart ==
  /\ restarts < MaxRestarts
  /\ restarts' = restarts + 1
  /\ apiUp' = FALSE /\ schedulerUp' = FALSE
  /\ request' = [t \in Tasks |-> "none"]
  /\ cancelRead' = [t \in Tasks |-> "none"]
  /\ running' = {}
  /\ scan' = {}
  /\ job' = [w \in Workers |-> NoTask]
  /\ pc' = [w \in Workers |-> "idle"]
  /\ seen' = [w \in Workers |-> "none"]
  /\ UNCHANGED <<rowVars, lost, cancels>>

-----------------------------------------------------------------------------
(* API process.                                                            *)

\* trigger_schedule_run_now up to the await: the row is queued, no payload.
RunNow(t) ==
  /\ apiUp
  /\ Fresh(t)
  /\ task' = [task EXCEPT ![t] = "queued"]
  /\ request' = [request EXCEPT ![t] = "preview"]
  /\ UNCHANGED <<payload, history, cancelRead, running, scan, workerVars, bootVars, countVars>>

\* The preview raised or matched no asset.
RunNowPreviewFails(t) ==
  /\ request[t] = "preview"
  /\ task' = [task EXCEPT ![t] = "failed"]
  /\ history' = [history EXCEPT ![t] = "FAILED"]
  /\ request' = [request EXCEPT ![t] = "none"]
  /\ UNCHANGED <<payload, cancelRead, running, scan, workerVars, bootVars, countVars>>

\* The preview succeeded: the first write after the await.
RunNowEnqueue(t) ==
  /\ request[t] = "preview"
  /\ task' = [task EXCEPT ![t] = "queued"]
  /\ payload' = [payload EXCEPT ![t] = TRUE]
  /\ request' = [request EXCEPT ![t] = "queuing"]
  /\ UNCHANGED <<history, cancelRead, running, scan, workerVars, bootVars, countVars>>

\* ... and the second one.
RunNowHistory(t) ==
  /\ request[t] = "queuing"
  /\ history' = [history EXCEPT ![t] = "QUEUED"]
  /\ request' = [request EXCEPT ![t] = "none"]
  /\ UNCHANGED <<task, payload, cancelRead, running, scan, workerVars, bootVars, countVars>>

\* request_cancel reads the row ...
CancelRead(t) ==
  /\ apiUp
  /\ cancels < MaxCancels
  /\ cancelRead[t] = "none"
  /\ task[t] \in {"queued", "running"}
  /\ cancelRead' = [cancelRead EXCEPT ![t] = task[t]]
  /\ cancels' = cancels + 1
  /\ UNCHANGED <<rowVars, request, running, scan, workerVars, bootVars, restarts, lost>>

\* ... and writes it by primary key, whatever it has become.
CancelWrite(t) ==
  /\ cancelRead[t] # "none"
  /\ task' = [task EXCEPT ![t] =
                IF cancelRead[t] = "queued" THEN "cancelled" ELSE "cancel_requested"]
  /\ cancelRead' = [cancelRead EXCEPT ![t] = "none"]
  /\ UNCHANGED <<payload, history, request, running, scan, workerVars, bootVars, countVars>>

\* retry_task: a new row that carries the payload of a finished one.
RetryTask(parent, t) ==
  /\ apiUp
  /\ task[parent] \in FinalStatuses
  /\ Fresh(t)
  /\ task' = [task EXCEPT ![t] = "queued"]
  /\ payload' = [payload EXCEPT ![t] = payload[parent]]
  /\ UNCHANGED <<history, requestVars, running, scan, workerVars, bootVars, countVars>>

\* The user accepts or rejects a result that waits for review.
Decide(t) ==
  /\ apiUp
  /\ history[t] = "PENDING_REVIEW"
  /\ history' = [history EXCEPT ![t] = "DECIDED"]
  /\ UNCHANGED <<task, payload, requestVars, running, scan, workerVars, bootVars, countVars>>

-----------------------------------------------------------------------------
(* Scheduler tick. The production branch of _perform_tick never awaits, so *)
(* supervisors run only between ticks (scan = {}).                         *)

\* Nobody has written the row for 5 minutes. A worker is
\* killed 300 s after it was spawned, so a live one has not written at all.
Stale(t) == \A w \in Workers : job[w] = t => pc[w] \in SilentPCs \cup ExitedPCs

ResetStuckHistory(t) ==
  /\ schedulerUp /\ scan = {}
  /\ history[t] = "RUNNING" /\ Stale(t)
  /\ history' = [history EXCEPT ![t] = "FAILED"]
  /\ UNCHANGED <<task, payload, requestVars, running, scan, workerVars, bootVars, countVars>>

\* Mutant: finds stuck tasks through their history rows.
ResetStuckTaskByHistory(t) ==
  /\ schedulerUp /\ scan = {}
  /\ task[t] = "running" /\ history[t] = "RUNNING" /\ Stale(t)
  /\ task' = [task EXCEPT ![t] = "failed"]
  /\ UNCHANGED <<payload, history, requestVars, running, scan, workerVars, bootVars, countVars>>

\* Mutant: gives a stuck task another try.
ResetStuckTaskRequeues(t) ==
  /\ schedulerUp /\ scan = {}
  /\ task[t] = "running" /\ Stale(t)
  /\ task' = [task EXCEPT ![t] = "queued"]
  /\ UNCHANGED <<payload, history, requestVars, running, scan, workerVars, bootVars, countVars>>

ResetStuckTask(t) ==
  /\ schedulerUp /\ scan = {}
  /\ task[t] = "running" /\ Stale(t)
  /\ task' = [task EXCEPT ![t] = "failed"]
  /\ UNCHANGED <<payload, history, requestVars, running, scan, workerVars, bootVars, countVars>>

\* A schedule is due: its task row is created with its payload.
EnqueueDue(t) ==
  /\ schedulerUp /\ scan = {}
  /\ Fresh(t)
  /\ task' = [task EXCEPT ![t] = "queued"]
  /\ payload' = [payload EXCEPT ![t] = TRUE]
  /\ UNCHANGED <<history, requestVars, running, scan, workerVars, bootVars, countVars>>

QueuedTasks == {t \in Tasks : task[t] = "queued"}

\* The query for queued tasks, ordered by created_at.
ScanQueue ==
  /\ schedulerUp /\ scan = {}
  /\ QueuedTasks # {}
  /\ scan' = QueuedTasks
  /\ UNCHANGED <<rowVars, requestVars, running, workerVars, bootVars, countVars>>

\* The loop takes the tasks of its query one by one, oldest first.
IsNext(t) == t \in scan /\ \A u \in scan : t <= u

\* It skips a task that still has a supervisor.
SkipSupervised(t) ==
  /\ IsNext(t)
  /\ t \in running
  /\ scan' = scan \ {t}
  /\ UNCHANGED <<rowVars, requestVars, running, workerVars, bootVars, countVars>>

\* It ends at the concurrency limit.
StopAtLimit(t) ==
  /\ IsNext(t)
  /\ t \notin running
  /\ Cardinality(running) >= Limit
  /\ scan' = {}
  /\ UNCHANGED <<rowVars, requestVars, running, workerVars, bootVars, countVars>>

\* Mutants: no check for a live supervisor; an UPDATE without its status
\* condition.
MayClaimAgain(t) == Cardinality(running) < Limit
ClaimableAlways(t) == t \in Tasks

\* May the loop try to claim t? And does UPDATE ... WHERE status = 'queued' hit?
MayClaim(t) == t \notin running /\ Cardinality(running) < Limit
Claimable(t) == task[t] = "queued"

ClaimMissed(t) ==
  /\ IsNext(t)
  /\ MayClaim(t) /\ ~Claimable(t)
  /\ scan' = scan \ {t}
  /\ UNCHANGED <<rowVars, requestVars, running, workerVars, bootVars, countVars>>

\* claim_task_if_queued succeeds and a supervisor spawns worker process w.
Claim(t, w) ==
  /\ IsNext(t)
  /\ MayClaim(t) /\ Claimable(t)
  /\ ~Busy(w)
  /\ task' = [task EXCEPT ![t] = "running"]
  /\ running' = running \cup {t}
  /\ job' = [job EXCEPT ![w] = t]
  /\ pc' = [pc EXCEPT ![w] = "booting"]
  /\ scan' = scan \ {t}
  /\ UNCHANGED <<payload, history, requestVars, seen, bootVars, countVars>>

-----------------------------------------------------------------------------
(* Worker process.                                                         *)

Moves(w, from, to) == pc[w] = from /\ pc' = [pc EXCEPT ![w] = to]

WorkerKeeps == UNCHANGED <<requestVars, running, scan, job, bootVars, countVars>>

\* session.get in _run_generation_task: payload and status of this instant.
LoadRow(w) ==
  /\ Moves(w, "booting", "loaded")
  /\ payload[job[w]]
  /\ seen' = [seen EXCEPT ![w] = task[job[w]]]
  /\ UNCHANGED rowVars /\ WorkerKeeps

\* The row had no payload when it was loaded.
LoadRowWithoutPayload(w) ==
  /\ Moves(w, "booting", "nopayload")
  /\ ~payload[job[w]]
  /\ UNCHANGED <<rowVars, seen>> /\ WorkerKeeps

FailWithoutPayload(w) ==
  /\ Moves(w, "nopayload", "error")
  /\ task' = [task EXCEPT ![job[w]] = "failed"]
  /\ UNCHANGED <<payload, history, seen>> /\ WorkerKeeps

\* status = "running" is assigned to the loaded row: SQLAlchemy writes the
\* column only if the loaded value was another one.
Begin(w) ==
  /\ Moves(w, "loaded", "planning")
  /\ task' = IF seen[w] = "running" THEN task ELSE [task EXCEPT ![job[w]] = "running"]
  /\ UNCHANGED <<payload, history, seen>> /\ WorkerKeeps

\* ctx.task_update without a final status overwrites both rows.
WriteRunning(t) ==
  /\ task' = [task EXCEPT ![t] = "running"]
  /\ history' = [history EXCEPT ![t] = "RUNNING"]
  /\ UNCHANGED payload

WriteFailed(t) ==
  /\ task' = [task EXCEPT ![t] = "failed"]
  /\ history' = [history EXCEPT ![t] = "FAILED"]
  /\ UNCHANGED payload

StartPipeline(w) ==
  /\ Moves(w, "planning", "generating")
  /\ WriteRunning(job[w])
  /\ UNCHANGED seen /\ WorkerKeeps

\* Asset selection, effect, AI vision, metadata, saving_result: each step
\* reports its progress.
Progress(w) ==
  /\ Moves(w, "generating", "generating")
  /\ WriteRunning(job[w])
  /\ UNCHANGED seen /\ WorkerKeeps

\* A pipeline failure is recorded and swallowed: the worker returns
\* "completed". In "notifying" it is an exception after the result was saved.
PipelineFails(w) ==
  /\ \E from \in {"generating", "saved", "notifying"} : Moves(w, from, "done")
  /\ WriteFailed(job[w])
  /\ UNCHANGED seen /\ WorkerKeeps

\* An exception outside the pipeline's own handler: run_queued_generation_task
\* records it and returns "failed".
RunFails(w) ==
  /\ \E from \in {"planning", "generating"} : Moves(w, from, "error")
  /\ WriteFailed(job[w])
  /\ UNCHANGED seen /\ WorkerKeeps

\* persist_generation_result: the file, then the history row.
PersistResult(w) ==
  /\ Moves(w, "generating", "saved")
  /\ history' = [history EXCEPT ![job[w]] = "PENDING_REVIEW"]
  /\ UNCHANGED <<task, payload, seen>> /\ WorkerKeeps

Succeed(w) ==
  /\ Moves(w, "saved", "notifying")
  /\ task' = [task EXCEPT ![job[w]] = "succeeded"]
  /\ UNCHANGED <<payload, history, seen>> /\ WorkerKeeps

NotificationsSent(w) ==
  /\ Moves(w, "notifying", "done")
  /\ UNCHANGED <<rowVars, seen>> /\ WorkerKeeps

-----------------------------------------------------------------------------
(* Supervisor: _run_queued_task_in_background.                             *)

\* The process outlives GENERATION_WORKER_TIMEOUT_SECONDS and is killed, or
\* it crashes, or it exits without a result.
WorkerLost(w) ==
  /\ Live(w)
  /\ pc' = [pc EXCEPT ![w] = "error"]
  /\ UNCHANGED <<rowVars, seen>> /\ WorkerKeeps

FreeSlot(w) ==
  /\ running' = running \ {job[w]}
  /\ job' = [job EXCEPT ![w] = NoTask]
  /\ pc' = [pc EXCEPT ![w] = "idle"]
  /\ seen' = [seen EXCEPT ![w] = "none"]

SupervisorKeeps == UNCHANGED <<requestVars, scan, bootVars, restarts, cancels>>

SuperviseDone(w) ==
  /\ pc[w] = "done" /\ scan = {}
  /\ FreeSlot(w)
  /\ UNCHANGED <<rowVars, lost>> /\ SupervisorKeeps

\* _record_worker_failure overwrites both rows.
SuperviseFailure(w) ==
  /\ pc[w] = "error" /\ scan = {}
  /\ WriteFailed(job[w])
  /\ FreeSlot(w)
  /\ UNCHANGED lost /\ SupervisorKeeps

\* ... unless its own write fails, which is only logged.
SuperviseFailureLost(w) ==
  /\ pc[w] = "error" /\ scan = {}
  /\ lost < MaxLost
  /\ lost' = lost + 1
  /\ FreeSlot(w)
  /\ UNCHANGED rowVars /\ SupervisorKeeps

-----------------------------------------------------------------------------
ApiStep ==
  \E t \in Tasks :
    \/ RunNow(t) \/ RunNowPreviewFails(t) \/ RunNowEnqueue(t) \/ RunNowHistory(t)
    \/ CancelRead(t) \/ CancelWrite(t) \/ Decide(t)
    \/ \E parent \in Tasks : RetryTask(parent, t)

TickStep ==
  \/ ScanQueue
  \/ \E t \in Tasks :
       \/ ResetStuckHistory(t) \/ ResetStuckTask(t) \/ EnqueueDue(t)
       \/ SkipSupervised(t) \/ StopAtLimit(t) \/ ClaimMissed(t)
       \/ \E w \in Workers : Claim(t, w)

WorkerStep(w) ==
  \/ LoadRow(w) \/ LoadRowWithoutPayload(w) \/ FailWithoutPayload(w)
  \/ Begin(w) \/ StartPipeline(w) \/ Progress(w) \/ PipelineFails(w) \/ RunFails(w)
  \/ PersistResult(w) \/ Succeed(w) \/ NotificationsSent(w)

SupervisorStep(w) ==
  WorkerLost(w) \/ SuperviseDone(w) \/ SuperviseFailure(w) \/ SuperviseFailureLost(w)

Next ==
  \/ SchedulerStart \/ ApiStart \/ Restart
  \/ ApiStep
  \/ TickStep
  \/ \E w \in Workers : WorkerStep(w) \/ SupervisorStep(w)

Spec == Init /\ [][Next]_vars

\* The container starts its processes; the tick runs every 10 s and its loop
\* does not block; a supervisor waits at most the timeout for its worker and
\* then finishes; an HTTP request that was let in is answered. Nothing is
\* assumed of the users, of schedules, or of the progress of a worker.
Fairness ==
  /\ WF_vars(SchedulerStart) /\ WF_vars(ApiStart)
  /\ WF_vars(ScanQueue)
  /\ \A t \in Tasks :
       /\ WF_vars(\/ SkipSupervised(t) \/ StopAtLimit(t) \/ ClaimMissed(t)
                  \/ \E w \in Workers : Claim(t, w))
       /\ SF_vars(ResetStuckTask(t)) /\ SF_vars(ResetStuckHistory(t))
       /\ WF_vars(RunNowPreviewFails(t) \/ RunNowEnqueue(t))
       /\ WF_vars(RunNowHistory(t)) /\ WF_vars(CancelWrite(t))
  /\ \A w \in Workers :
       /\ WF_vars(WorkerLost(w))
       /\ SF_vars(SuperviseDone(w)) /\ SF_vars(SuperviseFailure(w))

FairSpec == Spec /\ Fairness

-----------------------------------------------------------------------------
(* Safety.                                                                 *)

\* No two worker processes execute the same task, although the API may put a
\* task back to "queued" while its worker is still alive.
OneWorkerPerTask ==
  \A v, w \in Workers : Live(v) /\ Live(w) /\ job[v] = job[w] => v = w

\* CONCURRENCY_LIMIT bounds the worker processes that are alive, not only the
\* ids in _running_task_ids.
ConcurrencyLimit == Cardinality({w \in Workers : Live(w)}) <= Limit

\* Every id in _running_task_ids has a supervisor that will take it out, and
\* every supervisor's id is in it: no slot leaks and none is used twice.
SlotsAccountedFor == running = {job[w] : w \in {v \in Workers : Busy(v)}}

\* A task row says "succeeded" only when the history row holds a result, not
\* while it says the run is going on, failed, or never was.
SucceededHasResult ==
  \A t \in Tasks :
    task[t] = "succeeded" => history[t] \in ResultStatuses \cup {"QUEUED"}

\* A result that waits for review or was decided is never generated again: its
\* task is not in the queue, whatever requests, resets and crashes happen.
ResultNeverRequeued ==
  \A t \in Tasks : history[t] \in ResultStatuses => task[t] # "queued"

\* A cancelled task that no worker executes and no run-now request is about to
\* overwrite stays cancelled.
CancelledStays ==
  [][\A t \in Tasks :
       task[t] = "cancelled" /\ request[t] # "preview" /\ t \notin running
         => task'[t] \in {"cancelled", "cancel_requested"}]_vars

\* The tasks being executed and the tasks with a result form a worker pool.
Executing == {job[w] : w \in {v \in Workers : Live(v)}}
WithResult == {t \in Tasks : history[t] \in ResultStatuses}

Pool == INSTANCE WorkerPool WITH executing <- Executing, results <- WithResult

\* The queue implements the pool: a task starts only when no process executes
\* it, it has no result, and the limit leaves room.
ImplementsPool == Pool!Spec

(* Liveness.                                                               *)

\* Every task leaves the queue and stops running for good: no lost wake-up, no
\* starvation at the limit, no row stuck in "running" after a crash; and its row of
\* the history, which is written apart from it, shows no run as going on for ever.
EveryTaskSettles ==
  \A t \in Tasks : <>[](task[t] \notin {"queued", "running"} /\ history[t] # "RUNNING")

(* What a comment says of the program; the code does otherwise (README).    *)

\* "Preview happens before enqueueing" (task_flow.py): a worker never gets a
\* task that was put in the queue without its payload.
PreviewBeforeEnqueueing == \A w \in Workers : pc[w] # "nopayload"
=============================================================================
