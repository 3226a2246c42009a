----------------------------- MODULE HostRender -----------------------------
(***************************************************************************)
(* One iteration of the host agent (_run_workflow_iteration) per task: it   *)
(* lets the backend prepare a task, runs an image tool on the host, looks   *)
(* for the picture the tool has drawn, and lets the backend store it. The   *)
(* backend's part runs in processes that `docker compose exec` starts; they *)
(* go on when the agent gives them up. With the target "schedule" the       *)
(* backend generates the picture itself (`dailyfx generate`).               *)
(*                                                                         *)
(* The rows are those of GenerationQueue, and so are their other writers:   *)
(* the tick's claim and its reset of stuck rows, workers and supervisors,   *)
(* the startup reset. Nothing supervises a backend process of the host      *)
(* agent. One action is one transaction, or the commits of one synchronous  *)
(* helper, or what one process does between two calls of another.           *)
(***************************************************************************)
EXTENDS Naturals, FiniteSets

CONSTANTS
  MaxTasks,     \* task ids are 1..MaxTasks, in the order of their creation
  Schedules,
  Targets,      \* what the agents run: "host" for an image tool (codex, agy), "schedule"
  Aging,        \* bound: tasks whose rows may grow old
  Claimable,    \* bound: tasks that the tick may claim
  Strict,       \* --strict-recovery, the default
  MaxRestarts,  \* bound: restarts of the container
  MaxKills,     \* bound: agents that are killed
  MaxCleans,    \* bound: uses of --clean-manifests
  NoTask, NoSchedule, NoImage,
  Broken        \* an image file that Pillow cannot read

ASSUME HostAssumption ==
  /\ {MaxTasks, MaxRestarts, MaxKills, MaxCleans} \subseteq Nat
  /\ Aging \cup Claimable \subseteq 1..MaxTasks
  /\ Strict \in BOOLEAN
  /\ {NoTask, NoImage, Broken} \cap 1..MaxTasks = {}
  /\ Targets \subseteq {"host", "schedule"}
  /\ NoSchedule \notin Schedules
  /\ NoImage # Broken

VARIABLES
  task, history, payload,  \* the rows, as in GenerationQueue
  old,                     \* tasks whose rows nobody has written for five minutes
  schedule,                \* schedule_id of the task's row
  agent,                   \* how far the iteration for the task is
  proc,                    \* how far each backend process for the task is
  manifest,                \* what the manifest file holds
  output,                  \* what is drawn in the file at output_path
  gallery,                 \* the images in the tool's own directory
  result,                  \* the picture the history row stands for
  stuck,                   \* rows the tick has found stuck and not yet reset
  up, restarts, kills, cleans

rowVars   == <<task, history, payload, old>>
fileVars  == <<manifest, output, gallery>>
countVars == <<up, restarts, kills, cleans>>
vars == <<rowVars, schedule, agent, proc, fileVars, result, stuck, countVars>>

Tasks == 1..MaxTasks

Active == {"queued", "running"}
Stored == {"PENDING_REVIEW", "DECIDED"}

\* The CLI commands and the scheduler's worker. The values of proc: "started"
\* (or claimed), "checked" (found no other active task), "inserted" (the row,
\* no payload), "queued" (payload written), "running" (reports its progress from
\* time to time), "saved" (result stored), "succeeded", "failed" (a worker whose
\* supervisor still has to record it), and the exits.
Kinds == {"prepare", "generate", "finalize", "fail", "worker"}
Exits == {"idle", "ok", "error"}
Inside == {"started", "checked", "inserted", "queued", "running", "saved",
           "succeeded", "failed"}

Working == {"preparing", "generating", "rendering", "checking", "finalizing", "reporting"}

TypeOK ==
  /\ task \in [Tasks -> {"none", "queued", "running", "succeeded", "failed"}]
  /\ history \in [Tasks -> {"none", "QUEUED", "RUNNING", "FAILED"} \cup Stored]
  /\ payload \in [Tasks -> BOOLEAN]
  /\ old \subseteq Tasks
  /\ schedule \in [Tasks -> Schedules \cup {NoSchedule}]
  /\ agent \in [Tasks -> {"idle", "done", "failed", "killed"} \cup Working]
  /\ proc \in [Kinds -> [Tasks -> Exits \cup Inside]]
  /\ manifest \in [Tasks -> {"none", "prepared", "partial", "updated"}]
  /\ output \in [Tasks -> Tasks \cup {NoImage, Broken}]
  /\ gallery \subseteq [of : Tasks, name : Tasks \cup {NoTask}]
  /\ result \in [Tasks -> Tasks \cup {NoImage}]
  /\ stuck \subseteq {"task", "history"} \X Tasks
  /\ up \in BOOLEAN
  /\ restarts \in 0..MaxRestarts /\ kills \in 0..MaxKills /\ cleans \in 0..MaxCleans

Init ==
  /\ task = [t \in Tasks |-> "none"]
  /\ history = [t \in Tasks |-> "none"]
  /\ payload = [t \in Tasks |-> FALSE]
  /\ old = {}
  /\ schedule = [t \in Tasks |-> NoSchedule]
  /\ agent = [t \in Tasks |-> "idle"]
  /\ proc = [k \in Kinds |-> [t \in Tasks |-> "idle"]]
  /\ manifest = [t \in Tasks |-> "none"]
  /\ output = [t \in Tasks |-> NoImage]
  /\ gallery = {}
  /\ result = [t \in Tasks |-> NoImage]
  /\ stuck = {}
  /\ up = TRUE /\ restarts = 0 /\ kills = 0 /\ cleans = 0

-----------------------------------------------------------------------------
(* The rows. A write refreshes updated_at.                                 *)

\* update_task, upsert_history_entry.
Write(t, s, h) ==
  /\ task' = [task EXCEPT ![t] = s]
  /\ history' = [history EXCEPT ![t] = h]
  /\ old' = old \ {t}

SetTask(t, s)    == Write(t, s, history[t])
SetHistory(t, h) == Write(t, task[t], h)

\* ctx.task_update with and without a final status.
WriteRunning(t) == Write(t, "running", "RUNNING") /\ UNCHANGED payload
WriteFailed(t)  == Write(t, "failed", "FAILED") /\ UNCHANGED payload

\* Time passes. (It matters while a row is active.)
Age(t) ==
  /\ t \in Aging
  /\ task[t] \in Active \/ history[t] = "RUNNING"
  /\ old' = old \cup {t}
  /\ UNCHANGED <<task, history, payload, schedule, agent, proc, fileVars, result,
                 stuck, countVars>>

\* The user accepts or rejects the result.
Decide(t) ==
  /\ history[t] = "PENDING_REVIEW" /\ up
  /\ SetHistory(t, "DECIDED")
  /\ UNCHANGED <<payload, schedule, agent, proc, fileVars, result, stuck, countVars>>

-----------------------------------------------------------------------------
(* Processes of the backend.                                               *)

AgentGoes(t, from, to) == agent[t] = from /\ agent' = [agent EXCEPT ![t] = to]
ProcGoes(k, t, from, to) == proc[k][t] = from /\ proc' = [proc EXCEPT ![k][t] = to]

BackendKeeps == UNCHANGED <<schedule, agent, fileVars, stuck, countVars>>

\* Other tasks of the same schedule that are queued or running.
Others(t) == {u \in Tasks \ {t} : schedule[u] = schedule[t] /\ task[u] \in Active}

\* prepare-host and generate look for another active task of the schedule ...
CheckActive(t) ==
  /\ Others(t) = {}
  /\ \E k \in {"prepare", "generate"} : ProcGoes(k, t, "started", "checked")
  /\ UNCHANGED <<rowVars, result>> /\ BackendKeeps

\* ... and refuse to run beside one; prepare-host fails one that is stale.
RefuseActive(t) ==
  /\ \E k \in {"prepare", "generate"} :
       /\ Others(t) \ (IF k = "prepare" THEN old ELSE {}) # {}
       /\ ProcGoes(k, t, "started", "error")
  /\ UNCHANGED <<rowVars, result>> /\ BackendKeeps

ClearStale(t) ==
  /\ ProcGoes("prepare", t, "started", "checked")
  /\ \E u \in Others(t) \cap old : WriteFailed(u)
  /\ UNCHANGED result /\ BackendKeeps

\* ensure_task without a payload: the row is in the queue.
InsertTask(t) ==
  /\ \E k \in {"prepare", "generate"} : ProcGoes(k, t, "checked", "inserted")
  /\ SetTask(t, "queued")
  /\ UNCHANGED <<payload, result>> /\ BackendKeeps

\* prepare-host plans at once, and goes on to write while it selects the photo.
PreparePlans(t) ==
  /\ \E from \in {"inserted", "running"} : ProcGoes("prepare", t, from, "running")
  /\ WriteRunning(t)
  /\ UNCHANGED result /\ BackendKeeps

\* host_render_ready is a trace entry, which leaves the statuses alone.
PrepareReady(t) ==
  /\ ProcGoes("prepare", t, "running", "ok")
  /\ SetHistory(t, history[t])
  /\ UNCHANGED <<payload, result>> /\ BackendKeeps

\* generate previews the photos, then queues its own task with the payload.
GenerateQueues(t) ==
  /\ ProcGoes("generate", t, "inserted", "queued")
  /\ Write(t, "queued", "QUEUED")
  /\ payload' = [payload EXCEPT ![t] = TRUE]
  /\ UNCHANGED result /\ BackendKeeps

\* An exception: the handler of prepare-host fails the task alone; a step of
\* the planning, or the preview of generate, may have failed the history too.
PreparationFails(t) ==
  /\ \E k \in {"prepare", "generate"}, from \in {"inserted", "queued", "running"} :
       /\ k = "generate" => from \in {"inserted", "queued"}
       /\ ProcGoes(k, t, from, "error")
  /\ \E h \in {history[t], "FAILED"} : Write(t, "failed", h)
  /\ UNCHANGED <<payload, result>> /\ BackendKeeps

\* The pipeline, in the process of generate or in a worker.
PipelineRuns(k, t) ==
  /\ \/ k = "generate" /\ ProcGoes(k, t, "queued", "running")
     \/ k = "worker" /\ payload[t] /\ ProcGoes(k, t, "started", "running")
     \/ k \in {"generate", "worker"} /\ ProcGoes(k, t, "running", "running")
  /\ WriteRunning(t)
  /\ UNCHANGED result /\ BackendKeeps

PipelineFails(k, t) ==
  /\ \E from \in {"running", "saved", "succeeded"} : ProcGoes(k, t, from, "error")
  /\ WriteFailed(t)
  /\ UNCHANGED result /\ BackendKeeps

\* finalize-host checks the manifest, reads the picture and calls Immich; then
\* it reports its progress. An exception ends it: it records nothing.
FinalizeRuns(t) ==
  /\ \/ ProcGoes("finalize", t, "started", "running") /\ manifest[t] = "updated"
     \/ ProcGoes("finalize", t, "running", "running")
  /\ WriteRunning(t)
  /\ UNCHANGED result /\ BackendKeeps

FinalizeFails(t) ==
  /\ \E from \in {"started", "running", "saved", "succeeded"} :
       ProcGoes("finalize", t, from, "error")
  /\ UNCHANGED <<rowVars, result>> /\ BackendKeeps

\* Mutant: the task is marked before its result is persisted.
SucceedEarly(k, t) ==
  /\ ProcGoes(k, t, "running", "succeeded")
  /\ SetTask(t, "succeeded")
  /\ UNCHANGED <<payload, result>> /\ BackendKeeps

\* persist_generation_result: the picture of the pipeline, or of the host.
Persist(k, t) ==
  /\ ProcGoes(k, t, "running", "saved")
  /\ result' = [result EXCEPT ![t] = IF k = "finalize" THEN output[t] ELSE t]
  /\ SetHistory(t, "PENDING_REVIEW")
  /\ UNCHANGED payload /\ BackendKeeps

Succeed(k, t) ==
  /\ ProcGoes(k, t, "saved", "succeeded")
  /\ SetTask(t, "succeeded")
  /\ UNCHANGED <<payload, result>> /\ BackendKeeps

\* Notifications are sent; generate then looks at its history row.
Exit(k, t) ==
  /\ \/ k \in {"finalize", "worker"} /\ ProcGoes(k, t, "succeeded", "ok")
     \/ /\ k = "generate" /\ history[t] # "FAILED"
        /\ ProcGoes(k, t, "succeeded", "ok")
  /\ UNCHANGED <<rowVars, result>> /\ BackendKeeps

\* ... which its handler turns into a failed task if somebody has failed it.
GenerateFoundFailed(t) ==
  /\ history[t] = "FAILED"
  /\ ProcGoes("generate", t, "succeeded", "error")
  /\ SetTask(t, "failed")
  /\ UNCHANGED <<payload, result>> /\ BackendKeeps

FailHost(t) ==
  /\ ProcGoes("fail", t, "started", "ok")
  /\ WriteFailed(t)
  /\ UNCHANGED result /\ BackendKeeps

-----------------------------------------------------------------------------
(* Scheduler and container.                                                *)

TickKeeps == UNCHANGED <<schedule, agent, fileVars, result, countVars>>

\* The claim does not ask who has put the task into the queue.
Claim(t) ==
  /\ t \in Claimable
  /\ up /\ task[t] = "queued"
  /\ proc["worker"][t] \in Exits
  /\ proc' = [proc EXCEPT !["worker"][t] = "started"]
  /\ SetTask(t, "running")
  /\ UNCHANGED <<payload, stuck>> /\ TickKeeps

\* run_queued_generation_task without a payload.
NoPayload(t) ==
  /\ ~payload[t]
  /\ ProcGoes("worker", t, "started", "failed")
  /\ SetTask(t, "failed")
  /\ UNCHANGED <<payload, stuck>> /\ TickKeeps

\* The worker reaches its timeout or crashes.
WorkerLost(t) ==
  /\ proc["worker"][t] \in Inside \ {"failed"}
  /\ proc' = [proc EXCEPT !["worker"][t] = "failed"]
  /\ UNCHANGED <<rowVars, stuck>> /\ TickKeeps

RecordWorkerFailure(t) ==
  /\ ProcGoes("worker", t, "failed", "ok")
  /\ WriteFailed(t)
  /\ UNCHANGED stuck /\ TickKeeps

\* Mutant: resets the history rows of stuck tasks only.
StuckHistoryOfTasks ==
  {<<"history", t>> : t \in {u \in old : history[u] = "RUNNING" /\ task[u] = "running"}}

\* _reset_stuck_tasks_at_runtime loads the stuck rows of one table, then it
\* writes each in a transaction of its own, whatever the row has become.
StuckHistory == {<<"history", t>> : t \in {u \in old : history[u] = "RUNNING"}}
StuckTasks == {<<"task", t>> : t \in {u \in old : task[u] = "running"}}

FindStuck ==
  /\ up /\ stuck = {}
  /\ stuck' \in {StuckHistory, StuckTasks} \ {{}}
  /\ UNCHANGED <<rowVars, proc>> /\ TickKeeps

ResetStuck(t) ==
  /\ \/ /\ <<"history", t>> \in stuck
        /\ stuck' = stuck \ {<<"history", t>>}
        /\ SetHistory(t, "FAILED")
     \/ /\ <<"task", t>> \in stuck
        /\ stuck' = stuck \ {<<"task", t>>}
        /\ SetTask(t, "failed")
  /\ UNCHANGED <<payload, proc>> /\ TickKeeps

\* The container's processes die; what was started in it returns an error.
Restart ==
  /\ up /\ restarts < MaxRestarts
  /\ up' = FALSE /\ restarts' = restarts + 1
  /\ proc' = [k \in Kinds |-> [t \in Tasks |->
                IF proc[k][t] \in Inside THEN "error" ELSE proc[k][t]]]
  /\ stuck' = {}
  /\ UNCHANGED <<rowVars, schedule, agent, fileVars, result, kills, cleans>>

\* reset_stuck_tasks_on_startup.
Startup ==
  /\ ~up /\ up' = TRUE
  /\ task' = [t \in Tasks |-> IF task[t] = "running" THEN "failed" ELSE task[t]]
  /\ history' = [t \in Tasks |-> IF history[t] = "RUNNING" THEN "FAILED" ELSE history[t]]
  /\ old' = {t \in old : task[t] # "running" /\ history[t] # "RUNNING"}
  /\ UNCHANGED <<payload, schedule, agent, proc, fileVars, result, stuck,
                 restarts, kills, cleans>>

-----------------------------------------------------------------------------
(* The agent on the host.                                                  *)

AgentKeeps == UNCHANGED <<rowVars, result, stuck, countVars>>

\* `docker compose exec`, which needs the container.
Exec(k, t) == proc' = [proc EXCEPT ![k][t] = IF up THEN "started" ELSE "error"]

\* The agent holds the lock of the schedule (ScheduleLock).
StartIteration(t, s) ==
  /\ \A u \in Tasks : u < t => agent[u] # "idle"
  /\ \A u \in Tasks : agent[u] \in Working => schedule[u] # s
  /\ schedule' = [schedule EXCEPT ![t] = s]
  /\ \/ "host" \in Targets /\ AgentGoes(t, "idle", "preparing") /\ Exec("prepare", t)
     \/ "schedule" \in Targets /\ AgentGoes(t, "idle", "generating") /\ Exec("generate", t)
  /\ UNCHANGED fileVars /\ AgentKeeps

\* The command's output is the manifest; the target "schedule" needs no more.
LoadManifest(t) ==
  /\ \/ proc["prepare"][t] = "ok" /\ AgentGoes(t, "preparing", "rendering")
     \/ proc["generate"][t] = "ok" /\ AgentGoes(t, "generating", "done")
  /\ manifest' = [manifest EXCEPT ![t] = "prepared"]
  /\ UNCHANGED <<schedule, proc, output, gallery>> /\ AgentKeeps

\* The command failed or took too long, or its output could not be used. The
\* agent does not know the task yet: it reports nothing.
PrepareFails(t) ==
  /\ \E from \in {"preparing", "generating"} : AgentGoes(t, from, "failed")
  /\ UNCHANGED <<schedule, proc, fileVars>> /\ AgentKeeps

\* The tool draws: at the path it was told, or in its own directory, where the
\* name may have the task's id that the prompt asks for.
Draw(t) ==
  /\ agent[t] = "rendering"
  /\ \/ /\ output[t] # t
        /\ \E d \in {t, Broken} : output' = [output EXCEPT ![t] = d]
        /\ UNCHANGED gallery
     \/ /\ \A i \in gallery : i.of # t
        /\ \E n \in {t, NoTask} : gallery' = gallery \cup {[of |-> t, name |-> n]}
        /\ UNCHANGED output
  /\ UNCHANGED <<schedule, agent, proc, manifest>> /\ AgentKeeps

\* It writes its metadata ("partial" without the technical fields), or not.
ToolEnds(t) ==
  /\ AgentGoes(t, "rendering", "checking")
  /\ \E m \in {manifest[t], "partial", "updated"} :
       manifest' = [manifest EXCEPT ![t] = m]
  /\ UNCHANGED <<schedule, proc, output, gallery>> /\ AgentKeeps

\* Mutant: the latest image, whatever its name.
CandidatesAny(t) == gallery

\* _find_latest_image: images with the task's id come first. Without any, strict
\* recovery refuses, and the legacy mode takes the latest of the others.
Named(t) == {i \in gallery : i.name = t}
Candidates(t) == IF Strict \/ Named(t) # {} THEN Named(t) ELSE gallery

\* The recovered picture is copied, and the manifest is written as merged.
Recover(t) ==
  /\ agent[t] = "checking" /\ output[t] = NoImage
  /\ \E i \in Candidates(t) : output' = [output EXCEPT ![t] = i.of]
  /\ manifest' = [manifest EXCEPT ![t] =
                    CASE @ = "partial" -> "updated" [] @ = "none" -> "prepared" [] OTHER -> @]
  /\ UNCHANGED <<schedule, agent, proc, gallery>> /\ AgentKeeps

\* The manifest on the disk, loaded once more, and the picture.
Valid(t) == manifest[t] = "updated" /\ output[t] \notin {NoImage, Broken}

StartFinalize(t) ==
  /\ Valid(t)
  /\ AgentGoes(t, "checking", "finalizing") /\ Exec("finalize", t)
  /\ UNCHANGED <<schedule, fileVars>> /\ AgentKeeps

\* Something went wrong, the backend's answer is an error, or none came in time:
\* fail-host.
MustReport(t) ==
  \/ agent[t] \in {"rendering"}
  \/ agent[t] = "checking" /\ ~Valid(t) /\ (output[t] = NoImage => Candidates(t) = {})
  \/ agent[t] = "finalizing" /\ proc["finalize"][t] # "ok"

Report(t) ==
  /\ MustReport(t)
  /\ agent' = [agent EXCEPT ![t] = "reporting"] /\ Exec("fail", t)
  /\ UNCHANGED <<schedule, fileVars>> /\ AgentKeeps

\* Whatever came of the report, a failure included, the run has failed.
Reported(t) ==
  /\ AgentGoes(t, "reporting", "failed")
  /\ UNCHANGED <<schedule, proc, fileVars>> /\ AgentKeeps

Finish(t) ==
  /\ proc["finalize"][t] = "ok"
  /\ AgentGoes(t, "finalizing", "done")
  /\ UNCHANGED <<schedule, proc, fileVars>> /\ AgentKeeps

Kill(t) ==
  /\ agent[t] \in Working
  /\ kills < MaxKills
  /\ kills' = kills + 1
  /\ agent' = [agent EXCEPT ![t] = "killed"]
  /\ UNCHANGED <<rowVars, schedule, proc, fileVars, result, stuck, up, restarts, cleans>>

\* --clean-manifests removes every manifest, also one that is in use.
CleanManifests ==
  /\ cleans < MaxCleans
  /\ cleans' = cleans + 1
  /\ manifest' = [t \in Tasks |-> "none"]
  /\ UNCHANGED <<rowVars, schedule, agent, proc, output, gallery, result, stuck,
                 up, restarts, kills>>

-----------------------------------------------------------------------------
BackendStep(t) ==
  \/ CheckActive(t) \/ RefuseActive(t) \/ ClearStale(t) \/ InsertTask(t)
  \/ PreparePlans(t) \/ PrepareReady(t) \/ PreparationFails(t) \/ GenerateQueues(t)
  \/ FinalizeRuns(t) \/ FinalizeFails(t) \/ GenerateFoundFailed(t) \/ FailHost(t)
  \/ \E k \in {"generate", "worker"} : PipelineRuns(k, t) \/ PipelineFails(k, t)
  \/ \E k \in {"generate", "worker", "finalize"} : Persist(k, t) \/ Succeed(k, t) \/ Exit(k, t)

SchedulerStep(t) ==
  Claim(t) \/ NoPayload(t) \/ WorkerLost(t) \/ RecordWorkerFailure(t) \/ ResetStuck(t)

AgentStep(t) ==
  \/ \E s \in Schedules : StartIteration(t, s)
  \/ LoadManifest(t) \/ PrepareFails(t) \/ Draw(t) \/ ToolEnds(t) \/ Recover(t)
  \/ StartFinalize(t) \/ Report(t) \/ Reported(t) \/ Finish(t)

Next ==
  \/ \E t \in Tasks :
       BackendStep(t) \/ SchedulerStep(t) \/ AgentStep(t) \/ Age(t) \/ Decide(t) \/ Kill(t)
  \/ FindStuck \/ Restart \/ Startup \/ CleanManifests

Spec == Init /\ [][Next]_vars

\* A process that goes on reports its progress.
Reports(t) ==
  /\ \E k \in Kinds : proc[k][t] = "running" /\ WriteRunning(t)
  /\ UNCHANGED proc

\* The container comes up, its tick goes on, time passes, and a worker ends.
\* Neither the agent nor a backend process it has started is assumed to go on;
\* but none reports progress for ever.
Fairness ==
  /\ WF_vars(Startup) /\ WF_vars(FindStuck)
  /\ \A t \in Tasks :
       /\ WF_vars(ResetStuck(t)) /\ WF_vars(Claim(t)) /\ WF_vars(Age(t))
       /\ WF_vars(WorkerLost(t)) /\ WF_vars(RecordWorkerFailure(t))
       /\ <>[][~Reports(t)]_vars

FairSpec == Spec /\ Fairness

-----------------------------------------------------------------------------
(* Safety.                                                                 *)

\* A result shows what was drawn for its task, and not for another task that
\* the tool worked on at the same time, nor a file that is no picture.
OwnPicture == \A t \in Tasks : result[t] \in {t, NoImage}

\* A row that offers a result, and a task that has succeeded, have one,
\* although resets, late reports and a second executor write the same rows.
StoredHasPicture ==
  \A t \in Tasks :
    history[t] \in Stored \/ task[t] = "succeeded" => result[t] # NoImage

\* When the agent says "done", the picture is stored.
DoneIsStored == \A t \in Tasks : agent[t] = "done" => result[t] # NoImage

(* Liveness.                                                               *)

\* No task stays active and no row stays RUNNING, wherever the agent and the
\* backend's processes stop.
EveryRenderSettles ==
  \A t \in Tasks : <>[](task[t] \notin Active /\ history[t] # "RUNNING")

(* What the documentation says; the code does otherwise (README).           *)

\* "The host agent may write a partial metadata-only manifest update. In that
\* case, dailyfx-agent merges the update" (docs/dailyfx-agent.md): a picture
\* with such an update is not reported as a failure.
PartialUpdateMerged ==
  [][\A t \in Tasks :
       agent[t] = "checking" /\ manifest[t] = "partial" /\ output[t] = t
         => agent'[t] # "reporting"]_vars
=============================================================================
