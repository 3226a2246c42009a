----------------------------- MODULE ResultReview -----------------------------
(***************************************************************************)
(* A result from the moment its photo is chosen to the moment its file is   *)
(* gone: the worker that produces it, the requests that accept, retry,      *)
(* reject and delete it, the registry of used photos, and the outbox of     *)
(* file deletions with the retention run.                                   *)
(*                                                                         *)
(* An action is one committed transaction of the database, or one call of   *)
(* Immich or of the file system. A request that awaits or that commits more *)
(* than once has an action for each part, and any other may come between.   *)
(***************************************************************************)
EXTENDS Naturals, FiniteSets

CONSTANTS
  Tasks,
  Requests,     \* requests that the API serves at the same time
  Cron,         \* the scheduler's daily retention run
  MaxAttempts,  \* _MAX_ATTEMPTS of file_deletion.py
  MaxBusy,      \* bound: unlinks that raise
  MaxRestarts,  \* bound: container restarts
  NoTask

Actors == Requests \cup {Cron}

ASSUME ReviewAssumption ==
  /\ IsFiniteSet(Tasks) /\ NoTask \notin Tasks
  /\ Cron \notin Requests
  /\ MaxAttempts \in Nat \ {0}
  /\ {MaxBusy, MaxRestarts} \subseteq Nat

VARIABLES
  row,       \* generation_history.status, "absent" if there is no row
  path,      \* does the row have an output_path?
  sources,   \* are its source_asset_ids known?
  uploaded,  \* does it have uploaded_asset_id and accepted_at?
  usage,     \* asset_usage.status of the task's photos
  file,      \* is the result on disk?
  inImmich,  \* has Immich a copy?
  job,       \* status of the latest deletion job for the file
  attempts,  \* of that job
  work,      \* where the task's worker is
  pc,        \* where each request is
  target,    \* the task it is about
  seen,      \* the row's status when the request read it
  todo, doomed,    \* a delete: photos to release, files to queue
  busy, restarts   \* counters for the bounds

rowVars  == <<row, path, sources, uploaded>>
jobVars  == <<job, attempts>>
reqVars  == <<pc, target, seen, todo, doomed>>
counts   == <<busy, restarts>>
vars == <<rowVars, usage, file, inImmich, jobVars, work, reqVars, counts>>

Statuses == {"RUNNING", "PENDING_REVIEW", "UPLOADED", "REJECTED", "FAILED"}
Filters  == Statuses \cup {"all"}

\* A worker between its first write and the end of its process, by what it has
\* done: selected a photo, marked it, saved the file, written the row; or
\* recorded a failure, and then released the photo.
LiveWork == {"selecting", "rendering", "saving", "review", "failing", "unmarked"}
Over(t)  == work[t] = "done"

Exists(t) == row[t] # "absent"
\* _known_output_paths
Referenced(t) == Exists(t) /\ path[t]

-----------------------------------------------------------------------------
TypeOK ==
  /\ row \in [Tasks -> Statuses \cup {"absent"}]
  /\ path \in [Tasks -> BOOLEAN] /\ sources \in [Tasks -> BOOLEAN]
  /\ uploaded \in [Tasks -> BOOLEAN]
  /\ usage \in [Tasks -> {"none", "pending", "accepted", "released"}]
  /\ file \in [Tasks -> BOOLEAN] /\ inImmich \in [Tasks -> BOOLEAN]
  /\ job \in [Tasks -> {"none", "pending", "failed", "completed"}]
  /\ attempts \in [Tasks -> 0..MaxAttempts]
  /\ work \in [Tasks -> LiveWork \cup {"none", "lost", "done"}]
  /\ pc \in [Actors -> {"idle", "uploading", "uploaded", "accepting", "marking",
                        "rejecting", "releasing", "deleting", "purging"}]
  /\ target \in [Actors -> Tasks \cup {NoTask}]
  /\ seen \in [Actors -> Filters \cup {"none"}]
  /\ todo \in [Actors -> SUBSET Tasks] /\ doomed \in [Actors -> SUBSET Tasks]
  /\ busy \in 0..MaxBusy /\ restarts \in 0..MaxRestarts

Init ==
  /\ row = [t \in Tasks |-> "absent"]
  /\ path = [t \in Tasks |-> FALSE] /\ sources = [t \in Tasks |-> FALSE]
  /\ uploaded = [t \in Tasks |-> FALSE]
  /\ usage = [t \in Tasks |-> "none"]
  /\ file = [t \in Tasks |-> FALSE] /\ inImmich = [t \in Tasks |-> FALSE]
  /\ job = [t \in Tasks |-> "none"] /\ attempts = [t \in Tasks |-> 0]
  /\ work = [t \in Tasks |-> "none"]
  /\ pc = [r \in Actors |-> "idle"]
  /\ target = [r \in Actors |-> NoTask]
  /\ seen = [r \in Actors |-> "none"]
  /\ todo = [r \in Actors |-> {}] /\ doomed = [r \in Actors |-> {}]
  /\ busy = 0 /\ restarts = 0

-----------------------------------------------------------------------------
(* The worker and its supervisor.                                          *)

WorkerGoes(t, from, to) ==
  /\ work[t] = from
  /\ work' = [work EXCEPT ![t] = to]

\* upsert_history_entry with a status: a row that is gone is created again.
Upsert(t, status) == row' = [row EXCEPT ![t] = status]

Begin(t) ==
  /\ WorkerGoes(t, "none", "selecting")
  /\ Upsert(t, "RUNNING")
  /\ UNCHANGED <<path, sources, uploaded, usage, file, inImmich, jobVars, reqVars, counts>>

\* record_assets_usage_pending ...
MarkPending(t) ==
  /\ WorkerGoes(t, "selecting", "rendering")
  /\ usage' = [usage EXCEPT ![t] = IF @ = "none" THEN "pending" ELSE @]
  /\ UNCHANGED <<rowVars, file, inImmich, jobVars, reqVars, counts>>

\* ... which is left out when the registry could not be read.
SelectWithoutRegistry(t) ==
  /\ WorkerGoes(t, "selecting", "rendering")
  /\ UNCHANGED <<rowVars, usage, file, inImmich, jobVars, reqVars, counts>>

\* task_update: the row says RUNNING, whatever it said before.
Progress(t) ==
  /\ work[t] \in {"selecting", "rendering"}
  /\ Upsert(t, "RUNNING")
  /\ UNCHANGED <<path, sources, uploaded, usage, file, inImmich, jobVars, work, reqVars, counts>>

SaveOutput(t) ==
  /\ WorkerGoes(t, "rendering", "saving")
  /\ file' = [file EXCEPT ![t] = TRUE]
  /\ UNCHANGED <<rowVars, usage, inImmich, jobVars, reqVars, counts>>

PersistResult(t) ==
  /\ WorkerGoes(t, "saving", "review")
  /\ Upsert(t, "PENDING_REVIEW")
  /\ path' = [path EXCEPT ![t] = TRUE]
  /\ sources' = [sources EXCEPT ![t] = TRUE]
  /\ UNCHANGED <<uploaded, usage, file, inImmich, jobVars, reqVars, counts>>

\* append_history_trace after the result or the failure: it keeps the status of
\* a row, but makes a placeholder of one that was deleted.
Trace(t) ==
  /\ work[t] \in {"review", "unmarked"} /\ ~Exists(t)
  /\ Upsert(t, "RUNNING")
  /\ UNCHANGED <<path, sources, uploaded, usage, file, inImmich, jobVars, work, reqVars, counts>>

Finish(t) ==
  /\ WorkerGoes(t, "review", "done")
  /\ UNCHANGED <<rowVars, usage, file, inImmich, jobVars, reqVars, counts>>

\* _record_generation_failure: the first write of the row, ...
FailRow(t) ==
  /\ work[t] \in {"selecting", "rendering", "saving", "review"}
  /\ work' = [work EXCEPT ![t] = "failing"]
  /\ Upsert(t, "FAILED")
  /\ UNCHANGED <<path, sources, uploaded, usage, file, inImmich, jobVars, reqVars, counts>>

\* release_task_assets
Released(t) == [usage EXCEPT ![t] = IF @ = "none" THEN @ ELSE "released"]

\* ... the photos, ...
FailRelease(t) ==
  /\ WorkerGoes(t, "failing", "unmarked")
  /\ usage' = Released(t)
  /\ UNCHANGED <<rowVars, file, inImmich, jobVars, reqVars, counts>>

\* ... and the second write. Its output_path=None is dropped by
\* upsert_history_entry, so a path that was written stays.
FailHistory(t) ==
  /\ WorkerGoes(t, "unmarked", "done")
  /\ Upsert(t, "FAILED")
  /\ sources' = [sources EXCEPT ![t] = FALSE]
  /\ UNCHANGED <<path, uploaded, usage, file, inImmich, jobVars, reqVars, counts>>

\* The process crashes, or the supervisor's timeout kills it.
WorkerLost(t) ==
  /\ work[t] \in LiveWork
  /\ work' = [work EXCEPT ![t] = "lost"]
  /\ UNCHANGED <<rowVars, usage, file, inImmich, jobVars, reqVars, counts>>

\* _record_worker_failure, which may fail itself.
Supervise(t) ==
  /\ WorkerGoes(t, "lost", "done")
  /\ Upsert(t, "FAILED") \/ UNCHANGED row
  /\ UNCHANGED <<path, sources, uploaded, usage, file, inImmich, jobVars, reqVars, counts>>

\* _reset_stuck_tasks_at_runtime: five minutes without a write.
ResetStuck(t) ==
  /\ row[t] = "RUNNING" /\ work[t] \in {"lost", "done"}
  /\ Upsert(t, "FAILED")
  /\ UNCHANGED <<path, sources, uploaded, usage, file, inImmich, jobVars, work, reqVars, counts>>

-----------------------------------------------------------------------------
(* The review requests.                                                    *)

Goes(r, from, to) ==
  /\ pc[r] = from
  /\ pc' = [pc EXCEPT ![r] = to]

\* A request that has read the row of t.
Starts(r, t, to) ==
  /\ r \in Requests
  /\ Goes(r, "idle", to)
  /\ target' = [target EXCEPT ![r] = t]
  /\ seen' = [seen EXCEPT ![r] = row[t]]
  /\ UNCHANGED <<todo, doomed>>

Answers(r) ==
  /\ pc' = [pc EXCEPT ![r] = "idle"]
  /\ target' = [target EXCEPT ![r] = NoTask]
  /\ seen' = [seen EXCEPT ![r] = "none"]
  /\ UNCHANGED <<todo, doomed>>

\* _prepare_accept_data: no look at the status or at uploaded_asset_id.
AcceptStart(r, t) ==
  /\ Exists(t) /\ path[t] /\ file[t]
  /\ Starts(r, t, "uploading")
  /\ UNCHANGED <<rowVars, usage, file, inImmich, jobVars, work, counts>>

\* _prepare_retry_data: an uploaded result is not uploaded again.
RetryStart(r, t) ==
  /\ Exists(t)
  /\ \/ uploaded[t] /\ Starts(r, t, "uploaded")
     \/ ~uploaded[t] /\ path[t] /\ file[t] /\ Starts(r, t, "uploading")
  /\ UNCHANGED <<rowVars, usage, file, inImmich, jobVars, work, counts>>

\* Mutant: an answer that is not a success is taken for one.
UploadUnchecked(r) ==
  /\ Goes(r, "uploading", "uploaded")
  /\ UNCHANGED <<rowVars, usage, file, inImmich, jobVars, work, target, seen, todo, doomed, counts>>

\* Immich recognises a file it has by its checksum.
Upload(r) ==
  /\ Goes(r, "uploading", "uploaded")
  /\ file[target[r]]
  /\ inImmich' = [inImmich EXCEPT ![target[r]] = TRUE]
  /\ UNCHANGED <<rowVars, usage, file, jobVars, work, target, seen, todo, doomed, counts>>

\* An exception: the file is gone, Immich does not answer, ...
RequestFails(r) ==
  /\ pc[r] \in {"uploading", "uploaded"}
  /\ IF Exists(target[r]) THEN Upsert(target[r], "FAILED") ELSE UNCHANGED row
  /\ Answers(r)
  /\ UNCHANGED <<path, sources, uploaded, usage, file, inImmich, jobVars, work, counts>>

\* Mutant: the asset id is not stored, as if the caller's were still valid.
FinalizeSuccessWithoutId(r) ==
  /\ Goes(r, "uploaded", "accepting")
  /\ Exists(target[r])
  /\ Upsert(target[r], "UPLOADED")
  /\ UNCHANGED <<path, sources, uploaded, usage, file, inImmich, jobVars, work, target, seen, todo, doomed, counts>>

\* _finalize_accept_success, _finalize_retry_success: by task_id, whatever the
\* row says now.
FinalizeSuccess(r) ==
  /\ Goes(r, "uploaded", "accepting")
  /\ Exists(target[r])
  /\ Upsert(target[r], "UPLOADED")
  /\ uploaded' = [uploaded EXCEPT ![target[r]] = TRUE]
  /\ UNCHANGED <<path, sources, usage, file, inImmich, jobVars, work, target, seen, todo, doomed, counts>>

\* The row was deleted during the upload: 404.
FinalizeMissing(r) ==
  /\ pc[r] = "uploaded" /\ ~Exists(target[r])
  /\ Answers(r)
  /\ UNCHANGED <<rowVars, usage, file, inImmich, jobVars, work, counts>>

\* accept_task_assets reads the pending entries ...
ReadUsage(r) ==
  /\ pc[r] = "accepting"
  /\ \/ usage[target[r]] = "pending" /\ Goes(r, "accepting", "marking")
          /\ UNCHANGED <<target, seen, todo, doomed>>
     \/ usage[target[r]] # "pending" /\ Answers(r)
  /\ UNCHANGED <<rowVars, usage, file, inImmich, jobVars, work, counts>>

\* ... and writes them by primary key.
MarkAccepted(r) ==
  /\ pc[r] = "marking"
  /\ usage' = [usage EXCEPT ![target[r]] = "accepted"]
  /\ Answers(r)
  /\ UNCHANGED <<rowVars, file, inImmich, jobVars, work, counts>>

\* reject_generation: 409 if accepted_at is set ...
RejectStart(r, t) ==
  /\ Exists(t) /\ ~uploaded[t]
  /\ Starts(r, t, "rejecting")
  /\ UNCHANGED <<rowVars, usage, file, inImmich, jobVars, work, counts>>

\* ... but the write is unconditional. The session writes a changed status
\* only, and fails on a row that is gone.
RejectWrite(r) ==
  /\ pc[r] = "rejecting"
  /\ \/ /\ Exists(target[r]) /\ Goes(r, "rejecting", "releasing")
        /\ IF seen[r] = "REJECTED" THEN UNCHANGED row ELSE Upsert(target[r], "REJECTED")
        /\ UNCHANGED <<target, seen, todo, doomed>>
     \/ ~Exists(target[r]) /\ Answers(r) /\ UNCHANGED row
  /\ UNCHANGED <<path, sources, uploaded, usage, file, inImmich, jobVars, work, counts>>

RejectRelease(r) ==
  /\ pc[r] = "releasing"
  /\ usage' = Released(target[r])
  /\ Answers(r)
  /\ UNCHANGED <<rowVars, file, inImmich, jobVars, work, counts>>

-----------------------------------------------------------------------------
(* Deletion: _delete_history_records_and_files, the outbox, the retention. *)

Matching(f) == {t \in Tasks : Exists(t) /\ (f = "all" \/ row[t] = f)}

\* Still taken as they are; or a job that is done or was never made.
OpenJob(t) == job[t] \in {"pending", "failed"}

\* Mutant: an open job is left as it is.
QueueDeletionOnce(S) ==
  /\ job' = [t \in Tasks |-> IF t \in S /\ ~OpenJob(t) THEN "pending" ELSE job[t]]
  /\ attempts' = [t \in Tasks |-> IF t \in S /\ ~OpenJob(t) THEN 0 ELSE attempts[t]]

\* queue_file_deletion: an open job is used again, a failed one is pending
\* again with the attempts it had.
QueueDeletion(S) ==
  /\ job' = [t \in Tasks |-> IF t \in S THEN "pending" ELSE job[t]]
  /\ attempts' = [t \in Tasks |-> IF t \in S /\ ~OpenJob(t) THEN 0 ELSE attempts[t]]

\* The rows are read. The jobs for their files, unless one is pending, are added
\* to the session and reach the database with its first commit.
DeleteStart(r, f) ==
  /\ r \in Requests
  /\ Goes(r, "idle", "deleting")
  /\ seen' = [seen EXCEPT ![r] = f]
  /\ todo' = [todo EXCEPT ![r] = Matching(f)]
  /\ doomed' = [doomed EXCEPT ![r] = {t \in Matching(f) : path[t] /\ job[t] # "pending"}]
  /\ UNCHANGED <<rowVars, usage, file, inImmich, jobVars, work, target, counts>>

\* release_task_assets commits, for every task that holds photos.
Holds(t) == usage[t] \in {"pending", "accepted"}

DeleteRelease(r, t) ==
  /\ pc[r] = "deleting"
  /\ t \in todo[r] /\ Holds(t)
  /\ usage' = Released(t)
  /\ todo' = [todo EXCEPT ![r] = @ \ {t}]
  /\ QueueDeletion(doomed[r])
  /\ doomed' = [doomed EXCEPT ![r] = {}]
  /\ UNCHANGED <<rowVars, file, inImmich, work, pc, target, seen, counts>>

\* The rows that match now are deleted, which need not be those that were read.
DeleteRows(r) ==
  /\ Goes(r, "deleting", "purging")
  /\ ~\E t \in todo[r] : Holds(t)
  /\ LET gone == Matching(seen[r]) IN
       /\ row' = [t \in Tasks |-> IF t \in gone THEN "absent" ELSE row[t]]
       /\ path' = [t \in Tasks |-> path[t] /\ t \notin gone]
       /\ sources' = [t \in Tasks |-> sources[t] /\ t \notin gone]
       /\ uploaded' = [t \in Tasks |-> uploaded[t] /\ t \notin gone]
  /\ QueueDeletion(doomed[r])
  /\ todo' = [todo EXCEPT ![r] = {}]
  /\ doomed' = [doomed EXCEPT ![r] = {}]
  /\ seen' = [seen EXCEPT ![r] = "none"]
  /\ UNCHANGED <<usage, file, inImmich, work, target, counts>>

\* A failed job is tried again up to _MAX_ATTEMPTS, once its back-off is over.
Retryable(t) == job[t] = "failed" /\ attempts[t] < MaxAttempts

\* process_file_deletion_jobs: one transaction over the pending jobs and, of the
\* failed ones, those of D, whose back-off is over; unlink raises for those in B.
\* Attempts beyond the last are not told apart.
Purge(r, D, B) ==
  LET selected == {t \in Tasks : job[t] = "pending"} \cup D IN
  /\ Goes(r, "purging", "idle")
  /\ \A t \in D : Retryable(t)
  /\ B \subseteq {t \in selected : file[t]}
  /\ busy + Cardinality(B) <= MaxBusy
  /\ busy' = busy + Cardinality(B)
  /\ file' = [t \in Tasks |-> file[t] /\ (t \in selected => t \in B)]
  /\ job' = [t \in Tasks |->
               IF t \in B THEN "failed" ELSE IF t \in selected THEN "completed" ELSE job[t]]
  /\ attempts' = [t \in Tasks |->
                    IF t \in selected /\ attempts[t] < MaxAttempts THEN attempts[t] + 1
                    ELSE attempts[t]]
  /\ UNCHANGED <<rowVars, usage, inImmich, work, target, seen, todo, doomed, restarts>>

\* Mutant: without the filter on the status.
RetainableAnyStatus(t) == Exists(t) /\ Over(t)

\* _RETAINABLE_STATUSES; a row that is days old has no worker.
Retainable(t) == row[t] \in {"REJECTED", "FAILED", "UPLOADED"} /\ Over(t)

\* _find_orphan_paths, once they are a week old.
Orphan(t) == file[t] /\ ~Referenced(t) /\ Over(t)

\* execute_retention up to its commit: the files of F and the rows of M are
\* past their cutoffs, the orphans of O are old enough. The registry of photos
\* is not touched.
Retention(r, F, M, O) ==
  /\ Goes(r, "idle", "purging")
  /\ \A t \in F : Retainable(t) /\ path[t]
  /\ \A t \in M : Retainable(t)
  /\ \A t \in O : Orphan(t)
  /\ QueueDeletion(F \cup O)
  /\ row' = [t \in Tasks |-> IF t \in M THEN "absent" ELSE row[t]]
  /\ path' = [t \in Tasks |-> path[t] /\ t \notin F \cup M]
  /\ sources' = [t \in Tasks |-> sources[t] /\ t \notin M]
  /\ uploaded' = [t \in Tasks |-> uploaded[t] /\ t \notin M]
  /\ UNCHANGED <<usage, file, inImmich, work, target, seen, todo, doomed, counts>>

-----------------------------------------------------------------------------
(* The container stops, in the middle of anything, and starts again.       *)

\* backfill_asset_usage, for rows without an entry in the registry.
Backfilled(t) ==
  CASE row[t] = "PENDING_REVIEW" -> "pending"
    [] row[t] = "UPLOADED"       -> "accepted"
    [] OTHER                     -> "released"

\* A purge that is cut off has unlinked the files of S and committed nothing.
\* init_db and reset_stuck_tasks_on_startup come before anything else.
Restart(S) ==
  /\ restarts < MaxRestarts
  /\ restarts' = restarts + 1
  /\ S \subseteq {t \in Tasks : file[t] /\ (job[t] = "pending" \/ Retryable(t))}
  /\ S # {} => \E r \in Actors : pc[r] = "purging"
  /\ file' = [t \in Tasks |-> file[t] /\ t \notin S]
  /\ usage' = [t \in Tasks |->
                 IF usage[t] = "none" /\ sources[t] THEN Backfilled(t) ELSE usage[t]]
  /\ row' = [t \in Tasks |-> IF row[t] = "RUNNING" THEN "FAILED" ELSE row[t]]
  /\ work' = [t \in Tasks |-> IF work[t] = "none" THEN "none" ELSE "done"]
  /\ pc' = [r \in Actors |-> "idle"]
  /\ target' = [r \in Actors |-> NoTask]
  /\ seen' = [r \in Actors |-> "none"]
  /\ todo' = [r \in Actors |-> {}] /\ doomed' = [r \in Actors |-> {}]
  /\ UNCHANGED <<path, sources, uploaded, inImmich, jobVars, busy>>

-----------------------------------------------------------------------------
WorkStep(t) ==
  \/ Begin(t) \/ MarkPending(t) \/ SelectWithoutRegistry(t) \/ Progress(t)
  \/ SaveOutput(t) \/ PersistResult(t) \/ Trace(t) \/ Finish(t)
  \/ FailRow(t) \/ FailRelease(t) \/ FailHistory(t)
  \/ WorkerLost(t) \/ Supervise(t) \/ ResetStuck(t)

UserStep(r) ==
  \/ \E t \in Tasks : AcceptStart(r, t) \/ RetryStart(r, t) \/ RejectStart(r, t)
  \/ \E f \in Filters : DeleteStart(r, f)

ReviewStep(r) ==
  \/ Upload(r) \/ RequestFails(r) \/ FinalizeSuccess(r) \/ FinalizeMissing(r)
  \/ ReadUsage(r) \/ MarkAccepted(r) \/ RejectWrite(r) \/ RejectRelease(r)

DeleteStep(r) == DeleteRows(r) \/ \E t \in Tasks : DeleteRelease(r, t)

Next ==
  \/ \E t \in Tasks : WorkStep(t)
  \/ \E r \in Requests : UserStep(r) \/ ReviewStep(r) \/ DeleteStep(r)
  \/ \E r \in Actors, F, M, O \in SUBSET Tasks : Retention(r, F, M, O)
  \/ \E r \in Actors, D, B \in SUBSET Tasks : Purge(r, D, B)
  \/ \E S \in SUBSET Tasks : Restart(S)

Spec == Init /\ [][Next]_vars

\* A worker ends by itself or by its timeout and is supervised; the retention
\* runs daily and to its end, again and again with every orphan old enough.
FairSpec ==
  /\ Spec
  /\ \A t \in Tasks : WF_vars(Finish(t) \/ FailRelease(t) \/ FailHistory(t) \/ WorkerLost(t)
                                \/ Supervise(t))
  /\ SF_vars(\E F, M \in SUBSET Tasks : Retention(Cron, F, M, {t \in Tasks : Orphan(t)}))
  /\ WF_vars(\E D, B \in SUBSET Tasks : Purge(Cron, D, B))

-----------------------------------------------------------------------------
(* Safety.                                                                 *)

\* The registry says accepted only of photos whose result has reached Immich,
\* however requests overlap, fail, or are cut off, and rows come back.
AcceptedIsUploaded == \A t \in Tasks : usage[t] = "accepted" => inImmich[t]

\* A row that says UPLOADED knows its copy in Immich: a retry can rely on
\* uploaded_asset_id, and a reject on accepted_at.
UploadedIsInImmich == \A t \in Tasks : row[t] = "UPLOADED" => uploaded[t] /\ inImmich[t]

\* A result that waits for review has its file, unless a delete request that
\* covers it is under way. A restart may cut such a request off and leave the
\* job without the deletion of the row, so it is stated until the first one.
ReviewHasFile ==
  restarts = 0 =>
    \A t \in Tasks : row[t] = "PENDING_REVIEW" =>
      \/ file[t]
      \/ \E r \in Requests : pc[r] = "deleting" /\ seen[r] \in {"PENDING_REVIEW", "all"}

(* Liveness.                                                               *)

\* A file that no row leads to disappears: whatever deleted the row, however
\* often the unlink failed, also after the last attempt.
OrphansGo == \A t \in Tasks : Orphan(t) ~> ~Orphan(t)

(* What a docstring says of the program; the code does otherwise (README).  *)

\* "enforcing status preconditions before committing updates"
\* (routes_generation_actions.py): a result is finalized in the state in which
\* its request has read it.
PreconditionsEnforced ==
  [][\A r \in Requests :
       pc[r] = "uploaded" /\ pc'[r] = "accepting" => row[target[r]] = seen[r]]_vars
=============================================================================
