-------------------------- MODULE ResultReview_proofs --------------------------
(***************************************************************************)
(* Uploads, the registry and the files of the results that wait for review,*)
(* for any number of tasks and of requests that overlap.                   *)
(***************************************************************************)
EXTENDS ResultReview, FiniteSetTheorems, TLAPS

-----------------------------------------------------------------------------
(* The inductive invariant.                                                *)

\* A request that works on a task knows it.
TargetKnown ==
  \A r \in Actors : pc[r] \notin {"idle", "deleting", "purging"} => target[r] \in Tasks

\* An asset id is stored, or about to be, only of a result that Immich has.
IdIsInImmich == \A t \in Tasks : uploaded[t] => inImmich[t]
AnswerIsInImmich ==
  \A r \in Actors : pc[r] \in {"uploaded", "accepting", "marking"} => inImmich[target[r]]

UploadInv == AcceptedIsUploaded /\ UploadedIsInImmich /\ IdIsInImmich /\ AnswerIsInImmich

\* What a worker has not yet persisted, no row, job or delete request knows.
Early == {"none", "selecting", "rendering", "saving"}

NotYetKnown == \A t \in Tasks : work[t] \in Early => ~path[t] /\ job[t] = "none"
SavedIsThere == \A t \in Tasks : work[t] = "saving" => file[t]
ReviewHasPath == \A t \in Tasks : row[t] = "PENDING_REVIEW" => work[t] \notin Early /\ path[t]

Covers(r) == pc[r] = "deleting" /\ seen[r] \in {"PENDING_REVIEW", "all"}

\* A delete that has a result for review among its files covers it: a row
\* never comes back to PENDING_REVIEW.
DoomedIsCovered ==
  \A r \in Actors : \A t \in doomed[r] :
    /\ r \in Requests
    /\ work[t] \notin Early
    /\ row[t] = "PENDING_REVIEW" => Covers(r)

\* ReviewHasFile, with what threatens the file.
ReviewIsSafe ==
  restarts = 0 =>
    \A t \in Tasks : row[t] = "PENDING_REVIEW" =>
      (file[t] /\ ~OpenJob(t)) \/ \E r \in Requests : Covers(r)

FileInv == NotYetKnown /\ SavedIsThere /\ ReviewHasPath /\ DoomedIsCovered /\ ReviewIsSafe

IInv == TypeOK /\ TargetKnown /\ UploadInv /\ FileInv

LEMMA InitIInv == Init => IInv
<1> SUFFICES ASSUME Init PROVE IInv
  OBVIOUS
<1>1. TypeOK
  BY ReviewAssumption DEF Init, TypeOK, LiveWork, Statuses, Filters
<1>2. TargetKnown /\ UploadInv
  BY DEF Init, TargetKnown, UploadInv, AcceptedIsUploaded, UploadedIsInImmich,
         IdIsInImmich, AnswerIsInImmich
<1>3. FileInv
  BY DEF Init, FileInv, NotYetKnown, SavedIsThere, ReviewHasPath, DoomedIsCovered, ReviewIsSafe
<1> QED BY <1>1, <1>2, <1>3 DEF IInv

-----------------------------------------------------------------------------
(* Types.                                                                  *)

LEMMA PurgeCounts ==
  ASSUME NEW B \in SUBSET Tasks, busy \in 0..MaxBusy, busy + Cardinality(B) <= MaxBusy
  PROVE  busy + Cardinality(B) \in 0..MaxBusy
<1>1. Cardinality(B) \in Nat
  BY ReviewAssumption, FS_Subset, FS_CardinalityType
<1> QED BY <1>1, ReviewAssumption

LEMMA NextTypeOK == IInv /\ [Next]_vars => TypeOK' /\ TargetKnown'
<1> SUFFICES ASSUME IInv, [Next]_vars PROVE TypeOK' /\ TargetKnown'
  OBVIOUS
<1>1. TypeOK /\ TargetKnown
  BY DEF IInv
<1> USE <1>1 DEF rowVars, jobVars, reqVars, counts
<1>2. CASE UNCHANGED vars
  BY <1>2 DEF vars, TypeOK, TargetKnown
<1>3. ASSUME NEW t \in Tasks, WorkStep(t) PROVE TypeOK' /\ TargetKnown'
  <2> USE DEF WorkerGoes, Upsert, LiveWork, Statuses
  <2>1. TargetKnown' /\ UNCHANGED <<reqVars, counts, jobVars, inImmich>>
    BY <1>3 DEF WorkStep, Begin, MarkPending, SelectWithoutRegistry, Progress, SaveOutput,
                PersistResult, Trace, Finish, FailRow, FailRelease, FailHistory, WorkerLost,
                Supervise, ResetStuck, TargetKnown
  <2>2. /\ row' \in [Tasks -> Statuses \cup {"absent"}]
        /\ path' \in [Tasks -> BOOLEAN] /\ sources' \in [Tasks -> BOOLEAN]
        /\ uploaded' \in [Tasks -> BOOLEAN] /\ file' \in [Tasks -> BOOLEAN]
    <3>1. CASE SaveOutput(t)
      BY <3>1 DEF SaveOutput, TypeOK
    <3>5. CASE PersistResult(t)
      BY <3>5 DEF PersistResult, TypeOK
    <3>6. CASE FailHistory(t)
      BY <3>6 DEF FailHistory, TypeOK
    <3>2. CASE FailRow(t) \/ Supervise(t) \/ ResetStuck(t)
      BY <3>2 DEF FailRow, Supervise, ResetStuck, TypeOK
    <3>3. CASE Begin(t) \/ Progress(t) \/ Trace(t)
      BY <3>3 DEF Begin, Progress, Trace, TypeOK
    <3>4. CASE MarkPending(t) \/ SelectWithoutRegistry(t) \/ Finish(t) \/ FailRelease(t)
                 \/ WorkerLost(t)
      BY <3>4 DEF MarkPending, SelectWithoutRegistry, Finish, FailRelease, WorkerLost, TypeOK
    <3> QED BY <1>3, <3>1, <3>2, <3>3, <3>4, <3>5, <3>6 DEF WorkStep
  <2>3. usage' \in [Tasks -> {"none", "pending", "accepted", "released"}]
    <3>1. CASE MarkPending(t) \/ FailRelease(t)
      BY <3>1 DEF MarkPending, FailRelease, Released, TypeOK
    <3>2. CASE ~(MarkPending(t) \/ FailRelease(t))
      BY <1>3, <3>2 DEF WorkStep, Begin, SelectWithoutRegistry, Progress, SaveOutput,
                        PersistResult, Trace, Finish, FailRow, FailHistory, WorkerLost,
                        Supervise, ResetStuck, TypeOK
    <3> QED BY <3>1, <3>2
  <2>4. work' \in [Tasks -> LiveWork \cup {"none", "lost", "done"}]
    BY <1>3 DEF WorkStep, Begin, MarkPending, SelectWithoutRegistry, Progress, SaveOutput,
                PersistResult, Trace, Finish, FailRow, FailRelease, FailHistory, WorkerLost,
                Supervise, ResetStuck, TypeOK
  <2> QED BY <2>1, <2>2, <2>3, <2>4 DEF TypeOK
<1>4. ASSUME NEW r \in Requests, UserStep(r) PROVE TypeOK' /\ TargetKnown'
  <2> USE DEF Actors, Goes, Starts, Exists
  <2>1. ASSUME NEW t \in Tasks, AcceptStart(r, t) \/ RetryStart(r, t) \/ RejectStart(r, t)
        PROVE  TypeOK' /\ TargetKnown'
    BY <2>1 DEF AcceptStart, RetryStart, RejectStart, TypeOK, TargetKnown, Statuses, Filters
  <2>2. ASSUME NEW f \in Filters, DeleteStart(r, f) PROVE TypeOK' /\ TargetKnown'
    BY <2>2 DEF DeleteStart, Matching, TypeOK, TargetKnown
  <2> QED BY <1>4, <2>1, <2>2 DEF UserStep
<1>5. ASSUME NEW r \in Requests, ReviewStep(r) PROVE TypeOK' /\ TargetKnown'
  <2> USE DEF Actors, Goes, Answers, Upsert, Exists
  <2>1. target[r] \in Tasks
    BY <1>5 DEF ReviewStep, Upload, RequestFails, FinalizeSuccess, FinalizeMissing, ReadUsage,
                MarkAccepted, RejectWrite, RejectRelease, TargetKnown
  <2>2. CASE Upload(r)
    <3>1. inImmich' \in [Tasks -> BOOLEAN]
      BY <2>1, <2>2 DEF Upload, TypeOK
    <3>2. pc' = [pc EXCEPT ![r] = "uploaded"] /\ TargetKnown'
      BY <2>1, <2>2 DEF Upload, TypeOK, TargetKnown
    <3> QED BY <2>2, <3>1, <3>2 DEF Upload, TypeOK
  <2>7. CASE FinalizeMissing(r)
    BY <2>1, <2>7 DEF FinalizeMissing, TypeOK, TargetKnown
  <2>5. CASE RequestFails(r)
    BY <2>1, <2>5 DEF RequestFails, TypeOK, TargetKnown, Statuses
  <2>6. CASE FinalizeSuccess(r)
    BY <2>1, <2>6 DEF FinalizeSuccess, TypeOK, TargetKnown, Statuses
  <2>3. CASE ReadUsage(r) \/ MarkAccepted(r)
    BY <2>1, <2>3 DEF ReadUsage, MarkAccepted, TypeOK, TargetKnown
  <2>4. CASE RejectWrite(r) \/ RejectRelease(r)
    BY <2>1, <2>4 DEF RejectWrite, RejectRelease, Released, TypeOK, TargetKnown, Statuses
  <2> QED BY <1>5, <2>2, <2>3, <2>4, <2>5, <2>6, <2>7 DEF ReviewStep
<1>6. ASSUME NEW r \in Requests, DeleteStep(r) PROVE TypeOK' /\ TargetKnown'
  <2> USE DEF Actors, Goes, QueueDeletion
  <2>1. CASE DeleteRows(r)
    BY <2>1, ReviewAssumption DEF DeleteRows, TypeOK, TargetKnown
  <2>2. ASSUME NEW t \in Tasks, DeleteRelease(r, t) PROVE TypeOK' /\ TargetKnown'
    BY <2>2, ReviewAssumption DEF DeleteRelease, Released, TypeOK, TargetKnown
  <2> QED BY <1>6, <2>1, <2>2 DEF DeleteStep
<1>7. ASSUME NEW r \in Actors, NEW F \in SUBSET Tasks, NEW M \in SUBSET Tasks,
             NEW O \in SUBSET Tasks, Retention(r, F, M, O)
      PROVE  TypeOK' /\ TargetKnown'
  BY <1>7, ReviewAssumption DEF Retention, QueueDeletion, Goes, TypeOK, TargetKnown
<1>8. ASSUME NEW r \in Actors, NEW D \in SUBSET Tasks, NEW B \in SUBSET Tasks, Purge(r, D, B)
      PROVE  TypeOK' /\ TargetKnown'
  <2>1. busy' \in 0..MaxBusy
    BY <1>8, PurgeCounts DEF Purge, TypeOK
  <2>2. attempts' \in [Tasks -> 0..MaxAttempts]
    BY <1>8, ReviewAssumption DEF Purge, TypeOK
  <2>3. /\ job' \in [Tasks -> {"none", "pending", "failed", "completed"}]
        /\ file' \in [Tasks -> BOOLEAN]
    BY <1>8 DEF Purge, TypeOK
  <2> QED BY <1>8, <2>1, <2>2, <2>3 DEF Purge, Goes, TypeOK, TargetKnown
<1>9. ASSUME NEW S \in SUBSET Tasks, Restart(S) PROVE TypeOK' /\ TargetKnown'
  <2>1. usage' \in [Tasks -> {"none", "pending", "accepted", "released"}]
    BY <1>9 DEF Restart, Backfilled, TypeOK
  <2>2. restarts' \in 0..MaxRestarts
    BY <1>9, ReviewAssumption DEF Restart, TypeOK
  <2> QED BY <1>9, <2>1, <2>2 DEF Restart, TypeOK, TargetKnown, Statuses, LiveWork, Filters
<1> QED BY <1>2, <1>3, <1>4, <1>5, <1>6, <1>7, <1>8, <1>9 DEF Next

-----------------------------------------------------------------------------
(* Uploads and the registry.                                               *)

\* Everything but FinalizeSuccess and Upload takes from the statuses and ids.
LEMMA UploadFrame ==
  ASSUME TypeOK, UploadInv,
         \A t \in Tasks : row'[t] = "UPLOADED" => row[t] = "UPLOADED" /\ uploaded'[t],
         \A t \in Tasks : uploaded'[t] => uploaded[t],
         \A t \in Tasks : usage'[t] = "accepted" => usage[t] = "accepted" \/ row[t] = "UPLOADED",
         UNCHANGED inImmich,
         \A r \in Actors : pc'[r] \in {"uploaded", "accepting", "marking"} =>
           /\ target'[r] \in Tasks
           /\ \/ pc[r] \in {"uploaded", "accepting", "marking"} /\ target'[r] = target[r]
              \/ uploaded[target'[r]]
  PROVE  UploadInv'
BY DEF UploadInv, AcceptedIsUploaded, UploadedIsInImmich, IdIsInImmich, AnswerIsInImmich

LEMMA NextUploadInv == IInv /\ [Next]_vars => UploadInv'
<1> SUFFICES ASSUME IInv, [Next]_vars PROVE UploadInv'
  OBVIOUS
<1>1. TypeOK /\ TargetKnown /\ UploadInv
  BY DEF IInv
<1> USE <1>1 DEF rowVars, jobVars, reqVars, counts
<1>2. CASE UNCHANGED vars
  BY <1>2 DEF vars, UploadInv, AcceptedIsUploaded, UploadedIsInImmich, IdIsInImmich,
              AnswerIsInImmich
<1>0. \A r \in Actors : pc[r] \in {"uploaded", "accepting", "marking"} => target[r] \in Tasks
  BY DEF TargetKnown
<1>3. ASSUME NEW t \in Tasks, WorkStep(t) PROVE UploadInv'
  <2> USE DEF WorkerGoes, Upsert
  <2>1. UNCHANGED <<uploaded, inImmich, pc, target>>
    BY <1>3 DEF WorkStep, Begin, MarkPending, SelectWithoutRegistry, Progress, SaveOutput,
                PersistResult, Trace, Finish, FailRow, FailRelease, FailHistory, WorkerLost,
                Supervise, ResetStuck
  <2>2. row' = row \/ \E s \in {"RUNNING", "PENDING_REVIEW", "FAILED"} : Upsert(t, s)
    BY <1>3 DEF WorkStep, Begin, MarkPending, SelectWithoutRegistry, Progress, SaveOutput,
                PersistResult, Trace, Finish, FailRow, FailRelease, FailHistory, WorkerLost,
                Supervise, ResetStuck
  <2>3. \A u \in Tasks : usage'[u] = "accepted" => usage[u] = "accepted"
    <3>1. CASE MarkPending(t) \/ FailRelease(t)
      BY <3>1 DEF MarkPending, FailRelease, Released, TypeOK
    <3>2. CASE ~(MarkPending(t) \/ FailRelease(t))
      BY <1>3, <3>2 DEF WorkStep, Begin, SelectWithoutRegistry, Progress, SaveOutput,
                        PersistResult, Trace, Finish, FailRow, FailHistory, WorkerLost,
                        Supervise, ResetStuck
    <3> QED BY <3>1, <3>2
  <2>4. \A u \in Tasks : row'[u] = "UPLOADED" => row[u] = "UPLOADED" /\ uploaded[u]
    BY <2>2 DEF TypeOK, UploadInv, UploadedIsInImmich
  <2> QED BY <1>0, <2>1, <2>3, <2>4, UploadFrame
<1>4. ASSUME NEW r \in Requests, UserStep(r) PROVE UploadInv'
  <2>1. UNCHANGED <<rowVars, usage, inImmich>>
    BY <1>4 DEF UserStep, AcceptStart, RetryStart, RejectStart, DeleteStart
  <2>2. \A q \in Actors : pc'[q] \in {"uploaded", "accepting", "marking"} =>
          /\ target'[q] \in Tasks
          /\ \/ pc[q] \in {"uploaded", "accepting", "marking"} /\ target'[q] = target[q]
             \/ uploaded[target'[q]]
    BY <1>0, <1>4 DEF UserStep, AcceptStart, RetryStart, RejectStart, DeleteStart, Starts, Goes,
                      Actors, TypeOK
  <2> QED BY <2>1, <2>2, UploadFrame DEF UploadInv, UploadedIsInImmich
<1>5. ASSUME NEW r \in Requests, ReviewStep(r) PROVE UploadInv'
  <2> USE DEF Actors, Goes, Answers, Upsert
  <2>1. target[r] \in Tasks
    BY <1>5 DEF ReviewStep, Upload, RequestFails, FinalizeSuccess, FinalizeMissing, ReadUsage,
                MarkAccepted, RejectWrite, RejectRelease, TargetKnown
  <2>2. CASE Upload(r)
    BY <2>1, <2>2 DEF Upload, TypeOK, TargetKnown, UploadInv, AcceptedIsUploaded,
                      UploadedIsInImmich, IdIsInImmich, AnswerIsInImmich
  <2>3. CASE FinalizeSuccess(r)
    <3>1. inImmich[target[r]]
      BY <2>3 DEF FinalizeSuccess, UploadInv, AnswerIsInImmich
    <3> QED BY <2>1, <2>3, <3>1
            DEF FinalizeSuccess, TypeOK, UploadInv, AcceptedIsUploaded, UploadedIsInImmich,
                IdIsInImmich, AnswerIsInImmich
  <2>4. CASE MarkAccepted(r)
    <3>1. inImmich[target[r]]
      BY <2>4 DEF MarkAccepted, UploadInv, AnswerIsInImmich
    <3> QED BY <2>1, <2>4, <3>1
            DEF MarkAccepted, TypeOK, UploadInv, AcceptedIsUploaded, UploadedIsInImmich,
                IdIsInImmich, AnswerIsInImmich
  <2>5. CASE RequestFails(r) \/ FinalizeMissing(r) \/ ReadUsage(r)
    BY <2>1, <2>5 DEF RequestFails, FinalizeMissing, ReadUsage, TypeOK, UploadInv,
                      AcceptedIsUploaded, UploadedIsInImmich, IdIsInImmich, AnswerIsInImmich
  <2>6. CASE RejectWrite(r) \/ RejectRelease(r)
    BY <2>1, <2>6 DEF RejectWrite, RejectRelease, Released, TypeOK, UploadInv,
                      AcceptedIsUploaded, UploadedIsInImmich, IdIsInImmich, AnswerIsInImmich
  <2> QED BY <1>5, <2>2, <2>3, <2>4, <2>5, <2>6 DEF ReviewStep
<1>6. ASSUME NEW r \in Requests, DeleteStep(r) PROVE UploadInv'
  BY <1>0, <1>6, UploadFrame DEF DeleteStep, DeleteRows, DeleteRelease, Released, Goes, Actors,
                                 TypeOK, UploadInv, UploadedIsInImmich
<1>7. ASSUME NEW r \in Actors, NEW F \in SUBSET Tasks, NEW M \in SUBSET Tasks,
             NEW O \in SUBSET Tasks, Retention(r, F, M, O)
      PROVE  UploadInv'
  BY <1>0, <1>7, UploadFrame DEF Retention, Goes, TypeOK, UploadInv, UploadedIsInImmich
<1>8. ASSUME NEW r \in Actors, NEW D \in SUBSET Tasks, NEW B \in SUBSET Tasks, Purge(r, D, B)
      PROVE  UploadInv'
  BY <1>0, <1>8, UploadFrame DEF Purge, Goes, TypeOK, UploadInv, UploadedIsInImmich
<1>9. ASSUME NEW S \in SUBSET Tasks, Restart(S) PROVE UploadInv'
  BY <1>9, UploadFrame DEF Restart, Backfilled, TypeOK, UploadInv, UploadedIsInImmich
<1> QED BY <1>2, <1>3, <1>4, <1>5, <1>6, <1>7, <1>8, <1>9 DEF Next

-----------------------------------------------------------------------------
(* The files of the results that wait for review.                          *)

\* A step of a worker: what the early steps see is kept, and the result is
\* for review only when its file is there and nobody knows it.
LEMMA WorkFileInv == ASSUME IInv, NEW t \in Tasks, WorkStep(t) PROVE FileInv'
<1> USE DEF IInv, WorkerGoes, Upsert
<1>1. UNCHANGED <<job, pc, seen, doomed, restarts>>
  BY DEF WorkStep, Begin, MarkPending, SelectWithoutRegistry, Progress, SaveOutput,
         PersistResult, Trace, Finish, FailRow, FailRelease, FailHistory, WorkerLost,
         Supervise, ResetStuck, jobVars, reqVars, counts
<1>2. CASE PersistResult(t)
  <2>1. /\ work[t] = "saving" /\ work' = [work EXCEPT ![t] = "review"]
        /\ row' = [row EXCEPT ![t] = "PENDING_REVIEW"]
        /\ path' = [path EXCEPT ![t] = TRUE] /\ file' = file
    BY <1>2 DEF PersistResult
  <2>2. /\ file[t] /\ job[t] = "none"
        /\ \A r \in Actors : t \notin doomed[r]
    BY <2>1 DEF FileInv, NotYetKnown, SavedIsThere, DoomedIsCovered, Early
  <2>3. NotYetKnown' /\ SavedIsThere' /\ ReviewHasPath'
    BY <1>1, <2>1 DEF TypeOK, FileInv, NotYetKnown, SavedIsThere, ReviewHasPath, Early
  <2>4. DoomedIsCovered'
    BY <1>1, <2>1, <2>2 DEF TypeOK, FileInv, DoomedIsCovered, Early, Covers
  <2>5. ReviewIsSafe'
    BY <1>1, <2>1, <2>2 DEF TypeOK, FileInv, ReviewIsSafe, Covers, OpenJob
  <2> QED BY <2>3, <2>4, <2>5 DEF FileInv
<1>3. CASE ~PersistResult(t)
  <2>1. /\ path' = path
        /\ \A u \in Tasks : file[u] => file'[u]
        /\ \A u \in Tasks : row'[u] = "PENDING_REVIEW" => row[u] = "PENDING_REVIEW"
    BY <1>3 DEF WorkStep, Begin, MarkPending, SelectWithoutRegistry, Progress, SaveOutput,
                Trace, Finish, FailRow, FailRelease, FailHistory, WorkerLost,
                Supervise, ResetStuck, rowVars, TypeOK
  <2>2. \A u \in Tasks : work'[u] \in Early => work[u] \in Early
    BY <1>3 DEF WorkStep, Begin, MarkPending, SelectWithoutRegistry, Progress, SaveOutput,
                Trace, Finish, FailRow, FailRelease, FailHistory, WorkerLost,
                Supervise, ResetStuck, TypeOK, Early
  <2>3. \A u \in Tasks : work'[u] = "saving" => file'[u]
    <3>1. CASE SaveOutput(t)
      BY <3>1, <2>1 DEF SaveOutput, TypeOK, FileInv, SavedIsThere
    <3>2. CASE ~SaveOutput(t)
      <4>1. \A u \in Tasks : work'[u] = "saving" => work[u] = "saving"
        BY <1>3, <3>2 DEF WorkStep, Begin, MarkPending, SelectWithoutRegistry, Progress,
                Trace, Finish, FailRow, FailRelease, FailHistory, WorkerLost,
                Supervise, ResetStuck, TypeOK
      <4> QED BY <4>1, <2>1 DEF FileInv, SavedIsThere
    <3> QED BY <3>1, <3>2
  <2>4. NotYetKnown' /\ SavedIsThere' /\ ReviewHasPath'
    BY <1>1, <2>1, <2>2, <2>3 DEF FileInv, NotYetKnown, SavedIsThere, ReviewHasPath
  <2>5. DoomedIsCovered'
    BY <1>1, <2>1, <2>2 DEF TypeOK, FileInv, DoomedIsCovered, Covers
  <2>6. ReviewIsSafe'
    BY <1>1, <2>1 DEF FileInv, ReviewIsSafe, Covers, OpenJob
  <2> QED BY <2>4, <2>5, <2>6 DEF FileInv
<1> QED BY <1>2, <1>3

\* A delete request: the jobs it makes are for results that it covers.
LEMMA DeleteFileInv == ASSUME IInv, NEW r \in Requests, DeleteStep(r) PROVE FileInv'
<1> USE DEF IInv, Actors
<1>1. CASE DeleteRows(r)
  <2> DEFINE gone == Matching(seen[r])
  <2>1. /\ pc[r] = "deleting"
        /\ pc' = [pc EXCEPT ![r] = "purging"] /\ seen' = [seen EXCEPT ![r] = "none"]
        /\ doomed' = [doomed EXCEPT ![r] = {}]
        /\ row' = [t \in Tasks |-> IF t \in gone THEN "absent" ELSE row[t]]
        /\ path' = [t \in Tasks |-> path[t] /\ t \notin gone]
        /\ job' = [t \in Tasks |-> IF t \in doomed[r] THEN "pending" ELSE job[t]]
        /\ UNCHANGED <<file, work, restarts>>
    BY <1>1 DEF DeleteRows, Goes, QueueDeletion, counts
  <2>2. \A t \in Tasks : row'[t] = "PENDING_REVIEW" =>
          row[t] = "PENDING_REVIEW" /\ t \notin gone /\ ~Covers(r)
    BY <2>1 DEF Matching, Exists, Covers
  <2>3. \A q \in Actors : q # r => (Covers(q)' <=> Covers(q)) /\ doomed'[q] = doomed[q]
    BY <2>1 DEF Covers, TypeOK
  <2>4. NotYetKnown' /\ SavedIsThere'
    BY <2>1 DEF FileInv, NotYetKnown, SavedIsThere, DoomedIsCovered
  <2>5. ReviewHasPath'
    BY <2>1, <2>2 DEF FileInv, ReviewHasPath
  <2>6. DoomedIsCovered'
    <3>1. doomed'[r] = {}
      BY <2>1 DEF TypeOK
    <3>2. \A q \in Actors : \A t \in doomed[q] : t \in Tasks
      BY DEF TypeOK
    <3>3. \A q \in Actors : q # r => \A t \in doomed'[q] :
            q \in Requests /\ work'[t] \notin Early /\ (row'[t] = "PENDING_REVIEW" => Covers(q)')
      BY <2>1, <2>2, <2>3, <3>2 DEF FileInv, DoomedIsCovered
    <3> QED BY <3>1, <3>3 DEF DoomedIsCovered, Covers
  <2>7. ASSUME restarts' = 0, NEW t \in Tasks, row'[t] = "PENDING_REVIEW"
        PROVE  (file[t] /\ ~OpenJob(t)') \/ \E q \in Requests : Covers(q)'
    <3>1. t \notin doomed[r]
      BY <2>2, <2>7 DEF FileInv, DoomedIsCovered
    <3>2. (file[t] /\ ~OpenJob(t)) \/ \E q \in Requests : Covers(q)
      BY <2>1, <2>2, <2>7 DEF FileInv, ReviewIsSafe
    <3>3. OpenJob(t)' <=> OpenJob(t)
      BY <2>1, <3>1 DEF OpenJob
    <3> QED BY <2>2, <2>3, <2>7, <3>2, <3>3
  <2>8. ReviewIsSafe'
    BY <2>1, <2>7 DEF ReviewIsSafe, OpenJob, Covers
  <2> QED BY <2>4, <2>5, <2>6, <2>8 DEF FileInv
<1>2. ASSUME NEW u \in Tasks, DeleteRelease(r, u) PROVE FileInv'
  <2>1. /\ doomed' = [doomed EXCEPT ![r] = {}]
        /\ job' = [t \in Tasks |-> IF t \in doomed[r] THEN "pending" ELSE job[t]]
        /\ UNCHANGED <<row, path, file, work, pc, seen, restarts>>
    BY <1>2 DEF DeleteRelease, QueueDeletion, counts, rowVars
  <2>2. NotYetKnown' /\ SavedIsThere' /\ ReviewHasPath'
    BY <2>1 DEF FileInv, NotYetKnown, SavedIsThere, ReviewHasPath, DoomedIsCovered
  <2>3. DoomedIsCovered'
    BY <2>1 DEF FileInv, DoomedIsCovered, Covers, TypeOK
  <2>4. ReviewIsSafe'
    <3>1. \A t \in doomed[r] : row[t] = "PENDING_REVIEW" => Covers(r)
      BY DEF FileInv, DoomedIsCovered
    <3> QED BY <2>1, <3>1 DEF FileInv, ReviewIsSafe, OpenJob, Covers
  <2> QED BY <2>2, <2>3, <2>4 DEF FileInv
<1> QED BY <1>1, <1>2 DEF DeleteStep

\* The other requests write no path, file or job, and make nothing that waits
\* for review.
LEMMA RequestFileInv ==
  ASSUME IInv, NEW r \in Requests, UserStep(r) \/ ReviewStep(r) PROVE FileInv'
<1> USE DEF IInv, Actors, Goes, rowVars, jobVars, counts
<1>1. CASE ReviewStep(r)
  <2>2. UNCHANGED <<path, file, job, work, doomed, restarts>>
    BY <1>1 DEF ReviewStep, Upload, RequestFails, FinalizeSuccess, FinalizeMissing, ReadUsage,
                MarkAccepted, RejectWrite, RejectRelease, Answers
  <2>3. \A t \in Tasks : row'[t] = "PENDING_REVIEW" => row[t] = "PENDING_REVIEW"
    BY <1>1 DEF ReviewStep, Upload, RequestFails, FinalizeSuccess, FinalizeMissing, ReadUsage,
                MarkAccepted, RejectWrite, RejectRelease, Upsert, TypeOK
  <2>4. /\ pc[r] # "deleting"
        /\ \A q \in Actors : q # r => pc'[q] = pc[q] /\ seen'[q] = seen[q]
    BY <1>1 DEF ReviewStep, Upload, RequestFails, FinalizeSuccess, FinalizeMissing, ReadUsage,
                MarkAccepted, RejectWrite, RejectRelease, Answers, TypeOK
  <2>5. \A q \in Actors : Covers(q) => Covers(q)'
    BY <2>4 DEF Covers
  <2>6. NotYetKnown' /\ SavedIsThere' /\ ReviewHasPath'
    BY <2>2, <2>3 DEF FileInv, NotYetKnown, SavedIsThere, ReviewHasPath
  <2>7. DoomedIsCovered'
    BY <2>2, <2>3, <2>5 DEF FileInv, DoomedIsCovered, TypeOK
  <2>8. ReviewIsSafe'
    BY <2>2, <2>3, <2>5 DEF FileInv, ReviewIsSafe, OpenJob
  <2> QED BY <2>6, <2>7, <2>8 DEF FileInv
<1>2. CASE UserStep(r)
  <2>1. UNCHANGED <<row, path, file, job, work, restarts>>
    BY <1>2 DEF UserStep, AcceptStart, RetryStart, RejectStart, DeleteStart
  <2>2. /\ pc[r] = "idle"
        /\ \A q \in Actors : q # r => pc'[q] = pc[q] /\ seen'[q] = seen[q] /\ doomed'[q] = doomed[q]
    BY <1>2 DEF UserStep, AcceptStart, RetryStart, RejectStart, DeleteStart, Starts, TypeOK
  <2>3. \A q \in Actors : Covers(q) => Covers(q)'
    BY <2>2 DEF Covers
  <2>4. \A t \in doomed'[r] :
          work'[t] \notin Early /\ (row'[t] = "PENDING_REVIEW" => Covers(r)')
    <3>1. CASE \E t \in Tasks : AcceptStart(r, t) \/ RetryStart(r, t) \/ RejectStart(r, t)
      <4>1. doomed' = doomed
        BY <3>1 DEF AcceptStart, RetryStart, RejectStart, Starts
      <4> QED BY <2>1, <2>2, <2>3, <4>1 DEF FileInv, DoomedIsCovered, Covers, TypeOK
    <3>2. ASSUME NEW f \in Filters, DeleteStart(r, f)
          PROVE  \A t \in doomed'[r] :
                   work'[t] \notin Early /\ (row'[t] = "PENDING_REVIEW" => Covers(r)')
      <4>1. /\ doomed'[r] \subseteq {t \in Matching(f) : path[t]}
            /\ pc'[r] = "deleting" /\ seen'[r] = f
        BY <3>2 DEF DeleteStart, TypeOK
      <4> QED BY <2>1, <4>1 DEF Matching, FileInv, NotYetKnown, Covers
    <3> QED BY <1>2, <3>1, <3>2 DEF UserStep
  <2>5. NotYetKnown' /\ SavedIsThere' /\ ReviewHasPath'
    BY <2>1 DEF FileInv, NotYetKnown, SavedIsThere, ReviewHasPath
  <2>6. DoomedIsCovered'
    BY <2>1, <2>2, <2>3, <2>4 DEF FileInv, DoomedIsCovered
  <2>7. ReviewIsSafe'
    BY <2>1, <2>3 DEF FileInv, ReviewIsSafe, OpenJob
  <2> QED BY <2>5, <2>6, <2>7 DEF FileInv
<1> QED BY <1>1, <1>2

LEMMA NextFileInv == IInv /\ [Next]_vars => FileInv'
<1> SUFFICES ASSUME IInv, [Next]_vars PROVE FileInv'
  OBVIOUS
<1> USE DEF IInv
<1>1. CASE UNCHANGED vars
  BY <1>1 DEF vars, rowVars, jobVars, reqVars, counts, FileInv, NotYetKnown, SavedIsThere,
              ReviewHasPath, DoomedIsCovered, ReviewIsSafe, Covers, OpenJob
<1>2. ASSUME NEW r \in Actors, NEW F \in SUBSET Tasks, NEW M \in SUBSET Tasks,
             NEW O \in SUBSET Tasks, Retention(r, F, M, O)
      PROVE  FileInv'
  <2>1. /\ pc[r] = "idle" /\ pc' = [pc EXCEPT ![r] = "purging"]
        /\ job' = [t \in Tasks |-> IF t \in F \cup O THEN "pending" ELSE job[t]]
        /\ row' = [t \in Tasks |-> IF t \in M THEN "absent" ELSE row[t]]
        /\ path' = [t \in Tasks |-> path[t] /\ t \notin F \cup M]
        /\ UNCHANGED <<file, work, seen, doomed, restarts>>
    BY <1>2 DEF Retention, Goes, QueueDeletion, counts
  <2>2. \A t \in F \cup M \cup O : work[t] = "done" /\ row[t] # "PENDING_REVIEW"
    BY <1>2 DEF Retention, Retainable, Orphan, Over, Referenced, Exists, FileInv, ReviewHasPath
  <2>3. \A q \in Actors : Covers(q) => Covers(q)'
    BY <2>1 DEF Covers, TypeOK
  <2>4. NotYetKnown' /\ SavedIsThere' /\ ReviewHasPath'
    BY <2>1, <2>2 DEF FileInv, NotYetKnown, SavedIsThere, ReviewHasPath, Early
  <2>5. DoomedIsCovered'
    <3>1. \A q \in Actors : \A t \in doomed[q] : t \in Tasks
      BY DEF TypeOK
    <3> QED BY <2>1, <2>3, <3>1 DEF FileInv, DoomedIsCovered
  <2>6. ReviewIsSafe'
    BY <2>1, <2>2, <2>3 DEF FileInv, ReviewIsSafe, OpenJob, Actors
  <2> QED BY <2>4, <2>5, <2>6 DEF FileInv
<1>3. ASSUME NEW r \in Actors, NEW D \in SUBSET Tasks, NEW B \in SUBSET Tasks, Purge(r, D, B)
      PROVE  FileInv'
  <2>1. /\ pc[r] = "purging" /\ pc' = [pc EXCEPT ![r] = "idle"]
        /\ \A t \in Tasks : ~OpenJob(t) => (file'[t] <=> file[t]) /\ job'[t] = job[t]
        /\ UNCHANGED <<row, path, work, seen, doomed, restarts>>
    <3> DEFINE selected == {t \in Tasks : job[t] = "pending"} \cup D
    <3>1. \A t \in selected : OpenJob(t)
      BY <1>3 DEF Purge, Retryable, OpenJob
    <3>2. \A t \in Tasks : t \notin selected => (file'[t] <=> file[t])
      BY <1>3, Zenon DEF Purge
    <3>3. \A t \in Tasks : t \notin selected => job'[t] = job[t]
      BY <1>3 DEF Purge
    <3> QED BY <1>3, <3>1, <3>2, <3>3 DEF Purge, Goes, rowVars
  <2>2. \A q \in Actors : Covers(q) => Covers(q)'
    BY <2>1 DEF Covers, TypeOK
  <2>3. NotYetKnown' /\ SavedIsThere' /\ ReviewHasPath'
    BY <2>1 DEF FileInv, NotYetKnown, SavedIsThere, ReviewHasPath, OpenJob, Early
  <2>4. DoomedIsCovered'
    BY <2>1, <2>2 DEF FileInv, DoomedIsCovered
  <2>5. ReviewIsSafe'
    BY <2>1, <2>2 DEF FileInv, ReviewIsSafe, OpenJob, Actors
  <2> QED BY <2>3, <2>4, <2>5 DEF FileInv
<1>4. ASSUME NEW S \in SUBSET Tasks, Restart(S) PROVE FileInv'
  <2>1. restarts' # 0
    BY <1>4, ReviewAssumption DEF Restart, TypeOK
  <2>2. /\ \A t \in Tasks : work'[t] \in {"none", "done"} /\ (work'[t] = "none" => work[t] = "none")
        /\ \A t \in Tasks : row'[t] = "PENDING_REVIEW" => row[t] = "PENDING_REVIEW"
        /\ \A r \in Actors : doomed'[r] = {}
        /\ UNCHANGED <<path, job>>
    BY <1>4 DEF Restart, jobVars, TypeOK
  <2>3. NotYetKnown' /\ SavedIsThere' /\ ReviewHasPath'
    BY <2>2 DEF FileInv, NotYetKnown, SavedIsThere, ReviewHasPath, Early
  <2> QED BY <2>1, <2>2, <2>3 DEF FileInv, DoomedIsCovered, ReviewIsSafe
<1> QED BY <1>1, <1>2, <1>3, <1>4, WorkFileInv, DeleteFileInv, RequestFileInv DEF Next

-----------------------------------------------------------------------------
(* The theorems.                                                           *)

THEOREM Invariant == Spec => []IInv
<1>1. IInv /\ [Next]_vars => IInv'
  BY NextTypeOK, NextUploadInv, NextFileInv DEF IInv
<1> QED BY <1>1, InitIInv, PTL DEF Spec

\* Every variable keeps its type, whatever the requests and workers do
\* (GenerationHistoryModel, AssetUsageModel and FileDeletionJobModel).
THEOREM ReviewTypes == Spec => []TypeOK
BY Invariant, PTL DEF IInv

\* A photo is marked as used for good only if its result is in Immich
\* (accept_task_assets, backfill_asset_usage).
THEOREM AcceptIsEarned == Spec => []AcceptedIsUploaded
<1>1. IInv => AcceptedIsUploaded
  BY DEF IInv, UploadInv
<1> QED BY <1>1, Invariant, PTL

\* A row that says UPLOADED knows its copy, whichever of the requests that
\* overlap wrote it (_finalize_accept_success, _finalize_retry_success).
THEOREM UploadedIsTrue == Spec => []UploadedIsInImmich
<1>1. IInv => UploadedIsInImmich
  BY DEF IInv, UploadInv
<1> QED BY <1>1, Invariant, PTL

\* No delete request, retention run or file deletion job takes the file of a
\* result that waits for review (queue_file_deletion, execute_retention).
THEOREM ReviewKeepsFile == Spec => []ReviewHasFile
<1>1. IInv => ReviewHasFile
  BY DEF IInv, FileInv, ReviewIsSafe, ReviewHasFile, Covers
<1> QED BY <1>1, Invariant, PTL
=============================================================================
