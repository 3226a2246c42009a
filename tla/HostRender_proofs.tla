-------------------------- MODULE HostRender_proofs --------------------------
(***************************************************************************)
(* Proofs about HostRender, for any number of tasks and schedules and any  *)
(* bounds; OwnPicture for strict recovery.                                 *)
(***************************************************************************)
EXTENDS HostRender, TLAPS

\* Where a picture comes from. The tool names a file after its own task or
\* after none; so strict recovery copies a task's own picture. While
\* finalize-host may run nobody writes the file any more.
PictureInv ==
  /\ \A i \in gallery : i.name \in {i.of, NoTask}
  /\ Strict => \A t \in Tasks : output[t] \in {t, NoImage, Broken}
  /\ \A t \in Tasks :
       proc["finalize"][t] # "idle" =>
         /\ agent[t] \notin {"idle", "preparing", "generating", "rendering", "checking"}
         /\ output[t] \in Tasks

\* What the progress of a process says of the result.
ResultInv ==
  /\ \A t \in Tasks, k \in {"generate", "finalize", "worker"} :
       proc[k][t] \in {"saved", "succeeded"} => result[t] # NoImage
  /\ \A t \in Tasks, k \in {"generate", "finalize"} :
       proc[k][t] = "ok" => result[t] # NoImage
  /\ StoredHasPicture
  /\ DoneIsStored

LEMMA InitTypeOK == Init => TypeOK
<1> SUFFICES ASSUME Init PROVE TypeOK
  OBVIOUS
<1> USE HostAssumption DEF HostAssumption, Init, TypeOK
<1>1. proc \in [Kinds -> [Tasks -> Exits \cup Inside]]
  BY DEF Exits
<1>2. agent \in [Tasks -> {"idle", "done", "failed", "killed"} \cup Working]
  OBVIOUS
<1>3. QED BY <1>1, <1>2

LEMMA WriteType ==
  ASSUME TypeOK, NEW t \in Tasks,
         NEW s \in {"none", "queued", "running", "succeeded", "failed"},
         NEW h \in {"none", "QUEUED", "RUNNING", "FAILED"} \cup Stored,
         Write(t, s, h)
  PROVE  /\ task' \in [Tasks -> {"none", "queued", "running", "succeeded", "failed"}]
         /\ history' \in [Tasks -> {"none", "QUEUED", "RUNNING", "FAILED"} \cup Stored]
         /\ old' \subseteq Tasks
BY DEF Write, TypeOK

LEMMA ProcType ==
  ASSUME TypeOK, NEW t \in Tasks, NEW k \in Kinds, NEW to \in Exits \cup Inside,
         proc' = [proc EXCEPT ![k][t] = to]
  PROVE  proc' \in [Kinds -> [Tasks -> Exits \cup Inside]]
BY DEF TypeOK

\* The rows keep their type when the scheduler or a process writes them.
RowsTyped ==
  /\ task' \in [Tasks -> {"none", "queued", "running", "succeeded", "failed"}]
  /\ history' \in [Tasks -> {"none", "QUEUED", "RUNNING", "FAILED"} \cup Stored]
  /\ old' \subseteq Tasks
  /\ payload' \in [Tasks -> BOOLEAN]

LEMMA BackendTypeOK ==
  ASSUME TypeOK, PictureInv, NEW t \in Tasks, BackendStep(t)
  PROVE  TypeOK'
<1>0. TypeOK /\ PictureInv
  OBVIOUS
<1>a. "generate" \in Kinds /\ "worker" \in Kinds /\ "finalize" \in Kinds /\
      "prepare" \in Kinds /\ "fail" \in Kinds
  BY DEF Kinds
<1>p. ASSUME NEW k \in Kinds, NEW from, NEW to \in Exits \cup Inside, ProcGoes(k, t, from, to)
      PROVE  proc' \in [Kinds -> [Tasks -> Exits \cup Inside]]
  BY <1>0, <1>p, ProcType DEF ProcGoes
<1>w. ASSUME NEW s \in {"none", "queued", "running", "succeeded", "failed"},
             NEW h \in {"none", "QUEUED", "RUNNING", "FAILED"} \cup Stored,
             NEW u \in Tasks, Write(u, s, h), UNCHANGED payload
      PROVE  RowsTyped
  <2>1. payload' \in [Tasks -> BOOLEAN]
    BY <1>0, <1>w DEF TypeOK
  <2>2. QED BY <1>0, <1>w, <2>1, WriteType DEF RowsTyped
<1>k. ASSUME RowsTyped, proc' \in [Kinds -> [Tasks -> Exits \cup Inside]],
             UNCHANGED result \/ result' \in [Tasks -> Tasks \cup {NoImage}], BackendKeeps
      PROVE  TypeOK'
  BY <1>0, <1>k DEF TypeOK, RowsTyped, BackendKeeps, fileVars, countVars
<1>u. ASSUME UNCHANGED rowVars PROVE RowsTyped
  BY <1>0, <1>u DEF TypeOK, RowsTyped, rowVars
<1>h. history[t] \in {"none", "QUEUED", "RUNNING", "FAILED"} \cup Stored /\
      task[t] \in {"none", "queued", "running", "succeeded", "failed"}
  BY <1>0 DEF TypeOK
<1> USE DEF Exits, Inside
<1>1. CASE CheckActive(t)
  BY <1>1, <1>a, <1>p, <1>k, <1>u DEF CheckActive
<1>2. CASE RefuseActive(t)
  BY <1>2, <1>a, <1>p, <1>k, <1>u DEF RefuseActive
<1>3. CASE ClearStale(t)
  BY <1>3, <1>a, <1>p, <1>k, <1>w DEF ClearStale, WriteFailed, Others
<1>4. CASE InsertTask(t)
  BY <1>4, <1>a, <1>p, <1>k, <1>w, <1>h DEF InsertTask, SetTask
<1>5. CASE PreparePlans(t)
  BY <1>5, <1>a, <1>p, <1>k, <1>w DEF PreparePlans, WriteRunning
<1>6. CASE PrepareReady(t)
  BY <1>6, <1>a, <1>p, <1>k, <1>w, <1>h DEF PrepareReady, SetHistory
<1>7. CASE PreparationFails(t)
  <2>1. proc' \in [Kinds -> [Tasks -> Exits \cup Inside]]
    BY <1>7, <1>a, <1>p DEF PreparationFails
  <2>2. RowsTyped
    BY <1>7, <1>w, <1>h DEF PreparationFails
  <2>3. QED BY <1>7, <1>k, <2>1, <2>2 DEF PreparationFails
<1>8. CASE GenerateQueues(t)
  <2>1. proc' \in [Kinds -> [Tasks -> Exits \cup Inside]]
    BY <1>8, <1>a, <1>p DEF GenerateQueues
  <2>2. RowsTyped
    BY <1>0, <1>8, WriteType DEF GenerateQueues, RowsTyped, TypeOK
  <2>3. QED BY <1>8, <1>k, <2>1, <2>2 DEF GenerateQueues
<1>9. CASE FinalizeRuns(t)
  BY <1>9, <1>a, <1>p, <1>k, <1>w DEF FinalizeRuns, WriteRunning
<1>10. CASE FinalizeFails(t)
  BY <1>10, <1>a, <1>p, <1>k, <1>u DEF FinalizeFails
<1>11. CASE GenerateFoundFailed(t)
  BY <1>11, <1>a, <1>p, <1>k, <1>w, <1>h DEF GenerateFoundFailed, SetTask
<1>12. CASE FailHost(t)
  BY <1>12, <1>a, <1>p, <1>k, <1>w DEF FailHost, WriteFailed
<1>13. ASSUME NEW k \in {"generate", "worker"}, PipelineRuns(k, t) PROVE TypeOK'
  BY <1>13, <1>a, <1>p, <1>k, <1>w DEF PipelineRuns, WriteRunning
<1>14. ASSUME NEW k \in {"generate", "worker"}, PipelineFails(k, t) PROVE TypeOK'
  BY <1>14, <1>a, <1>p, <1>k, <1>w DEF PipelineFails, WriteFailed
<1>15. ASSUME NEW k \in {"generate", "worker", "finalize"}, Persist(k, t) PROVE TypeOK'
  <2>1. proc' \in [Kinds -> [Tasks -> Exits \cup Inside]]
    BY <1>15, <1>a, <1>p DEF Persist
  <2>2. RowsTyped
    BY <1>15, <1>w, <1>h DEF Persist, SetHistory, Stored
  <2>3. k = "finalize" => output[t] \in Tasks
    BY <1>0, <1>15 DEF Persist, ProcGoes, PictureInv
  <2>4. result' \in [Tasks -> Tasks \cup {NoImage}]
    BY <1>0, <1>15, <2>3 DEF Persist, TypeOK
  <2>5. QED BY <1>15, <1>k, <2>1, <2>2, <2>4 DEF Persist
<1>16. ASSUME NEW k \in {"generate", "worker", "finalize"}, Succeed(k, t) PROVE TypeOK'
  BY <1>16, <1>a, <1>p, <1>k, <1>w, <1>h DEF Succeed, SetTask
<1>17. ASSUME NEW k \in {"generate", "worker", "finalize"}, Exit(k, t) PROVE TypeOK'
  BY <1>17, <1>a, <1>p, <1>k, <1>u DEF Exit
<1>18. QED
  BY <1>1, <1>2, <1>3, <1>4, <1>5, <1>6, <1>7, <1>8, <1>9, <1>10, <1>11, <1>12,
     <1>13, <1>14, <1>15, <1>16, <1>17 DEF BackendStep

LEMMA SchedulerTypeOK ==
  ASSUME TypeOK, NEW t \in Tasks, SchedulerStep(t)
  PROVE  TypeOK'
<1> USE DEF TypeOK, TickKeeps, fileVars, countVars, rowVars
<1>a. "worker" \in Kinds
  BY DEF Kinds
<1>p. ASSUME NEW from, NEW to \in Exits \cup Inside, ProcGoes("worker", t, from, to)
      PROVE  proc' \in [Kinds -> [Tasks -> Exits \cup Inside]]
  BY <1>a, <1>p, ProcType DEF ProcGoes
<1>1. CASE Claim(t)
  <2>1. proc' \in [Kinds -> [Tasks -> Exits \cup Inside]]
    BY <1>1, <1>a, ProcType DEF Claim, Inside
  <2>2. QED BY <1>1, <2>1, WriteType DEF Claim, SetTask
<1>2. CASE NoPayload(t)
  <2>1. proc' \in [Kinds -> [Tasks -> Exits \cup Inside]]
    BY <1>2, <1>p DEF NoPayload, Inside
  <2>2. QED BY <1>2, <2>1, WriteType DEF NoPayload, SetTask
<1>3. CASE WorkerLost(t)
  <2>1. proc' \in [Kinds -> [Tasks -> Exits \cup Inside]]
    BY <1>3, <1>a, ProcType DEF WorkerLost, Inside
  <2>2. QED BY <1>3, <2>1 DEF WorkerLost
<1>4. CASE RecordWorkerFailure(t)
  <2>1. proc' \in [Kinds -> [Tasks -> Exits \cup Inside]]
    BY <1>4, <1>p DEF RecordWorkerFailure, Exits
  <2>2. QED BY <1>4, <2>1, WriteType DEF RecordWorkerFailure, WriteFailed
<1>5. CASE ResetStuck(t)
  <2>1. task[t] \in {"none", "queued", "running", "succeeded", "failed"} /\
        history[t] \in {"none", "QUEUED", "RUNNING", "FAILED"} \cup Stored
    OBVIOUS
  <2>2. stuck' \subseteq {"task", "history"} \X Tasks
    BY <1>5 DEF ResetStuck
  <2>3. RowsTyped
    BY <1>5, <2>1, WriteType DEF ResetStuck, SetTask, SetHistory, RowsTyped
  <2>4. QED BY <1>5, <2>2, <2>3 DEF ResetStuck, RowsTyped
<1>6. QED BY <1>1, <1>2, <1>3, <1>4, <1>5 DEF SchedulerStep

LEMMA AgentTypeOK ==
  ASSUME TypeOK, NEW t \in Tasks, AgentStep(t)
  PROVE  TypeOK'
<1> USE DEF TypeOK, AgentKeeps, rowVars, countVars
<1>e. ASSUME NEW k \in Kinds, Exec(k, t)
      PROVE  proc' \in [Kinds -> [Tasks -> Exits \cup Inside]]
  <2>1. up => proc' = [proc EXCEPT ![k][t] = "started"]
    BY <1>e DEF Exec
  <2>2. ~up => proc' = [proc EXCEPT ![k][t] = "error"]
    BY <1>e DEF Exec
  <2>3. QED BY <2>1, <2>2, ProcType DEF Exits, Inside
<1>a. "generate" \in Kinds /\ "finalize" \in Kinds /\ "prepare" \in Kinds /\ "fail" \in Kinds
  BY DEF Kinds
<1>g. ASSUME NEW from, NEW to \in {"idle", "done", "failed", "killed"} \cup Working,
             AgentGoes(t, from, to)
      PROVE  agent' \in [Tasks -> {"idle", "done", "failed", "killed"} \cup Working]
  BY <1>g DEF AgentGoes
<1>1. ASSUME NEW s \in Schedules, StartIteration(t, s) PROVE TypeOK'
  <2>1. agent' \in [Tasks -> {"idle", "done", "failed", "killed"} \cup Working]
    BY <1>1, <1>g DEF StartIteration, Working
  <2>2. proc' \in [Kinds -> [Tasks -> Exits \cup Inside]]
    BY <1>1, <1>e, <1>a DEF StartIteration
  <2>3. QED BY <1>1, <2>1, <2>2 DEF StartIteration, fileVars
<1>2. CASE LoadManifest(t)
  <2>1. agent' \in [Tasks -> {"idle", "done", "failed", "killed"} \cup Working]
    BY <1>2, <1>g DEF LoadManifest, Working
  <2>2. QED BY <1>2, <2>1 DEF LoadManifest
<1>3. CASE PrepareFails(t)
  <2>1. agent' \in [Tasks -> {"idle", "done", "failed", "killed"} \cup Working]
    BY <1>3, <1>g DEF PrepareFails
  <2>2. QED BY <1>3, <2>1 DEF PrepareFails, fileVars
<1>4. CASE Draw(t)
  BY <1>4 DEF Draw
<1>5. CASE ToolEnds(t)
  <2>1. agent' \in [Tasks -> {"idle", "done", "failed", "killed"} \cup Working]
    BY <1>5, <1>g DEF ToolEnds, Working
  <2>2. QED BY <1>5, <2>1 DEF ToolEnds
<1>6. CASE Recover(t)
  <2>1. output' \in [Tasks -> Tasks \cup {NoImage, Broken}]
    BY <1>6 DEF Recover, Candidates, Named
  <2>2. manifest' \in [Tasks -> {"none", "prepared", "partial", "updated"}]
    BY <1>6 DEF Recover
  <2>3. QED BY <1>6, <2>1, <2>2 DEF Recover
<1>7. CASE StartFinalize(t)
  <2>1. agent' \in [Tasks -> {"idle", "done", "failed", "killed"} \cup Working]
    BY <1>7, <1>g DEF StartFinalize, Working
  <2>2. QED BY <1>7, <1>e, <1>a, <2>1 DEF StartFinalize, fileVars
<1>8. CASE Report(t)
  <2>1. agent' \in [Tasks -> {"idle", "done", "failed", "killed"} \cup Working]
    BY <1>8 DEF Report, Working
  <2>2. QED BY <1>8, <1>e, <1>a, <2>1 DEF Report, fileVars
<1>9. CASE Reported(t)
  <2>1. agent' \in [Tasks -> {"idle", "done", "failed", "killed"} \cup Working]
    BY <1>9, <1>g DEF Reported
  <2>2. QED BY <1>9, <2>1 DEF Reported, fileVars
<1>10. CASE Finish(t)
  <2>1. agent' \in [Tasks -> {"idle", "done", "failed", "killed"} \cup Working]
    BY <1>10, <1>g DEF Finish
  <2>2. QED BY <1>10, <2>1 DEF Finish, fileVars
<1>11. QED
  BY <1>1, <1>2, <1>3, <1>4, <1>5, <1>6, <1>7, <1>8, <1>9, <1>10 DEF AgentStep

LEMMA NextTypeOK == TypeOK /\ PictureInv /\ [Next]_vars => TypeOK'
<1> SUFFICES ASSUME TypeOK, PictureInv, [Next]_vars PROVE TypeOK'
  OBVIOUS
<1>1. ASSUME NEW t \in Tasks, BackendStep(t) PROVE TypeOK'
  BY <1>1, BackendTypeOK
<1>2. ASSUME NEW t \in Tasks, SchedulerStep(t) PROVE TypeOK'
  BY <1>2, SchedulerTypeOK
<1>3. ASSUME NEW t \in Tasks, AgentStep(t) PROVE TypeOK'
  BY <1>3, AgentTypeOK
<1>4. ASSUME NEW t \in Tasks, Age(t) PROVE TypeOK'
  BY <1>4 DEF Age, TypeOK, fileVars, countVars
<1>5. ASSUME NEW t \in Tasks, Decide(t) PROVE TypeOK'
  <2>1. task[t] \in {"none", "queued", "running", "succeeded", "failed"}
    BY DEF TypeOK
  <2>2. QED BY <1>5, <2>1, WriteType DEF Decide, SetHistory, Stored, TypeOK, fileVars, countVars
<1>6. ASSUME NEW t \in Tasks, Kill(t) PROVE TypeOK'
  BY <1>6, HostAssumption DEF HostAssumption, Kill, TypeOK, rowVars, fileVars
<1>7. CASE FindStuck
  BY <1>7 DEF FindStuck, StuckHistory, StuckTasks, TickKeeps, TypeOK, rowVars, fileVars, countVars
<1>8. CASE Restart
  <2>1. proc' \in [Kinds -> [Tasks -> Exits \cup Inside]]
    BY <1>8 DEF Restart, TypeOK, Exits
  <2>2. restarts' \in 0..MaxRestarts
    BY <1>8, HostAssumption DEF HostAssumption, Restart, TypeOK
  <2>3. QED BY <1>8, <2>1, <2>2 DEF Restart, TypeOK, rowVars, fileVars
<1>9. CASE Startup
  BY <1>9 DEF Startup, TypeOK, fileVars
<1>10. CASE CleanManifests
  BY <1>10, HostAssumption DEF HostAssumption, CleanManifests, TypeOK, rowVars
<1>11. CASE UNCHANGED vars
  BY <1>11 DEF vars, TypeOK, rowVars, fileVars, countVars
<1>12. QED
  BY <1>1, <1>2, <1>3, <1>4, <1>5, <1>6, <1>7, <1>8, <1>9, <1>10, <1>11 DEF Next

LEMMA InitPictureInv == Init => PictureInv
BY DEF Init, PictureInv, Kinds

\* A step that draws nothing, starts no finalize-host and leaves the agents
\* that have come that far where they are, or lets them go on.
LEMMA NothingDrawn ==
  ASSUME PictureInv, UNCHANGED <<gallery, output>>,
         \A t \in Tasks : proc'["finalize"][t] # "idle" => proc["finalize"][t] # "idle",
         \A t \in Tasks :
           agent'[t] \in {"idle", "preparing", "generating", "rendering", "checking"}
             => agent[t] \in {"idle", "preparing", "generating", "rendering", "checking"}
  PROVE  PictureInv'
BY DEF PictureInv

LEMMA NextPictureInv == TypeOK /\ PictureInv /\ [Next]_vars => PictureInv'
<1> SUFFICES ASSUME TypeOK, PictureInv, [Next]_vars PROVE PictureInv'
  OBVIOUS
<1>0. TypeOK /\ PictureInv
  OBVIOUS
<1>t. /\ proc \in [Kinds -> [Tasks -> Exits \cup Inside]]
      /\ agent \in [Tasks -> {"idle", "done", "failed", "killed"} \cup Working]
      /\ output \in [Tasks -> Tasks \cup {NoImage, Broken}]
      /\ {"prepare", "generate", "finalize", "fail", "worker"} = Kinds
  BY <1>0 DEF TypeOK, Kinds
<1>p. ASSUME NEW t \in Tasks, NEW k \in Kinds, NEW from, NEW to, ProcGoes(k, t, from, to),
             k = "finalize" => from # "idle"
      PROVE  \A u \in Tasks : proc'["finalize"][u] # "idle" => proc["finalize"][u] # "idle"
  BY <1>p, <1>t DEF ProcGoes
<1>b. ASSUME NEW t \in Tasks, BackendKeeps, NEW k \in Kinds, NEW from, NEW to,
             ProcGoes(k, t, from, to), k = "finalize" => from # "idle"
      PROVE  PictureInv'
  BY <1>0, <1>b, <1>p, NothingDrawn DEF BackendKeeps, fileVars
<1>1. ASSUME NEW t \in Tasks, BackendStep(t) PROVE PictureInv'
  <2>1. CASE CheckActive(t) \/ RefuseActive(t) \/ ClearStale(t) \/ InsertTask(t)
    BY <1>b, <1>t, <2>1 DEF CheckActive, RefuseActive, ClearStale, InsertTask
  <2>2. CASE PreparePlans(t) \/ PrepareReady(t) \/ PreparationFails(t) \/ GenerateQueues(t)
    BY <1>b, <1>t, <2>2 DEF PreparePlans, PrepareReady, PreparationFails, GenerateQueues
  <2>3. CASE FinalizeRuns(t) \/ FinalizeFails(t) \/ GenerateFoundFailed(t) \/ FailHost(t)
    BY <1>b, <1>t, <2>3 DEF FinalizeRuns, FinalizeFails, GenerateFoundFailed, FailHost
  <2>4. ASSUME NEW k \in {"generate", "worker"}, PipelineRuns(k, t) \/ PipelineFails(k, t)
        PROVE PictureInv'
    BY <1>b, <1>t, <2>4 DEF PipelineRuns, PipelineFails
  <2>5. ASSUME NEW k \in {"generate", "worker", "finalize"},
               Persist(k, t) \/ Succeed(k, t) \/ Exit(k, t)
        PROVE PictureInv'
    BY <1>b, <1>t, <2>5 DEF Persist, Succeed, Exit
  <2>6. QED BY <1>1, <2>1, <2>2, <2>3, <2>4, <2>5 DEF BackendStep
<1>2. ASSUME NEW t \in Tasks, SchedulerStep(t) PROVE PictureInv'
  <2>1. \A u \in Tasks : proc'["finalize"][u] = proc["finalize"][u]
    BY <1>2, <1>t DEF SchedulerStep, Claim, NoPayload, WorkerLost, RecordWorkerFailure,
                      ResetStuck, ProcGoes
  <2>2. UNCHANGED <<gallery, output, agent>>
    BY <1>2 DEF SchedulerStep, Claim, NoPayload, WorkerLost, RecordWorkerFailure,
                ResetStuck, TickKeeps, fileVars
  <2>3. QED BY <1>0, <2>1, <2>2, NothingDrawn
<1>3. ASSUME NEW t \in Tasks, AgentStep(t) PROVE PictureInv'
  <2>x. ASSUME NEW k \in Kinds \ {"finalize"}, Exec(k, t)
        PROVE \A u \in Tasks : proc'["finalize"][u] = proc["finalize"][u]
    BY <1>t, <2>x DEF Exec
  <2>1. ASSUME NEW s \in Schedules, StartIteration(t, s) PROVE PictureInv'
    <3>1. \A u \in Tasks : proc'["finalize"][u] = proc["finalize"][u]
      BY <1>t, <2>1, <2>x DEF StartIteration
    <3>2. /\ UNCHANGED <<gallery, output>>
          /\ \A u \in Tasks : agent'[u] # agent[u] => agent[u] = "idle"
      BY <1>t, <2>1 DEF StartIteration, AgentGoes, fileVars
    <3>3. QED BY <1>0, <3>1, <3>2, NothingDrawn
  <2>2. CASE LoadManifest(t)
    BY <1>0, <1>t, <2>2, NothingDrawn DEF LoadManifest, AgentGoes
  <2>3. CASE PrepareFails(t) \/ Reported(t) \/ Finish(t)
    BY <1>0, <1>t, <2>3, NothingDrawn DEF PrepareFails, Reported, Finish, AgentGoes, fileVars
  <2>4. CASE Draw(t)
    <3>1. /\ agent[t] = "rendering" /\ UNCHANGED <<agent, proc>>
          /\ output' = output \/ output' = [output EXCEPT ![t] = t]
                              \/ output' = [output EXCEPT ![t] = Broken]
      BY <2>4 DEF Draw
    <3>2. \A i \in gallery' : i.name \in {i.of, NoTask}
      BY <1>0, <2>4 DEF Draw, PictureInv
    <3>3. proc["finalize"][t] = "idle"
      BY <1>0, <3>1 DEF PictureInv
    <3>4. QED BY <1>0, <1>t, <3>1, <3>2, <3>3 DEF PictureInv
  <2>5. CASE ToolEnds(t)
    BY <1>0, <1>t, <2>5, NothingDrawn DEF ToolEnds, AgentGoes
  <2>6. CASE Recover(t)
    <3>1. PICK i \in Candidates(t) : output' = [output EXCEPT ![t] = i.of]
      BY <2>6 DEF Recover
    <3>2. /\ agent[t] = "checking" /\ UNCHANGED <<agent, proc, gallery>>
          /\ proc["finalize"][t] = "idle"
      BY <1>0, <2>6 DEF Recover, PictureInv
    <3>3. Strict => i.of = t
      BY <1>0, <3>1, HostAssumption DEF Candidates, Named, PictureInv, HostAssumption, Tasks
    <3>4. QED BY <1>0, <1>t, <3>1, <3>2, <3>3 DEF PictureInv
  <2>7. CASE StartFinalize(t)
    <3>1. output[t] \in Tasks /\ agent' = [agent EXCEPT ![t] = "finalizing"]
          /\ UNCHANGED <<gallery, output>>
      BY <1>t, <2>7 DEF StartFinalize, Valid, AgentGoes, fileVars
    <3>2. \A u \in Tasks \ {t} : proc'["finalize"][u] = proc["finalize"][u]
      BY <1>t, <2>7 DEF StartFinalize, Exec
    <3>3. QED BY <1>0, <1>t, <3>1, <3>2 DEF PictureInv
  <2>8. CASE Report(t)
    <3>1. \A u \in Tasks : proc'["finalize"][u] = proc["finalize"][u]
      BY <1>t, <2>8, <2>x DEF Report
    <3>2. QED BY <1>0, <1>t, <2>8, <3>1, NothingDrawn DEF Report, fileVars
  <2>9. QED BY <1>3, <2>1, <2>2, <2>3, <2>4, <2>5, <2>6, <2>7, <2>8 DEF AgentStep
<1>4. ASSUME NEW t \in Tasks, Age(t) \/ Decide(t) PROVE PictureInv'
  BY <1>0, <1>4, NothingDrawn DEF Age, Decide, fileVars
<1>5. ASSUME NEW t \in Tasks, Kill(t) PROVE PictureInv'
  BY <1>0, <1>t, <1>5, NothingDrawn DEF Kill, fileVars
<1>6. CASE FindStuck \/ Startup \/ CleanManifests
  BY <1>0, <1>6, NothingDrawn DEF FindStuck, Startup, CleanManifests, TickKeeps, fileVars
<1>7. CASE Restart
  <2>1. \A t \in Tasks : proc'["finalize"][t] # "idle" => proc["finalize"][t] # "idle"
    BY <1>t, <1>7 DEF Restart, Inside
  <2>2. QED BY <1>0, <1>7, <2>1, NothingDrawn DEF Restart, fileVars
<1>8. CASE UNCHANGED vars
  BY <1>0, <1>8, NothingDrawn DEF vars, fileVars
<1>9. QED
  BY <1>1, <1>2, <1>3, <1>4, <1>5, <1>6, <1>7, <1>8 DEF Next

LEMMA InitResultInv == Init => ResultInv
<1> SUFFICES ASSUME Init PROVE ResultInv
  OBVIOUS
<1>1. \A t \in Tasks, k \in {"generate", "finalize", "worker"} : proc[k][t] = "idle"
  BY DEF Init, Kinds
<1>2. QED BY <1>1 DEF Init, ResultInv, StoredHasPicture, DoneIsStored, Stored

\* A step that leaves the results alone, writes no status that stands for one,
\* lets no process go on to "saved", "succeeded" or a successful exit from
\* anywhere else, and lets no agent say "done".
LEMMA NoResultClaimed ==
  ASSUME ResultInv, UNCHANGED result,
         \A t \in Tasks : history'[t] \in Stored => history[t] \in Stored,
         \A t \in Tasks : task'[t] = "succeeded" => task[t] = "succeeded",
         \A t \in Tasks : agent'[t] = "done" => agent[t] = "done",
         \A t \in Tasks, k \in {"generate", "finalize", "worker"} :
           /\ proc'[k][t] \in {"saved", "succeeded"} => proc[k][t] \in {"saved", "succeeded"}
           /\ proc'[k][t] = "ok" =>
                proc[k][t] \in {"saved", "succeeded", "ok"} \/ k = "worker"
  PROVE  ResultInv'
BY DEF ResultInv, StoredHasPicture, DoneIsStored

LEMMA NextResultInv ==
  TypeOK /\ PictureInv /\ ResultInv /\ [Next]_vars => ResultInv'
<1> SUFFICES ASSUME TypeOK, PictureInv, ResultInv, [Next]_vars PROVE ResultInv'
  OBVIOUS
<1>0. TypeOK /\ PictureInv /\ ResultInv
  OBVIOUS
<1>t. /\ proc \in [Kinds -> [Tasks -> Exits \cup Inside]]
      /\ agent \in [Tasks -> {"idle", "done", "failed", "killed"} \cup Working]
      /\ task \in [Tasks -> {"none", "queued", "running", "succeeded", "failed"}]
      /\ history \in [Tasks -> {"none", "QUEUED", "RUNNING", "FAILED"} \cup Stored]
      /\ result \in [Tasks -> Tasks \cup {NoImage}]
      /\ {"prepare", "generate", "finalize", "fail", "worker"} = Kinds
      /\ NoImage \notin Tasks
  BY <1>0, HostAssumption DEF TypeOK, Kinds, HostAssumption, Tasks
\* A write of a status that claims no result.
<1>w. ASSUME NEW t \in Tasks, NEW s \in {task[t], "queued", "running", "failed"},
             NEW h \in {history[t], "QUEUED", "RUNNING", "FAILED"}, Write(t, s, h)
      PROVE  /\ \A u \in Tasks : history'[u] \in Stored => history[u] \in Stored
             /\ \A u \in Tasks : task'[u] = "succeeded" => task[u] = "succeeded"
  BY <1>t, <1>w DEF Write, Stored
<1>r. ASSUME UNCHANGED rowVars
      PROVE  /\ \A u \in Tasks : history'[u] \in Stored => history[u] \in Stored
             /\ \A u \in Tasks : task'[u] = "succeeded" => task[u] = "succeeded"
  BY <1>r DEF rowVars
<1>p. ASSUME NEW t \in Tasks, NEW k \in Kinds, NEW from, NEW to, ProcGoes(k, t, from, to),
             to \in {"saved", "succeeded"} => from \in {"saved", "succeeded"},
             to = "ok" => from \in {"saved", "succeeded"} \/ k \in {"prepare", "fail", "worker"}
      PROVE  \A u \in Tasks, j \in {"generate", "finalize", "worker"} :
               /\ proc'[j][u] \in {"saved", "succeeded"} => proc[j][u] \in {"saved", "succeeded"}
               /\ proc'[j][u] = "ok" =>
                    proc[j][u] \in {"saved", "succeeded", "ok"} \/ j = "worker"
  BY <1>t, <1>p DEF ProcGoes
<1>1. ASSUME NEW t \in Tasks, BackendStep(t) PROVE ResultInv'
  <2>a. BackendKeeps => UNCHANGED agent
    BY DEF BackendKeeps
  <2>1. CASE CheckActive(t) \/ RefuseActive(t)
    BY <1>0, <1>r, <1>p, <1>t, <2>a, <2>1, NoResultClaimed DEF CheckActive, RefuseActive
  <2>2. CASE ClearStale(t)
    BY <1>0, <1>w, <1>p, <1>t, <2>a, <2>2, NoResultClaimed DEF ClearStale, WriteFailed, Others
  <2>3. CASE InsertTask(t) \/ GenerateQueues(t) \/ PrepareReady(t)
    BY <1>0, <1>w, <1>p, <1>t, <2>a, <2>3, NoResultClaimed
       DEF InsertTask, SetTask, GenerateQueues, PrepareReady, SetHistory
  <2>4. CASE PreparePlans(t) \/ FinalizeRuns(t)
    BY <1>0, <1>w, <1>p, <1>t, <2>a, <2>4, NoResultClaimed
       DEF PreparePlans, FinalizeRuns, WriteRunning
  <2>5. CASE PreparationFails(t)
    BY <1>0, <1>w, <1>p, <1>t, <2>a, <2>5, NoResultClaimed DEF PreparationFails
  <2>6. CASE FinalizeFails(t)
    BY <1>0, <1>r, <1>p, <1>t, <2>a, <2>6, NoResultClaimed DEF FinalizeFails
  <2>7. CASE GenerateFoundFailed(t) \/ FailHost(t)
    BY <1>0, <1>w, <1>p, <1>t, <2>a, <2>7, NoResultClaimed
       DEF GenerateFoundFailed, SetTask, FailHost, WriteFailed
  <2>8. ASSUME NEW k \in {"generate", "worker"}, PipelineRuns(k, t) \/ PipelineFails(k, t)
        PROVE ResultInv'
    BY <1>0, <1>w, <1>p, <1>t, <2>a, <2>8, NoResultClaimed
       DEF PipelineRuns, WriteRunning, PipelineFails, WriteFailed
  <2>9. ASSUME NEW k \in {"generate", "worker", "finalize"}, Persist(k, t) PROVE ResultInv'
    <3>1. k = "finalize" => output[t] \in Tasks
      BY <1>0, <2>9 DEF Persist, ProcGoes, PictureInv
    <3>2. /\ result'[t] # NoImage
          /\ \A u \in Tasks \ {t} : result'[u] = result[u]
      BY <1>t, <2>9, <3>1 DEF Persist
    <3>3. /\ \A u \in Tasks \ {t} : history'[u] = history[u]
          /\ UNCHANGED <<task, agent>>
      BY <1>t, <2>9 DEF Persist, SetHistory, Write, BackendKeeps
    <3>4. \A j \in Kinds, u \in Tasks \ {t} : proc'[j][u] = proc[j][u]
      BY <1>t, <2>9 DEF Persist, ProcGoes
    <3>5. QED
      BY <1>0, <1>t, <3>2, <3>3, <3>4 DEF ResultInv, StoredHasPicture, DoneIsStored
  <2>10. ASSUME NEW k \in {"generate", "worker", "finalize"}, Succeed(k, t) PROVE ResultInv'
    <3>1. result[t] # NoImage /\ UNCHANGED <<result, agent>>
      BY <1>0, <2>10 DEF Succeed, ProcGoes, ResultInv, BackendKeeps
    <3>2. /\ \A u \in Tasks \ {t} : task'[u] = task[u]
          /\ \A u \in Tasks : history'[u] = history[u]
      BY <1>t, <2>10 DEF Succeed, SetTask, Write
    <3>3. \A j \in Kinds, u \in Tasks \ {t} : proc'[j][u] = proc[j][u]
      BY <1>t, <2>10 DEF Succeed, ProcGoes
    <3>4. QED
      BY <1>0, <1>t, <3>1, <3>2, <3>3 DEF ResultInv, StoredHasPicture, DoneIsStored
  <2>11. ASSUME NEW k \in {"generate", "worker", "finalize"}, Exit(k, t) PROVE ResultInv'
    BY <1>0, <1>r, <1>p, <1>t, <2>a, <2>11, NoResultClaimed DEF Exit
  <2>12. QED
    BY <1>1, <2>1, <2>2, <2>3, <2>4, <2>5, <2>6, <2>7, <2>8, <2>9, <2>10, <2>11
       DEF BackendStep
<1>2. ASSUME NEW t \in Tasks, SchedulerStep(t) PROVE ResultInv'
  <2>1. CASE Claim(t)
    <3>1. \A u \in Tasks, j \in {"generate", "finalize", "worker"} :
            proc'[j][u] = proc[j][u] \/ proc'[j][u] = "started"
      BY <1>t, <2>1 DEF Claim
    <3>2. QED BY <1>0, <1>w, <1>t, <2>1, <3>1, NoResultClaimed DEF Claim, SetTask, TickKeeps
  <2>2. CASE NoPayload(t) \/ RecordWorkerFailure(t)
    BY <1>0, <1>w, <1>p, <1>t, <2>2, NoResultClaimed
       DEF NoPayload, SetTask, RecordWorkerFailure, WriteFailed, TickKeeps
  <2>3. CASE WorkerLost(t)
    <3>1. \A u \in Tasks, j \in {"generate", "finalize", "worker"} :
            proc'[j][u] = proc[j][u] \/ proc'[j][u] = "failed"
      BY <1>t, <2>3 DEF WorkerLost
    <3>2. QED BY <1>0, <1>r, <1>t, <2>3, <3>1, NoResultClaimed DEF WorkerLost, TickKeeps
  <2>4. CASE ResetStuck(t)
    BY <1>0, <1>w, <1>t, <2>4, NoResultClaimed DEF ResetStuck, SetTask, SetHistory, TickKeeps
  <2>5. QED BY <1>2, <2>1, <2>2, <2>3, <2>4 DEF SchedulerStep
<1>3. ASSUME NEW t \in Tasks, AgentStep(t) PROVE ResultInv'
  <2>k. UNCHANGED <<rowVars, result>>
    BY <1>3 DEF AgentStep, StartIteration, LoadManifest, PrepareFails, Draw, ToolEnds, Recover,
                StartFinalize, Report, Reported, Finish, AgentKeeps
  <2>x. ASSUME NEW k \in Kinds, Exec(k, t)
        PROVE  \A u \in Tasks, j \in {"generate", "finalize", "worker"} :
                 proc'[j][u] = proc[j][u] \/ proc'[j][u] \in {"started", "error"}
    BY <1>t, <2>x DEF Exec
  <2>1. ASSUME NEW s \in Schedules, StartIteration(t, s) PROVE ResultInv'
    <3>1. \A u \in Tasks : agent'[u] = "done" => agent[u] = "done"
      BY <1>t, <2>1 DEF StartIteration, AgentGoes
    <3>2. \A u \in Tasks, j \in {"generate", "finalize", "worker"} :
            proc'[j][u] = proc[j][u] \/ proc'[j][u] \in {"started", "error"}
      BY <1>t, <2>1, <2>x DEF StartIteration
    <3>3. QED BY <1>0, <1>r, <2>k, <3>1, <3>2, NoResultClaimed
  <2>2. CASE StartFinalize(t) \/ Report(t)
    <3>1. \A u \in Tasks : agent'[u] = "done" => agent[u] = "done"
      BY <1>t, <2>2 DEF StartFinalize, Report, AgentGoes
    <3>2. \A u \in Tasks, j \in {"generate", "finalize", "worker"} :
            proc'[j][u] = proc[j][u] \/ proc'[j][u] \in {"started", "error"}
      BY <1>t, <2>2, <2>x DEF StartFinalize, Report
    <3>3. QED BY <1>0, <1>r, <2>k, <3>1, <3>2, NoResultClaimed
  <2>3. CASE PrepareFails(t) \/ Draw(t) \/ ToolEnds(t) \/ Recover(t) \/ Reported(t)
    <3>1. UNCHANGED proc /\ \A u \in Tasks : agent'[u] = "done" => agent[u] = "done"
      BY <1>t, <2>3 DEF PrepareFails, Draw, ToolEnds, Recover, Reported, AgentGoes
    <3>2. QED BY <1>0, <1>r, <2>k, <3>1, NoResultClaimed
  <2>4. CASE LoadManifest(t) \/ Finish(t)
    <3>1. agent'[t] = "done" => proc["generate"][t] = "ok" \/ proc["finalize"][t] = "ok"
      BY <1>t, <2>4 DEF LoadManifest, Finish, AgentGoes
    <3>2. UNCHANGED proc /\ \A u \in Tasks \ {t} : agent'[u] = agent[u]
      BY <1>t, <2>4 DEF LoadManifest, Finish, AgentGoes
    <3>3. UNCHANGED <<task, history, result>>
      BY <2>k DEF rowVars
    <3>4. QED BY <1>0, <3>1, <3>2, <3>3 DEF ResultInv, StoredHasPicture, DoneIsStored
  <2>5. QED BY <1>3, <2>1, <2>2, <2>3, <2>4 DEF AgentStep
<1>4. ASSUME NEW t \in Tasks, Age(t) PROVE ResultInv'
  BY <1>0, <1>4, NoResultClaimed DEF Age
<1>5. ASSUME NEW t \in Tasks, Decide(t) PROVE ResultInv'
  <2>1. /\ \A u \in Tasks : history'[u] \in Stored => history[u] \in Stored
        /\ \A u \in Tasks : task'[u] = task[u]
    BY <1>t, <1>5 DEF Decide, SetHistory, Write, Stored
  <2>2. QED BY <1>0, <1>5, <2>1, NoResultClaimed DEF Decide
<1>6. ASSUME NEW t \in Tasks, Kill(t) PROVE ResultInv'
  BY <1>0, <1>r, <1>t, <1>6, NoResultClaimed DEF Kill
<1>7. CASE FindStuck
  BY <1>0, <1>r, <1>7, NoResultClaimed DEF FindStuck, TickKeeps
<1>8. CASE Restart
  <2>1. \A u \in Tasks, j \in {"generate", "finalize", "worker"} :
          proc'[j][u] = proc[j][u] \/ proc'[j][u] = "error"
    BY <1>t, <1>8 DEF Restart
  <2>2. QED BY <1>0, <1>r, <1>8, <2>1, NoResultClaimed DEF Restart
<1>9. CASE Startup
  BY <1>0, <1>t, <1>9, NoResultClaimed DEF Startup, Stored
<1>10. CASE CleanManifests
  BY <1>0, <1>r, <1>10, NoResultClaimed DEF CleanManifests
<1>11. CASE UNCHANGED vars
  BY <1>0, <1>r, <1>11, NoResultClaimed DEF vars
<1>12. QED
  BY <1>1, <1>2, <1>3, <1>4, <1>5, <1>6, <1>7, <1>8, <1>9, <1>10, <1>11 DEF Next

\* Whose picture a result is.
ResultOwn == Strict => OwnPicture

LEMMA NextResultOwn ==
  TypeOK /\ PictureInv /\ ResultOwn /\ [Next]_vars => ResultOwn'
<1> SUFFICES ASSUME TypeOK, PictureInv, ResultOwn, [Next]_vars, Strict PROVE OwnPicture'
  BY DEF ResultOwn
<1>1. CASE UNCHANGED result
  BY <1>1 DEF ResultOwn, OwnPicture
<1>2. ASSUME NEW t \in Tasks, NEW k \in {"generate", "worker", "finalize"}, Persist(k, t)
      PROVE OwnPicture'
  <2>1. k = "finalize" => output[t] = t
    BY <1>2, HostAssumption DEF Persist, ProcGoes, PictureInv, HostAssumption, Tasks
  <2>2. QED BY <1>2, <2>1 DEF Persist, ResultOwn, OwnPicture, TypeOK
<1>3. UNCHANGED result \/
      \E t \in Tasks, k \in {"generate", "worker", "finalize"} : Persist(k, t)
  <2>1. ASSUME NEW t \in Tasks, BackendStep(t)
        PROVE UNCHANGED result \/ \E k \in {"generate", "worker", "finalize"} : Persist(k, t)
    BY <2>1 DEF BackendStep, CheckActive, RefuseActive, ClearStale, InsertTask, PreparePlans,
                PrepareReady, PreparationFails, GenerateQueues, FinalizeRuns, FinalizeFails,
                GenerateFoundFailed, FailHost, PipelineRuns, PipelineFails, Succeed, Exit
  <2>2. ASSUME NEW t \in Tasks, SchedulerStep(t) PROVE UNCHANGED result
    BY <2>2 DEF SchedulerStep, Claim, NoPayload, WorkerLost, RecordWorkerFailure, ResetStuck,
                TickKeeps
  <2>3. ASSUME NEW t \in Tasks, AgentStep(t) PROVE UNCHANGED result
    BY <2>3 DEF AgentStep, StartIteration, LoadManifest, PrepareFails, Draw, ToolEnds, Recover,
                StartFinalize, Report, Reported, Finish, AgentKeeps
  <2>4. ASSUME NEW t \in Tasks, Age(t) \/ Decide(t) \/ Kill(t) PROVE UNCHANGED result
    BY <2>4 DEF Age, Decide, Kill
  <2>5. FindStuck \/ Restart \/ Startup \/ CleanManifests \/ UNCHANGED vars => UNCHANGED result
    BY DEF FindStuck, TickKeeps, Restart, Startup, CleanManifests, vars
  <2>6. QED BY <2>1, <2>2, <2>3, <2>4, <2>5 DEF Next
<1>4. QED BY <1>1, <1>2, <1>3

\* The inductive invariant.
RenderInv == TypeOK /\ PictureInv /\ ResultInv /\ ResultOwn

LEMMA InitRenderInv == Init => RenderInv
BY InitTypeOK, InitPictureInv, InitResultInv DEF RenderInv, ResultOwn, OwnPicture, Init

LEMMA NextRenderInv == RenderInv /\ [Next]_vars => RenderInv'
BY NextTypeOK, NextPictureInv, NextResultInv, NextResultOwn DEF RenderInv

LEMMA RenderInvariant == Spec => []RenderInv
BY InitRenderInv, NextRenderInv, PTL DEF Spec

\* Every variable of the host's iterations keeps its type.
THEOREM HostTypeCorrect == Spec => []TypeOK
<1>1. RenderInv => TypeOK
  BY DEF RenderInv
<1>2. QED BY <1>1, RenderInvariant, PTL

\* With strict recovery a result never shows what the tool drew for another task.
THEOREM RecoveredPictureIsOwn == Strict => (Spec => []OwnPicture)
<1> SUFFICES ASSUME Strict PROVE Spec => []OwnPicture
  OBVIOUS
<1>1. RenderInv => OwnPicture
  BY DEF RenderInv, ResultOwn
<1>2. QED BY <1>1, RenderInvariant, PTL

\* Resets, late reports and a second executor leave no result without a picture.
THEOREM StoredResultHasPicture == Spec => []StoredHasPicture
<1>1. RenderInv => StoredHasPicture
  BY DEF RenderInv, ResultInv
<1>2. QED BY <1>1, RenderInvariant, PTL

\* The agent says "done" only of a picture that is stored.
THEOREM DoneMeansStored == Spec => []DoneIsStored
<1>1. RenderInv => DoneIsStored
  BY DEF RenderInv, ResultInv
<1>2. QED BY <1>1, RenderInvariant, PTL
=============================================================================
