------------------------ MODULE GenerationQueue_proofs ------------------------
(***************************************************************************)
(* Proofs about GenerationQueue, for any number of tasks, worker slots,    *)
(* concurrency limit and bounds.                                           *)
(***************************************************************************)
EXTENDS GenerationQueue, FiniteSetTheorems, TLAPS

\* The slot discipline of the scheduler process: a slot is busy exactly when
\* it has a task, two busy slots have different tasks, _running_task_ids is
\* the set of those tasks and stays within the limit.
SlotInv ==
  /\ \A w \in Workers : Busy(w) <=> job[w] \in Tasks
  /\ \A v, w \in Workers : Busy(v) /\ Busy(w) /\ job[v] = job[w] => v = w
  /\ SlotsAccountedFor
  /\ IsFiniteSet(running)
  /\ Cardinality(running) <= Limit

LEMMA InitTypeOK == Init => TypeOK
<1> SUFFICES ASSUME Init PROVE TypeOK
  OBVIOUS
<1> USE DEF Init
<1>1. /\ task \in [Tasks -> TaskStatuses]
      /\ payload \in [Tasks -> BOOLEAN]
      /\ history \in [Tasks -> HistoryStatuses]
  BY DEF TaskStatuses, HistoryStatuses
<1>2. /\ request \in [Tasks -> {"none", "preview", "queuing"}]
      /\ cancelRead \in [Tasks -> {"none", "queued", "running"}]
  OBVIOUS
<1>3. /\ job \in [Workers -> Tasks \cup {NoTask}]
      /\ pc \in [Workers -> {"idle"} \cup LivePCs \cup ExitedPCs]
      /\ seen \in [Workers -> TaskStatuses]
  BY DEF TaskStatuses
<1>4. restarts \in 0..MaxRestarts /\ lost \in 0..MaxLost /\ cancels \in 0..MaxCancels
  BY QueueAssumption DEF QueueAssumption
<1>5. QED BY <1>1, <1>2, <1>3, <1>4 DEF TypeOK

LEMMA NextTypeOK == TypeOK /\ SlotInv /\ [Next]_vars => TypeOK'
<1> SUFFICES ASSUME TypeOK, SlotInv, [Next]_vars PROVE TypeOK'
  OBVIOUS
<1> USE DEF TypeOK, TaskStatuses, HistoryStatuses, FinalStatuses,
            rowVars, requestVars, workerVars, bootVars, countVars
<1>1. CASE SchedulerStart \/ ApiStart
  <2>1. ResetStuckTasksOnStartup
    BY <1>1 DEF SchedulerStart, ApiStart
  <2>2. /\ task' \in [Tasks -> TaskStatuses]
        /\ history' \in [Tasks -> HistoryStatuses]
        /\ payload' \in [Tasks -> BOOLEAN]
    BY <2>1 DEF ResetStuckTasksOnStartup
  <2>3. QED BY <1>1, <2>2 DEF SchedulerStart, ApiStart
<1>2. CASE Restart
  <2>1. restarts' \in 0..MaxRestarts
    BY <1>2, QueueAssumption DEF QueueAssumption, Restart
  <2>2. /\ request' \in [Tasks -> {"none", "preview", "queuing"}]
        /\ cancelRead' \in [Tasks -> {"none", "queued", "running"}]
    BY <1>2 DEF Restart
  <2>3. /\ job' \in [Workers -> Tasks \cup {NoTask}]
        /\ pc' \in [Workers -> {"idle"} \cup LivePCs \cup ExitedPCs]
        /\ seen' \in [Workers -> TaskStatuses]
    BY <1>2 DEF Restart
  <2>4. QED BY <1>2, <2>1, <2>2, <2>3 DEF Restart
<1>3. CASE ApiStep
  <2>1. ASSUME NEW t \in Tasks,
               RunNow(t) \/ RunNowPreviewFails(t) \/ RunNowEnqueue(t) \/ RunNowHistory(t)
        PROVE TypeOK'
    BY <2>1 DEF RunNow, RunNowPreviewFails, RunNowEnqueue, RunNowHistory
  <2>2. ASSUME NEW t \in Tasks, CancelRead(t) \/ CancelWrite(t) \/ Decide(t)
        PROVE TypeOK'
    BY <2>2, QueueAssumption DEF QueueAssumption, CancelRead, CancelWrite, Decide
  <2>3. ASSUME NEW t \in Tasks, NEW parent \in Tasks, RetryTask(parent, t)
        PROVE TypeOK'
    BY <2>3 DEF RetryTask
  <2>4. QED BY <1>3, <2>1, <2>2, <2>3 DEF ApiStep
<1>4. CASE TickStep
  <2>1. CASE ScanQueue
    BY <2>1 DEF ScanQueue, QueuedTasks
  <2>2. ASSUME NEW t \in Tasks, ResetStuckHistory(t) \/ ResetStuckTask(t) \/ EnqueueDue(t)
        PROVE TypeOK'
    BY <2>2 DEF ResetStuckHistory, ResetStuckTask, EnqueueDue
  <2>3. ASSUME NEW t \in Tasks, SkipSupervised(t) \/ StopAtLimit(t) \/ ClaimMissed(t)
        PROVE TypeOK'
    BY <2>3 DEF SkipSupervised, StopAtLimit, ClaimMissed
  <2>4. ASSUME NEW t \in Tasks, NEW w \in Workers, Claim(t, w)
        PROVE TypeOK'
    BY <2>4 DEF Claim, LivePCs, SilentPCs
  <2>5. QED BY <1>4, <2>1, <2>2, <2>3, <2>4 DEF TickStep
<1>5. ASSUME NEW w \in Workers, WorkerStep(w)
      PROVE TypeOK'
  <2> USE DEF Moves, WorkerKeeps, LivePCs, SilentPCs, ExitedPCs
  <2>0. pc[w] # "idle" => job[w] \in Tasks
    BY DEF SlotInv, Busy
  <2>1. CASE LoadRow(w) \/ LoadRowWithoutPayload(w)
    BY <2>0, <2>1 DEF LoadRow, LoadRowWithoutPayload
  <2>2. CASE FailWithoutPayload(w) \/ Begin(w)
    BY <2>0, <2>2 DEF FailWithoutPayload, Begin
  <2>3. CASE StartPipeline(w) \/ Progress(w)
    BY <2>0, <2>3 DEF StartPipeline, Progress, WriteRunning
  <2>4. CASE PipelineFails(w) \/ RunFails(w)
    BY <2>0, <2>4 DEF PipelineFails, RunFails, WriteFailed
  <2>5. CASE PersistResult(w) \/ Succeed(w) \/ NotificationsSent(w)
    BY <2>0, <2>5 DEF PersistResult, Succeed, NotificationsSent
  <2>6. QED BY <1>5, <2>1, <2>2, <2>3, <2>4, <2>5 DEF WorkerStep
<1>6. ASSUME NEW w \in Workers, SupervisorStep(w)
      PROVE TypeOK'
  <2> USE DEF LivePCs, SilentPCs, ExitedPCs, SupervisorKeeps
  <2>0. pc[w] # "idle" => job[w] \in Tasks
    BY DEF SlotInv, Busy
  <2>1. CASE WorkerLost(w)
    BY <2>1 DEF WorkerLost, WorkerKeeps
  <2>2. CASE SuperviseDone(w)
    BY <2>2 DEF SuperviseDone, FreeSlot
  <2>3. CASE SuperviseFailure(w)
    BY <2>0, <2>3 DEF SuperviseFailure, FreeSlot, WriteFailed
  <2>4. CASE SuperviseFailureLost(w)
    BY <2>4, QueueAssumption DEF QueueAssumption, SuperviseFailureLost, FreeSlot
  <2>5. QED BY <1>6, <2>1, <2>2, <2>3, <2>4 DEF SupervisorStep
<1>7. CASE UNCHANGED vars
  BY <1>7 DEF vars
<1>8. QED BY <1>1, <1>2, <1>3, <1>4, <1>5, <1>6, <1>7 DEF Next

LEMMA InitSlotInv == Init => SlotInv
<1> SUFFICES ASSUME Init PROVE SlotInv
  OBVIOUS
<1>1. IsFiniteSet(running) /\ Cardinality(running) = 0
  BY FS_EmptySet DEF Init
<1>2. \A w \in Workers : ~Busy(w) /\ job[w] = NoTask
  BY DEF Init, Busy
<1>3. running = {job[w] : w \in {v \in Workers : Busy(v)}}
  BY <1>2 DEF Init
<1>4. QED
  BY <1>1, <1>2, <1>3, QueueAssumption DEF SlotInv, SlotsAccountedFor, QueueAssumption, Tasks

\* A step that moves a worker process without starting or freeing its slot.
LEMMA SameSlots ==
  ASSUME SlotInv, running' = running, job' = job,
         \A w \in Workers : Busy(w)' <=> Busy(w)
  PROVE  SlotInv'
BY DEF SlotInv, SlotsAccountedFor

LEMMA ClaimSlotInv ==
  ASSUME TypeOK, SlotInv, NEW t \in Tasks, NEW w \in Workers, Claim(t, w)
  PROVE  SlotInv'
<1> USE DEF TypeOK
<1>1. /\ t \notin running /\ ~Busy(w) /\ Cardinality(running) < Limit
      /\ running' = running \cup {t}
      /\ job' = [job EXCEPT ![w] = t]
      /\ pc' = [pc EXCEPT ![w] = "booting"]
  BY DEF Claim, MayClaim
<1>2. Busy(w)' /\ job'[w] = t
  BY <1>1 DEF Busy
<1>3. \A v \in Workers : v # w => job'[v] = job[v] /\ (Busy(v)' <=> Busy(v))
  BY <1>1 DEF Busy
<1>4. \A v \in Workers : Busy(v) => job[v] # t
  BY <1>1 DEF SlotInv, SlotsAccountedFor
<1>5. \A v \in Workers : Busy(v)' <=> job'[v] \in Tasks
  BY <1>2, <1>3 DEF SlotInv
<1>6. \A u, v \in Workers : Busy(u)' /\ Busy(v)' /\ job'[u] = job'[v] => u = v
  BY <1>2, <1>3, <1>4 DEF SlotInv
<1>7. running' = {job'[v] : v \in {u \in Workers : Busy(u)'}}
  <2>1. ASSUME NEW x \in running' PROVE \E v \in Workers : Busy(v)' /\ job'[v] = x
    BY <1>1, <1>2, <1>3, <2>1 DEF SlotInv, SlotsAccountedFor
  <2>2. ASSUME NEW v \in Workers, Busy(v)' PROVE job'[v] \in running'
    BY <1>1, <1>2, <1>3, <2>2 DEF SlotInv, SlotsAccountedFor
  <2>3. QED BY <2>1, <2>2
<1>8. IsFiniteSet(running') /\ Cardinality(running') <= Limit
  <2>1. IsFiniteSet(running)
    BY DEF SlotInv
  <2>2. Cardinality(running) \in Nat
    BY <2>1, FS_CardinalityType
  <2>3. IsFiniteSet(running') /\ Cardinality(running') = Cardinality(running) + 1
    BY <1>1, <2>1, FS_AddElement
  <2>4. QED BY <1>1, <2>2, <2>3, QueueAssumption DEF QueueAssumption
<1>9. QED BY <1>5, <1>6, <1>7, <1>8 DEF SlotInv, SlotsAccountedFor

LEMMA FreeSlotInv ==
  ASSUME TypeOK, SlotInv, NEW w \in Workers, Busy(w), FreeSlot(w)
  PROVE  SlotInv'
<1> USE DEF TypeOK
<1>1. /\ running' = running \ {job[w]}
      /\ job' = [job EXCEPT ![w] = NoTask]
      /\ pc' = [pc EXCEPT ![w] = "idle"]
  BY DEF FreeSlot
<1>2. ~Busy(w)' /\ job'[w] = NoTask /\ NoTask \notin Tasks
  BY <1>1, QueueAssumption DEF Busy, QueueAssumption, Tasks
<1>3. \A v \in Workers : v # w => job'[v] = job[v] /\ (Busy(v)' <=> Busy(v))
  BY <1>1 DEF Busy
<1>4. \A v \in Workers : v # w /\ Busy(v) => job[v] # job[w]
  BY DEF SlotInv
<1>5. \A v \in Workers : Busy(v)' <=> job'[v] \in Tasks
  BY <1>2, <1>3 DEF SlotInv
<1>6. \A u, v \in Workers : Busy(u)' /\ Busy(v)' /\ job'[u] = job'[v] => u = v
  BY <1>2, <1>3 DEF SlotInv
<1>7. running' = {job'[v] : v \in {u \in Workers : Busy(u)'}}
  <2>1. ASSUME NEW x \in running' PROVE \E v \in Workers : Busy(v)' /\ job'[v] = x
    <3>1. PICK v \in Workers : Busy(v) /\ job[v] = x
      BY <1>1, <2>1 DEF SlotInv, SlotsAccountedFor
    <3>2. v # w
      BY <1>1, <2>1, <3>1
    <3>3. QED BY <1>3, <3>1, <3>2
  <2>2. ASSUME NEW v \in Workers, Busy(v)' PROVE job'[v] \in running'
    <3>1. v # w /\ Busy(v) /\ job'[v] = job[v]
      BY <1>2, <1>3, <2>2
    <3>2. QED BY <1>1, <1>4, <3>1 DEF SlotInv, SlotsAccountedFor
  <2>3. QED BY <2>1, <2>2
<1>8. IsFiniteSet(running') /\ Cardinality(running') <= Limit
  <2>1. IsFiniteSet(running) /\ running' \in SUBSET running
    BY <1>1 DEF SlotInv
  <2>2. Cardinality(running) \in Nat /\ IsFiniteSet(running')
    BY <2>1, FS_CardinalityType, FS_Subset
  <2>3. Cardinality(running') \in Nat /\ Cardinality(running') <= Cardinality(running)
    BY <2>1, <2>2, FS_CardinalityType, FS_Subset
  <2>4. Cardinality(running) <= Limit
    BY DEF SlotInv
  <2>5. QED BY <2>2, <2>3, <2>4, QueueAssumption DEF QueueAssumption
<1>9. QED BY <1>5, <1>6, <1>7, <1>8 DEF SlotInv, SlotsAccountedFor

LEMMA NextSlotInv == TypeOK /\ SlotInv /\ [Next]_vars => SlotInv'
<1> SUFFICES ASSUME TypeOK, SlotInv, [Next]_vars PROVE SlotInv'
  OBVIOUS
<1>1. CASE SchedulerStart \/ ApiStart
  BY <1>1, SameSlots DEF SchedulerStart, ApiStart, workerVars, Busy
<1>2. CASE Restart
  <2>1. \A w \in Workers : ~Busy(w)' /\ job'[w] = NoTask
    BY <1>2 DEF Restart, Busy
  <2>2. IsFiniteSet(running') /\ Cardinality(running') = 0
    BY <1>2, FS_EmptySet DEF Restart
  <2>3. running' = {job'[v] : v \in {u \in Workers : Busy(u)'}}
    BY <1>2, <2>1 DEF Restart
  <2>4. QED
    BY <2>1, <2>2, <2>3, QueueAssumption
    DEF SlotInv, SlotsAccountedFor, QueueAssumption, Tasks
<1>3. CASE ApiStep
  BY <1>3, SameSlots
  DEF ApiStep, RunNow, RunNowPreviewFails, RunNowEnqueue, RunNowHistory, CancelRead,
      CancelWrite, Decide, RetryTask, workerVars, Busy
<1>4. CASE TickStep
  <2>1. CASE ScanQueue
    BY <2>1, SameSlots DEF ScanQueue, workerVars, Busy
  <2>2. ASSUME NEW t \in Tasks,
               \/ ResetStuckHistory(t) \/ ResetStuckTask(t) \/ EnqueueDue(t)
               \/ SkipSupervised(t) \/ StopAtLimit(t) \/ ClaimMissed(t)
        PROVE SlotInv'
    BY <2>2, SameSlots
    DEF ResetStuckHistory, ResetStuckTask, EnqueueDue, SkipSupervised, StopAtLimit,
        ClaimMissed, workerVars, Busy
  <2>3. ASSUME NEW t \in Tasks, NEW w \in Workers, Claim(t, w) PROVE SlotInv'
    BY <2>3, ClaimSlotInv
  <2>4. QED BY <1>4, <2>1, <2>2, <2>3 DEF TickStep
<1>5. ASSUME NEW w \in Workers, WorkerStep(w) \/ WorkerLost(w) PROVE SlotInv'
  <2>1. /\ running' = running /\ job' = job
        /\ \E to \in LivePCs \cup ExitedPCs : pc' = [pc EXCEPT ![w] = to]
        /\ pc[w] # "idle"
    BY <1>5
    DEF WorkerStep, WorkerLost, LoadRow, LoadRowWithoutPayload, FailWithoutPayload, Begin,
        StartPipeline, Progress, PipelineFails, RunFails, PersistResult, Succeed, NotificationsSent,
        Moves, WorkerKeeps, Live, LivePCs, SilentPCs, ExitedPCs
  <2>2. \A v \in Workers : Busy(v)' <=> Busy(v)
    BY <2>1 DEF Busy, TypeOK, LivePCs, SilentPCs, ExitedPCs
  <2>3. QED BY <2>1, <2>2, SameSlots
<1>6. ASSUME NEW w \in Workers,
             SuperviseDone(w) \/ SuperviseFailure(w) \/ SuperviseFailureLost(w)
      PROVE SlotInv'
  BY <1>6, FreeSlotInv DEF SuperviseDone, SuperviseFailure, SuperviseFailureLost, Busy
<1>7. CASE UNCHANGED vars
  BY <1>7, SameSlots DEF vars, workerVars, Busy
<1>8. QED
  BY <1>1, <1>2, <1>3, <1>4, <1>5, <1>6, <1>7 DEF Next, SupervisorStep

-----------------------------------------------------------------------------
\* Every reachable state is well typed and keeps the slot discipline.
THEOREM SlotsCorrect == Spec => [](TypeOK /\ SlotInv)
<1>1. Init => TypeOK /\ SlotInv
  BY InitTypeOK, InitSlotInv
<1>2. TypeOK /\ SlotInv /\ [Next]_vars => (TypeOK /\ SlotInv)'
  BY NextTypeOK, NextSlotInv
<1>3. QED BY <1>1, <1>2, PTL DEF Spec

-----------------------------------------------------------------------------
\* A worker that has begun to write to its task's rows.
Writing(w) == pc[w] \in {"planning", "generating", "saved", "notifying"}

\* What the rows, the requests and the workers know of each other. A row gets
\* its payload before its task can have a result or a worker that has loaded
\* it, and only a request whose row has no payload yet may queue it again:
\* that keeps the queue and the results apart.
RowsInv ==
  /\ \A t \in Tasks : task[t] = "none" => history[t] = "none" /\ cancelRead[t] = "none"
  /\ \A t \in Tasks : task[t] = "none" => ~payload[t] /\ request[t] = "none"
  /\ \A t \in Tasks : request[t] = "preview" => ~payload[t]
  /\ \A t \in Tasks : history[t] \in {"RUNNING"} \cup ResultStatuses => payload[t]
  /\ \A w \in Workers : Busy(w) => task[job[w]] # "none"
  /\ \A w \in Workers : pc[w] = "loaded" \/ Writing(w) => payload[job[w]]
  /\ \A w \in Workers : Writing(w) => task[job[w]] # "queued"
  /\ \A w \in Workers : pc[w] = "loaded" /\ seen[w] = "running" => task[job[w]] # "queued"
  /\ \A w \in Workers : pc[w] = "saved" => history[job[w]] \in ResultStatuses \cup {"QUEUED"}
  /\ SucceededHasResult
  /\ ResultNeverRequeued

LEMMA InitRowsInv == Init => RowsInv
BY DEF Init, RowsInv, SucceededHasResult, ResultNeverRequeued, ResultStatuses, Busy, Writing

LEMMA BootRowsInv ==
  ASSUME TypeOK, SlotInv, RowsInv, SchedulerStart \/ ApiStart
  PROVE  RowsInv'
<1>1. /\ ResetStuckTasksOnStartup
      /\ UNCHANGED <<requestVars, workerVars>>
  BY DEF SchedulerStart, ApiStart
<1>2. /\ \A t \in Tasks : task'[t] = task[t] \/ (task[t] = "running" /\ task'[t] = "failed")
      /\ \A t \in Tasks :
           history'[t] = history[t] \/ (history[t] = "RUNNING" /\ history'[t] = "FAILED")
      /\ payload' = payload /\ request' = request /\ cancelRead' = cancelRead
      /\ job' = job /\ pc' = pc /\ seen' = seen
  BY <1>1 DEF ResetStuckTasksOnStartup, TypeOK, requestVars, workerVars
<1>3. \A w \in Workers : Busy(w) => job[w] \in Tasks
  BY DEF SlotInv
<1>4. QED
  BY <1>2, <1>3
  DEF RowsInv, SucceededHasResult, ResultNeverRequeued, ResultStatuses, Busy, Writing

LEMMA RestartRowsInv ==
  ASSUME TypeOK, RowsInv, Restart
  PROVE  RowsInv'
<1>1. \A w \in Workers : pc'[w] = "idle"
  BY DEF Restart
<1>2. \A t \in Tasks : request'[t] = "none" /\ cancelRead'[t] = "none"
  BY DEF Restart
<1>3. task' = task /\ payload' = payload /\ history' = history
  BY DEF Restart, rowVars
<1>4. QED
  BY <1>1, <1>2, <1>3
  DEF RowsInv, SucceededHasResult, ResultNeverRequeued, ResultStatuses, Busy, Writing

LEMMA ApiRowsInv ==
  ASSUME TypeOK, SlotInv, RowsInv, ApiStep
  PROVE  RowsInv'
<1> USE DEF RowsInv, SucceededHasResult, ResultNeverRequeued, ResultStatuses, Busy, Writing,
            TypeOK, rowVars, requestVars, workerVars
<1>0. \A w \in Workers : Busy(w) => job[w] \in Tasks
  BY DEF SlotInv
<1>1. ASSUME NEW t \in Tasks, RunNow(t) PROVE RowsInv'
  BY <1>0, <1>1 DEF RunNow, Fresh
<1>2. ASSUME NEW t \in Tasks, RunNowPreviewFails(t) PROVE RowsInv'
  BY <1>0, <1>2 DEF RunNowPreviewFails
<1>3. ASSUME NEW t \in Tasks, RunNowEnqueue(t) PROVE RowsInv'
  BY <1>0, <1>3 DEF RunNowEnqueue
<1>4. ASSUME NEW t \in Tasks, RunNowHistory(t) PROVE RowsInv'
  BY <1>0, <1>4 DEF RunNowHistory
<1>5. ASSUME NEW t \in Tasks, CancelRead(t) PROVE RowsInv'
  BY <1>0, <1>5 DEF CancelRead
<1>6. ASSUME NEW t \in Tasks, CancelWrite(t) PROVE RowsInv'
  BY <1>0, <1>6 DEF CancelWrite
<1>7. ASSUME NEW t \in Tasks, Decide(t) PROVE RowsInv'
  BY <1>0, <1>7 DEF Decide
<1>8. ASSUME NEW t \in Tasks, NEW parent \in Tasks, RetryTask(parent, t) PROVE RowsInv'
  BY <1>0, <1>8 DEF RetryTask, Fresh
<1>9. QED
  BY <1>1, <1>2, <1>3, <1>4, <1>5, <1>6, <1>7, <1>8 DEF ApiStep

LEMMA TickRowsInv ==
  ASSUME TypeOK, SlotInv, RowsInv, TickStep
  PROVE  RowsInv'
<1> USE DEF RowsInv, SucceededHasResult, ResultNeverRequeued, ResultStatuses, Busy, Writing,
            TypeOK, rowVars, requestVars, workerVars
<1>0. \A w \in Workers : Busy(w) => job[w] \in Tasks
  BY DEF SlotInv
<1>1. CASE ScanQueue
  BY <1>1 DEF ScanQueue
<1>2. ASSUME NEW t \in Tasks, ResetStuckHistory(t) PROVE RowsInv'
  BY <1>0, <1>2 DEF ResetStuckHistory
<1>3. ASSUME NEW t \in Tasks, ResetStuckTask(t) PROVE RowsInv'
  BY <1>0, <1>3 DEF ResetStuckTask
<1>4. ASSUME NEW t \in Tasks, EnqueueDue(t) PROVE RowsInv'
  BY <1>0, <1>4 DEF EnqueueDue, Fresh
<1>5. ASSUME NEW t \in Tasks, SkipSupervised(t) \/ StopAtLimit(t) \/ ClaimMissed(t)
      PROVE RowsInv'
  BY <1>5 DEF SkipSupervised, StopAtLimit, ClaimMissed
<1>6. ASSUME NEW t \in Tasks, NEW w \in Workers, Claim(t, w) PROVE RowsInv'
  BY <1>0, <1>6 DEF Claim, Claimable
<1>7. QED
  BY <1>1, <1>2, <1>3, <1>4, <1>5, <1>6 DEF TickStep

LEMMA WorkerRowsInv ==
  ASSUME TypeOK, SlotInv, RowsInv, NEW w \in Workers, WorkerStep(w)
  PROVE  RowsInv'
<1> USE DEF RowsInv, SucceededHasResult, ResultNeverRequeued, ResultStatuses, Busy, Writing,
            TypeOK, rowVars, requestVars, Moves, WorkerKeeps
<1>0. /\ \A v \in Workers : Busy(v) => job[v] \in Tasks
      /\ \A u, v \in Workers : Busy(u) /\ Busy(v) /\ job[u] = job[v] => u = v
  BY DEF SlotInv
<1>1. CASE LoadRow(w)
  BY <1>0, <1>1 DEF LoadRow
<1>2. CASE LoadRowWithoutPayload(w)
  BY <1>0, <1>2 DEF LoadRowWithoutPayload
<1>3. CASE FailWithoutPayload(w)
  BY <1>0, <1>3 DEF FailWithoutPayload
<1>4. CASE Begin(w)
  BY <1>0, <1>4 DEF Begin
<1>5. CASE StartPipeline(w) \/ Progress(w)
  BY <1>0, <1>5 DEF StartPipeline, Progress, WriteRunning
<1>6. CASE PipelineFails(w) \/ RunFails(w)
  BY <1>0, <1>6 DEF PipelineFails, RunFails, WriteFailed
<1>7. CASE PersistResult(w)
  BY <1>0, <1>7 DEF PersistResult
<1>8. CASE Succeed(w)
  BY <1>0, <1>8 DEF Succeed
<1>9. CASE NotificationsSent(w)
  BY <1>0, <1>9 DEF NotificationsSent
<1>10. QED
  BY <1>1, <1>2, <1>3, <1>4, <1>5, <1>6, <1>7, <1>8, <1>9 DEF WorkerStep

LEMMA SupervisorRowsInv ==
  ASSUME TypeOK, SlotInv, RowsInv, NEW w \in Workers, SupervisorStep(w)
  PROVE  RowsInv'
<1> USE DEF RowsInv, SucceededHasResult, ResultNeverRequeued, ResultStatuses, Busy, Writing,
            TypeOK, rowVars, requestVars
<1>0. /\ \A v \in Workers : Busy(v) => job[v] \in Tasks
      /\ \A u, v \in Workers : Busy(u) /\ Busy(v) /\ job[u] = job[v] => u = v
  BY DEF SlotInv
<1>1. CASE WorkerLost(w)
  BY <1>0, <1>1 DEF WorkerLost, WorkerKeeps, Live, LivePCs, SilentPCs
<1>2. CASE SuperviseDone(w)
  BY <1>0, <1>2 DEF SuperviseDone, FreeSlot, SupervisorKeeps
<1>3. CASE SuperviseFailure(w)
  BY <1>0, <1>3 DEF SuperviseFailure, FreeSlot, SupervisorKeeps, WriteFailed
<1>4. CASE SuperviseFailureLost(w)
  BY <1>0, <1>4 DEF SuperviseFailureLost, FreeSlot, SupervisorKeeps
<1>5. QED
  BY <1>1, <1>2, <1>3, <1>4 DEF SupervisorStep

LEMMA NextRowsInv == TypeOK /\ SlotInv /\ RowsInv /\ [Next]_vars => RowsInv'
<1> SUFFICES ASSUME TypeOK, SlotInv, RowsInv, [Next]_vars PROVE RowsInv'
  OBVIOUS
<1>1. CASE SchedulerStart \/ ApiStart
  BY <1>1, BootRowsInv
<1>2. CASE Restart
  BY <1>2, RestartRowsInv
<1>3. CASE ApiStep
  BY <1>3, ApiRowsInv
<1>4. CASE TickStep
  BY <1>4, TickRowsInv
<1>5. ASSUME NEW w \in Workers, WorkerStep(w) PROVE RowsInv'
  BY <1>5, WorkerRowsInv
<1>6. ASSUME NEW w \in Workers, SupervisorStep(w) PROVE RowsInv'
  BY <1>6, SupervisorRowsInv
<1>7. CASE UNCHANGED vars
  BY <1>7
  DEF vars, rowVars, requestVars, workerVars, RowsInv, SucceededHasResult,
      ResultNeverRequeued, Busy, Writing
<1>8. QED BY <1>1, <1>2, <1>3, <1>4, <1>5, <1>6, <1>7 DEF Next

-----------------------------------------------------------------------------
\* The inductive invariant.
IInv == TypeOK /\ SlotInv /\ RowsInv

LEMMA Invariance == Spec => []IInv
<1>1. Init => IInv
  BY InitTypeOK, InitSlotInv, InitRowsInv DEF IInv
<1>2. IInv /\ [Next]_vars => IInv'
  BY NextTypeOK, NextSlotInv, NextRowsInv DEF IInv
<1>3. QED BY <1>1, <1>2, PTL DEF Spec

LEMMA LiveIsBusy == \A w \in Workers : Live(w) => Busy(w)
BY DEF Live, Busy, LivePCs, SilentPCs

LEMMA ExecutingIsRunning ==
  ASSUME SlotInv
  PROVE  /\ Executing \subseteq running
         /\ IsFiniteSet(Executing)
         /\ Cardinality(Executing) \in Nat
         /\ Cardinality(running) \in Nat
         /\ Cardinality(Executing) <= Cardinality(running)
<1>1. Executing \subseteq running
  BY LiveIsBusy DEF Executing, SlotInv, SlotsAccountedFor
<1>2. IsFiniteSet(running) /\ Executing \in SUBSET running
  BY <1>1 DEF SlotInv
<1>3. QED BY <1>1, <1>2, FS_Subset, FS_CardinalityType

\* No two processes execute one task.
THEOREM ExecutesOnce == Spec => []OneWorkerPerTask
<1>1. IInv => OneWorkerPerTask
  BY LiveIsBusy DEF IInv, SlotInv, OneWorkerPerTask
<1>2. QED BY <1>1, Invariance, PTL

\* The concurrency limit holds for processes, because the map from a live
\* process to its task is an injection into _running_task_ids.
THEOREM LimitHolds == Spec => []ConcurrencyLimit
<1>1. IInv => ConcurrencyLimit
  <2> SUFFICES ASSUME IInv PROVE ConcurrencyLimit
    OBVIOUS
  <2> DEFINE Alive == {w \in Workers : Live(w)}
             task_of == [w \in Alive |-> job[w]]
  <2>1. SlotInv
    BY DEF IInv
  <2>2. task_of \in Injection(Alive, running)
    <3>1. \A w \in Alive : job[w] \in running
      BY <2>1, LiveIsBusy DEF SlotInv, SlotsAccountedFor
    <3>2. \A v, w \in Alive : job[v] = job[w] => v = w
      BY <2>1, LiveIsBusy DEF SlotInv
    <3>3. QED BY <3>1, <3>2 DEF Injection, IsInjective
  <2>3. IsFiniteSet(running) /\ Cardinality(running) \in Nat
    BY <2>1, FS_CardinalityType DEF SlotInv
  <2>4. IsFiniteSet(Alive) /\ Cardinality(Alive) <= Cardinality(running)
    BY <2>2, <2>3, FS_Injection
  <2>5. Cardinality(Alive) \in Nat /\ Cardinality(running) <= Limit
    BY <2>1, <2>4, FS_CardinalityType DEF SlotInv
  <2>6. QED BY <2>3, <2>4, <2>5, QueueAssumption DEF ConcurrencyLimit, QueueAssumption
<1>2. QED BY <1>1, Invariance, PTL

\* No slot of the scheduler leaks and none is used twice.
THEOREM NoSlotLeaks == Spec => []SlotsAccountedFor
<1>1. IInv => SlotsAccountedFor
  BY DEF IInv, SlotInv
<1>2. QED BY <1>1, Invariance, PTL

\* A task is marked as succeeded only after its result was saved, and a result
\* never goes back to the queue.
THEOREM ResultsAreSafe == Spec => [](SucceededHasResult /\ ResultNeverRequeued)
<1>1. IInv => SucceededHasResult /\ ResultNeverRequeued
  BY DEF IInv, RowsInv
<1>2. QED BY <1>1, Invariance, PTL

\* A cancelled task nobody is working on stays cancelled.
THEOREM CancelHolds == Spec => CancelledStays
<1> DEFINE Stays(t) ==
      task[t] = "cancelled" /\ request[t] # "preview" /\ t \notin running
        => task'[t] \in {"cancelled", "cancel_requested"}
<1>1. IInv /\ [Next]_vars => \A t \in Tasks : Stays(t)
  <2> SUFFICES ASSUME IInv, [Next]_vars, NEW t \in Tasks,
                      task[t] = "cancelled", request[t] # "preview", t \notin running
               PROVE  task'[t] \in {"cancelled", "cancel_requested"}
    OBVIOUS
  <2> USE DEF IInv, TypeOK, rowVars
  <2>0. \A w \in Workers : Busy(w) => job[w] \in Tasks /\ job[w] # t
    BY DEF SlotInv, SlotsAccountedFor
  <2>1. CASE SchedulerStart \/ ApiStart
    BY <2>1 DEF SchedulerStart, ApiStart, ResetStuckTasksOnStartup
  <2>2. CASE Restart
    BY <2>2 DEF Restart
  <2>3. CASE ApiStep
    BY <2>3
    DEF ApiStep, RunNow, RunNowPreviewFails, RunNowEnqueue, RunNowHistory, CancelRead,
        CancelWrite, Decide, RetryTask, Fresh
  <2>4. CASE TickStep
    BY <2>4
    DEF TickStep, ScanQueue, ResetStuckHistory, ResetStuckTask, EnqueueDue, SkipSupervised,
        StopAtLimit, ClaimMissed, Claim, Claimable, Fresh
  <2>5. ASSUME NEW w \in Workers, WorkerStep(w)
        PROVE task'[t] \in {"cancelled", "cancel_requested"}
    BY <2>0, <2>5
    DEF WorkerStep, LoadRow, LoadRowWithoutPayload, FailWithoutPayload, Begin, StartPipeline,
        Progress, PipelineFails, RunFails, PersistResult, Succeed, NotificationsSent, Moves,
        WriteRunning, WriteFailed, Busy
  <2>6. ASSUME NEW w \in Workers, SupervisorStep(w)
        PROVE task'[t] \in {"cancelled", "cancel_requested"}
    BY <2>0, <2>6
    DEF SupervisorStep, WorkerLost, SuperviseDone, SuperviseFailure, SuperviseFailureLost,
        WriteFailed, Busy
  <2>7. CASE UNCHANGED vars
    BY <2>7 DEF vars
  <2>8. QED BY <2>1, <2>2, <2>3, <2>4, <2>5, <2>6, <2>7 DEF Next
<1>2. IInv /\ [Next]_vars => [\A t \in Tasks : Stays(t)]_vars
  BY <1>1
<1>3. QED BY <1>2, Invariance, PTL DEF Spec, CancelledStays

-----------------------------------------------------------------------------
(* The queue implements the worker pool.                                   *)

\* A step that starts and ends no process.
LEMMA SameExecuting ==
  ASSUME job' = job, \A w \in Workers : Live(w)' <=> Live(w)
  PROVE  Executing' = Executing
BY DEF Executing

\* A step that ends at most the process of slot w, freeing the slot or not.
LEMMA ProcessEnds ==
  ASSUME SlotInv, NEW w \in Workers, Busy(w), ~Live(w)',
         \A v \in Workers : v # w => job'[v] = job[v] /\ (Live(v)' <=> Live(v))
  PROVE  Executing' = Executing \ {job[w]}
<1>1. \A v \in Workers : v # w /\ Live(v) => job[v] # job[w]
  BY LiveIsBusy DEF SlotInv
<1>2. QED BY <1>1 DEF Executing

\* What is left of a pool step when no process starts or ends.
LEMMA SameResults ==
  ASSUME Executing' = Executing,
         \A t \in Tasks : history'[t] \in ResultStatuses <=> history[t] \in ResultStatuses
  PROVE  UNCHANGED Pool!vars
BY DEF Pool!vars, WithResult

\* The pool's own instance of FiniteSets counts the same.
LEMMA SameCardinality == Pool!Cardinality(Executing) = Cardinality(Executing)
BY DEF Pool!Cardinality, Cardinality

LEMMA ClaimStarts ==
  ASSUME IInv, NEW t \in Tasks, NEW w \in Workers, Claim(t, w)
  PROVE  Pool!Start(t)
<1> USE DEF IInv, TypeOK
<1>1. /\ t \notin running /\ Cardinality(running) < Limit /\ task[t] = "queued" /\ ~Busy(w)
      /\ job' = [job EXCEPT ![w] = t] /\ pc' = [pc EXCEPT ![w] = "booting"]
      /\ history' = history
  BY DEF Claim, MayClaim, Claimable
<1>2. t \notin Executing /\ Cardinality(Executing) < Limit
  BY <1>1, ExecutingIsRunning, QueueAssumption DEF QueueAssumption
<1>3. t \notin WithResult
  BY <1>1 DEF RowsInv, ResultNeverRequeued, WithResult
<1>4. Live(w)' /\ job'[w] = t /\ ~Live(w)
  BY <1>1, LiveIsBusy DEF Live, LivePCs, SilentPCs
<1>5. \A v \in Workers : v # w => job'[v] = job[v] /\ (Live(v)' <=> Live(v))
  BY <1>1 DEF Live
<1>6. Executing' = Executing \cup {t}
  BY <1>4, <1>5 DEF Executing
<1>7. WithResult' = WithResult
  BY <1>1 DEF WithResult
<1>8. QED BY <1>2, <1>3, <1>6, <1>7, SameCardinality DEF Pool!Start

LEMMA ApiKeepsPool ==
  ASSUME IInv, ApiStep
  PROVE  [Pool!Next]_(Pool!vars)
<1> USE DEF IInv, TypeOK, requestVars, workerVars, rowVars
<1>1. Executing' = Executing
  BY SameExecuting
  DEF ApiStep, RunNow, RunNowPreviewFails, RunNowEnqueue, RunNowHistory, CancelRead,
      CancelWrite, Decide, RetryTask, Live
<1>2. ASSUME NEW t \in Tasks, RunNowHistory(t)
      PROVE [Pool!Next]_(Pool!vars)
  <2>1. WithResult' = WithResult \ {t}
    BY <1>2 DEF RunNowHistory, WithResult, ResultStatuses
  <2>2. CASE t \in WithResult
    BY <1>1, <2>1, <2>2 DEF Pool!Next, Pool!Withdraw
  <2>3. CASE t \notin WithResult
    BY <1>1, <2>1, <2>3 DEF Pool!vars
  <2>4. QED BY <2>2, <2>3
<1>3. ASSUME NEW t \in Tasks, RunNowPreviewFails(t)
      PROVE [Pool!Next]_(Pool!vars)
  <2>1. history[t] \notin ResultStatuses
    BY <1>3 DEF RunNowPreviewFails, RowsInv
  <2>2. QED
    BY <1>1, <1>3, <2>1, SameResults DEF RunNowPreviewFails, ResultStatuses
<1>4. ASSUME NEW t \in Tasks, Decide(t)
      PROVE [Pool!Next]_(Pool!vars)
  BY <1>1, <1>4, SameResults DEF Decide, ResultStatuses
<1>5. ASSUME NEW t \in Tasks,
             \/ RunNow(t) \/ RunNowEnqueue(t) \/ CancelRead(t) \/ CancelWrite(t)
             \/ \E parent \in Tasks : RetryTask(parent, t)
      PROVE [Pool!Next]_(Pool!vars)
  <2>1. history' = history
    BY <1>5 DEF RunNow, RunNowEnqueue, CancelRead, CancelWrite, RetryTask
  <2>2. QED BY <1>1, <2>1, SameResults
<1>6. QED BY <1>2, <1>3, <1>4, <1>5 DEF ApiStep

LEMMA TickKeepsPool ==
  ASSUME IInv, TickStep
  PROVE  [Pool!Next]_(Pool!vars)
<1> USE DEF IInv, TypeOK, workerVars, rowVars
<1>1. ASSUME NEW t \in Tasks, NEW w \in Workers, Claim(t, w)
      PROVE [Pool!Next]_(Pool!vars)
  BY <1>1, ClaimStarts DEF Pool!Next
<1>2. CASE \/ ScanQueue
           \/ \E t \in Tasks : \/ ResetStuckHistory(t) \/ ResetStuckTask(t) \/ EnqueueDue(t)
                              \/ SkipSupervised(t) \/ StopAtLimit(t) \/ ClaimMissed(t)
  <2>1. Executing' = Executing
    BY <1>2, SameExecuting
    DEF ScanQueue, ResetStuckHistory, ResetStuckTask, EnqueueDue, SkipSupervised,
        StopAtLimit, ClaimMissed, Live
  <2>2. \A u \in Tasks : history'[u] \in ResultStatuses <=> history[u] \in ResultStatuses
    BY <1>2
    DEF ScanQueue, ResetStuckHistory, ResetStuckTask, EnqueueDue, SkipSupervised,
        StopAtLimit, ClaimMissed, ResultStatuses
  <2>3. QED BY <2>1, <2>2, SameResults
<1>3. QED BY <1>1, <1>2 DEF TickStep

LEMMA WorkerKeepsPool ==
  ASSUME IInv, NEW w \in Workers, WorkerStep(w)
  PROVE  [Pool!Next]_(Pool!vars)
<1> USE DEF IInv, TypeOK, Moves, WorkerKeeps, rowVars
<1>0. Live(w) /\ Busy(w) /\ job[w] \in Tasks
  BY DEF WorkerStep, LoadRow, LoadRowWithoutPayload, FailWithoutPayload, Begin,
         StartPipeline, Progress, PipelineFails, RunFails, PersistResult, Succeed,
         NotificationsSent, Live, LivePCs, SilentPCs, Busy, SlotInv
<1> DEFINE j == job[w]
<1>1. j \in Executing
  BY <1>0 DEF Executing
<1>2. ASSUME NEW from \in LivePCs, NEW to \in LivePCs, Moves(w, from, to), WorkerKeeps
      PROVE Executing' = Executing
  BY <1>2, SameExecuting DEF Live
<1>3. ASSUME NEW from \in LivePCs, NEW to \in ExitedPCs, Moves(w, from, to), WorkerKeeps
      PROVE Executing' = Executing \ {j}
  <2>1. ~Live(w)' /\ \A v \in Workers : v # w => job'[v] = job[v] /\ (Live(v)' <=> Live(v))
    BY <1>3 DEF Live, LivePCs, SilentPCs, ExitedPCs
  <2>2. QED BY <1>0, <2>1, ProcessEnds
<1>4. CASE LoadRow(w) \/ LoadRowWithoutPayload(w) \/ Begin(w) \/ Succeed(w)
  <2>1. Executing' = Executing
    BY <1>2, <1>4 DEF LoadRow, LoadRowWithoutPayload, Begin, Succeed, LivePCs, SilentPCs
  <2>2. history' = history
    BY <1>4 DEF LoadRow, LoadRowWithoutPayload, Begin, Succeed
  <2>3. QED BY <2>1, <2>2, SameResults
<1>5. CASE FailWithoutPayload(w) \/ NotificationsSent(w)
  <2>1. Executing' = Executing \ {j}
    BY <1>3, <1>5 DEF FailWithoutPayload, NotificationsSent, LivePCs, SilentPCs, ExitedPCs
  <2>2. WithResult' = WithResult
    BY <1>5 DEF FailWithoutPayload, NotificationsSent, WithResult
  <2>3. QED BY <1>0, <1>1, <2>1, <2>2 DEF Pool!Next, Pool!Stop
<1>6. CASE StartPipeline(w) \/ Progress(w)
  <2>1. Executing' = Executing
    BY <1>2, <1>6 DEF StartPipeline, Progress, LivePCs, SilentPCs
  <2>2. WithResult' = WithResult \ {j}
    BY <1>0, <1>6 DEF StartPipeline, Progress, WriteRunning, WithResult, ResultStatuses
  <2>3. CASE j \in WithResult
    BY <1>0, <2>1, <2>2, <2>3 DEF Pool!Next, Pool!Withdraw
  <2>4. CASE j \notin WithResult
    BY <2>1, <2>2, <2>4 DEF Pool!vars
  <2>5. QED BY <2>3, <2>4
<1>7. CASE PipelineFails(w) \/ RunFails(w)
  <2>1. Executing' = Executing \ {j}
    BY <1>3, <1>7 DEF PipelineFails, RunFails, LivePCs, ExitedPCs
  <2>2. WithResult' = WithResult \ {j}
    BY <1>0, <1>7 DEF PipelineFails, RunFails, WriteFailed, WithResult, ResultStatuses
  <2>3. CASE j \in WithResult
    BY <1>0, <2>1, <2>2, <2>3 DEF Pool!Next, Pool!Withdraw
  <2>4. CASE j \notin WithResult
    BY <1>0, <1>1, <2>1, <2>2, <2>4 DEF Pool!Next, Pool!Stop
  <2>5. QED BY <2>3, <2>4
<1>8. CASE PersistResult(w)
  <2>1. Executing' = Executing
    BY <1>2, <1>8 DEF PersistResult, LivePCs
  <2>2. WithResult' = WithResult \cup {j}
    BY <1>0, <1>8 DEF PersistResult, WithResult, ResultStatuses
  <2>3. QED BY <1>0, <1>1, <2>1, <2>2 DEF Pool!Next, Pool!Deliver
<1>9. QED BY <1>4, <1>5, <1>6, <1>7, <1>8 DEF WorkerStep

LEMMA SupervisorKeepsPool ==
  ASSUME IInv, NEW w \in Workers, SupervisorStep(w)
  PROVE  [Pool!Next]_(Pool!vars)
<1> USE DEF IInv, TypeOK, rowVars
<1>0. Busy(w) /\ job[w] \in Tasks
  BY LiveIsBusy
  DEF SupervisorStep, WorkerLost, SuperviseDone, SuperviseFailure, SuperviseFailureLost,
      Busy, SlotInv
<1> DEFINE j == job[w]
<1>1. CASE WorkerLost(w)
  <2>1. ~Live(w)' /\ \A v \in Workers : v # w => job'[v] = job[v] /\ (Live(v)' <=> Live(v))
    BY <1>1 DEF WorkerLost, WorkerKeeps, Live, LivePCs, SilentPCs
  <2>2. Executing' = Executing \ {j} /\ j \in Executing
    BY <1>0, <1>1, <2>1, ProcessEnds DEF WorkerLost, Executing
  <2>3. WithResult' = WithResult
    BY <1>1 DEF WorkerLost, WithResult
  <2>4. QED BY <1>0, <2>2, <2>3 DEF Pool!Next, Pool!Stop
<1>2. CASE SuperviseDone(w) \/ SuperviseFailure(w) \/ SuperviseFailureLost(w)
  <2>1. FreeSlot(w) /\ ~Live(w)
    BY <1>2
    DEF SuperviseDone, SuperviseFailure, SuperviseFailureLost, Live, LivePCs, SilentPCs
  <2>2. ~Live(w)' /\ \A v \in Workers : v # w => job'[v] = job[v] /\ (Live(v)' <=> Live(v))
    BY <2>1 DEF FreeSlot, Live, LivePCs, SilentPCs
  <2>3. j \notin Executing
    BY <1>0, <2>1, LiveIsBusy DEF Executing, SlotInv
  <2>4. Executing' = Executing
    BY <1>0, <2>2, <2>3, ProcessEnds
  <2>5. CASE history' = history
    BY <2>4, <2>5, SameResults
  <2>6. CASE SuperviseFailure(w)
    <3>1. WithResult' = WithResult \ {j}
      BY <1>0, <2>6 DEF SuperviseFailure, WriteFailed, WithResult, ResultStatuses
    <3>2. CASE j \in WithResult
      BY <1>0, <2>4, <3>1, <3>2 DEF Pool!Next, Pool!Withdraw
    <3>3. CASE j \notin WithResult
      BY <2>4, <3>1, <3>3 DEF Pool!vars
    <3>4. QED BY <3>2, <3>3
  <2>7. QED BY <1>2, <2>5, <2>6 DEF SuperviseDone, SuperviseFailureLost
<1>3. QED BY <1>1, <1>2 DEF SupervisorStep

\* Every behaviour of the queue is a behaviour of the worker pool.
THEOREM QueueImplementsPool == Spec => ImplementsPool
<1>1. Init => Pool!Init
  BY DEF Init, Pool!Init, Executing, WithResult, Live, LivePCs, SilentPCs, ResultStatuses
<1>2. IInv /\ [Next]_vars => [Pool!Next]_(Pool!vars)
  <2> SUFFICES ASSUME IInv, [Next]_vars PROVE [Pool!Next]_(Pool!vars)
    OBVIOUS
  <2>1. CASE SchedulerStart \/ ApiStart
    <3>1. ResetStuckTasksOnStartup /\ UNCHANGED workerVars
      BY <2>1 DEF SchedulerStart, ApiStart
    <3>2. Executing' = Executing
      BY <3>1, SameExecuting DEF workerVars, Live
    <3>3. \A t \in Tasks : history'[t] \in ResultStatuses <=> history[t] \in ResultStatuses
      BY <3>1 DEF ResetStuckTasksOnStartup, ResultStatuses
    <3>4. QED BY <3>2, <3>3, SameResults
  <2>2. CASE Restart
    <3>1. Executing' = {} /\ WithResult' = WithResult
      BY <2>2 DEF Restart, rowVars, Executing, WithResult, Live, LivePCs, SilentPCs
    <3>2. QED BY <3>1 DEF Pool!Next, Pool!StopAll
  <2>3. CASE ApiStep
    BY <2>3, ApiKeepsPool
  <2>4. CASE TickStep
    BY <2>4, TickKeepsPool
  <2>5. ASSUME NEW w \in Workers, WorkerStep(w) PROVE [Pool!Next]_(Pool!vars)
    BY <2>5, WorkerKeepsPool
  <2>6. ASSUME NEW w \in Workers, SupervisorStep(w) PROVE [Pool!Next]_(Pool!vars)
    BY <2>6, SupervisorKeepsPool
  <2>7. CASE UNCHANGED vars
    <3>1. Executing' = Executing /\ history' = history
      BY <2>7, SameExecuting DEF vars, rowVars, workerVars, Live
    <3>2. QED BY <3>1, SameResults
  <2>8. QED BY <2>1, <2>2, <2>3, <2>4, <2>5, <2>6, <2>7 DEF Next
<1>3. QED BY <1>1, <1>2, Invariance, PTL DEF Spec, ImplementsPool, Pool!Spec
=============================================================================
