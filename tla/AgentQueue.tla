------------------------------ MODULE AgentQueue ------------------------------
(***************************************************************************)
(* The file queue of the host agent for one target: invocations of the     *)
(* dailyfx-agent command persist a job each, one of them becomes the       *)
(* worker, runs its own job, in the foreground or in a daemon child, and   *)
(* then drains the jobs of the others.                                     *)
(*                                                                         *)
(* Each function of queue.py holds the target's flock from beginning to    *)
(* end, so it is one action. The lock file of a schedule is taken and      *)
(* released in one step here; module ScheduleLock looks inside.            *)
(***************************************************************************)
EXTENDS Naturals, FiniteSets

CONSTANTS
  Agents,       \* invocations of the command for this target
  Schedules,
  MaxJobs,      \* bound: job files ever created
  MaxRepeat,    \* bound: an invocation asks for 1..MaxRepeat runs
  MaxFaults,    \* bound: kills, interrupts and exceptions
  MaxExpiries,  \* bound: times the owner file becomes older than a day
  Nobody,       \* no owner file, no lock file
  Other         \* holder of a schedule's lock that works for another target

Pids == Agents \X {"main", "child"}

ASSUME AgentAssumption ==
  /\ {MaxJobs, MaxFaults, MaxExpiries} \subseteq Nat
  /\ MaxRepeat \in Nat \ {0}
  /\ Nobody \notin Pids \cup {Other} /\ Other \notin Pids

VARIABLES
  pending,    \* jobs with a file in pending/, named by their creation time
  runningDir, \* jobs with a file in running/
  issued,     \* how many jobs were created: their names are 1..issued
  schedule,   \* --schedule-id of each job
  repeat,     \* --repeat of each job's file
  owner,      \* pid in owner.json
  expired,    \* is its started_at more than a day old?
  lock,       \* pid in the lock file of each schedule
  pc,         \* where the process that works for each invocation is
  parent,     \* a daemon's parent, once it has spawned the child
  own, asked, \* the job and the --repeat of each invocation
  cur, left,  \* the job an invocation works on, runs it still has to do
  draining,   \* is that a job from the queue (maybe its own, recovered)?
  faults, expiries   \* counters for the bounds

files  == <<pending, runningDir, issued, schedule, repeat>>
locals == <<own, asked, cur, left, draining>>
counts == <<faults, expiries>>
vars == <<files, owner, expired, lock, pc, parent, locals, counts>>

Jobs == 1..MaxJobs

\* Where a worker can be, from the election to the release of the owner file.
WorkPCs == {"elected", "locking", "spawning", "booting", "running", "finishOwn",
            "unlockOwn", "drain", "unlockDrained", "finishDrained", "release",
            "unlockStopped", "finishStopped", "finishRaised", "unlockRaised",
            "refused", "refusedRelease", "abort", "abortRelease"}
PCs == WorkPCs \cup {"idle", "unlockEnd", "exited", "dead"}

Working(a) == pc[a] \in WorkPCs
Running(a) == pc[a] \notin {"idle", "exited", "dead"}

\* The pid of the process that is at pc[a]: after the spawn, the child's.
Self(a) == <<a, IF parent[a] = "none" THEN "main" ELSE "child">>

\* os.kill(pid, 0): a daemon's parent lives on until it has handed over.
Alive(pid) ==
  \E a \in Agents :
    \/ pid = Self(a) /\ Running(a)
    \/ pid = <<a, "main">> /\ parent[a] \in {"waiting", "locked"}

\* The parent was killed before it wrote the child's pid into owner.json.
Orphan(a) == parent[a] = "killed"

-----------------------------------------------------------------------------
TypeOK ==
  /\ pending \subseteq Jobs /\ runningDir \subseteq Jobs
  /\ issued \in 0..MaxJobs
  /\ schedule \in [Jobs -> Schedules \cup {Nobody}]
  /\ repeat \in [Jobs -> Nat]
  /\ owner \in Pids \cup {Nobody}
  /\ expired \in BOOLEAN
  /\ lock \in [Schedules -> Pids \cup {Nobody, Other}]
  /\ pc \in [Agents -> PCs]
  /\ parent \in [Agents -> {"none", "waiting", "locked", "gone", "killed"}]
  /\ own \in [Agents -> Nat] /\ cur \in [Agents -> Nat]
  /\ asked \in [Agents -> 1..MaxRepeat]
  /\ left \in [Agents -> Nat]
  /\ draining \in [Agents -> BOOLEAN]
  /\ faults \in 0..MaxFaults /\ expiries \in 0..MaxExpiries

\* No queue directory yet.
Init ==
  /\ pending = {} /\ runningDir = {} /\ issued = 0
  /\ schedule = [j \in Jobs |-> Nobody]
  /\ repeat = [j \in Jobs |-> 0]
  /\ owner = Nobody /\ expired = FALSE
  /\ lock = [s \in Schedules |-> Nobody]
  /\ pc = [a \in Agents |-> "idle"]
  /\ parent = [a \in Agents |-> "none"]
  /\ own = [a \in Agents |-> 0] /\ cur = [a \in Agents |-> 0]
  /\ asked = [a \in Agents |-> 1]
  /\ left = [a \in Agents |-> 0]
  /\ draining = [a \in Agents |-> FALSE]
  /\ faults = 0 /\ expiries = 0

-----------------------------------------------------------------------------
(* queue.py, each function under the target's flock.                       *)

\* _read_owner: the owner file counts while its process lives and it is recent.
OwnerValid == owner # Nobody /\ ~expired /\ Alive(owner)

Oldest(J) == {j \in J : \A i \in J : schedule[i] = schedule[j] => j <= i}

\* Mutant: recovery only if there is no owner file at all.
RecoveredIfNoFile == IF owner = Nobody THEN runningDir ELSE {}

\* _recover_running: without a valid owner, the files in running/ go back ...
Recovered == IF OwnerValid THEN {} ELSE runningDir

\* _deduplicate_pending: ... and the oldest job of each schedule is kept.
Kept == Oldest(pending \cup Recovered)

\* enqueue_or_claim: the job is merged into a pending one of the same schedule,
\* or gets a file of its own; without a valid owner the caller is the worker.
EnqueueOrClaim(a, s, r) ==
  /\ pc[a] = "idle"
  /\ \E j \in Jobs :
       /\ \/ /\ j \in Kept /\ schedule[j] = s
             /\ repeat' = [repeat EXCEPT ![j] = @ + r]
             /\ pending' = Kept
             /\ UNCHANGED <<issued, schedule>>
          \/ /\ \A k \in Kept : schedule[k] # s
             /\ j = issued + 1
             /\ issued' = j
             /\ schedule' = [schedule EXCEPT ![j] = s]
             /\ repeat' = [repeat EXCEPT ![j] = r]
             /\ pending' = Kept \cup {j}
       /\ own' = [own EXCEPT ![a] = j]
       /\ cur' = [cur EXCEPT ![a] = j]
  /\ asked' = [asked EXCEPT ![a] = r]
  /\ runningDir' = runningDir \ Recovered
  /\ IF OwnerValid
     THEN /\ pc' = [pc EXCEPT ![a] = "exited"]
          /\ UNCHANGED <<owner, expired>>
     ELSE /\ pc' = [pc EXCEPT ![a] = "elected"]
          /\ owner' = <<a, "main">> /\ expired' = FALSE
  /\ UNCHANGED <<lock, parent, left, draining, counts>>

Goes(a, from, to) == pc[a] = from /\ pc' = [pc EXCEPT ![a] = to]

\* claim_job: the caller's own job, if it is still there.
ClaimJob(a) ==
  /\ Goes(a, "elected", "locking")
  /\ IF own[a] \in pending
     THEN pending' = pending \ {own[a]} /\ runningDir' = runningDir \cup {own[a]}
     ELSE UNCHANGED <<pending, runningDir>>
  /\ UNCHANGED <<issued, schedule, repeat, owner, expired, lock, parent, locals, counts>>

\* Mutant: the oldest job is read but its file stays where it is.
NextJobKeepsFile(a) ==
  \E j \in pending :
    /\ \A i \in pending : j <= i
    /\ Goes(a, "drain", "locking")
    /\ cur' = [cur EXCEPT ![a] = j]
    /\ draining' = [draining EXCEPT ![a] = TRUE]
    /\ UNCHANGED <<files, owner, expired, lock, parent, own, asked, left, counts>>

\* next_job: the oldest pending job ...
NextJob(a) ==
  \E j \in pending :
    /\ \A i \in pending : j <= i
    /\ Goes(a, "drain", "locking")
    /\ cur' = [cur EXCEPT ![a] = j]
    /\ draining' = [draining EXCEPT ![a] = TRUE]
    /\ pending' = pending \ {j}
    /\ runningDir' = runningDir \cup {j}
    /\ UNCHANGED <<issued, schedule, repeat, owner, expired, lock, parent, own, asked, left, counts>>

\* ... or None: _drain_queue leaves its loop.
NoNextJob(a) ==
  /\ pending = {}
  /\ Goes(a, "drain", "release")
  /\ UNCHANGED <<files, owner, expired, lock, parent, locals, counts>>

AfterFinish(a) ==
  [finishOwn |-> IF parent[a] = "none" THEN "unlockOwn" ELSE "drain",
   finishDrained |-> "drain", finishStopped |-> "release",
   finishRaised |-> "unlockRaised", refused |-> "refusedRelease",
   abort |-> "abortRelease"]

\* Mutant: the job's file is removed wherever it is.
FinishJobAnywhere(a) ==
  /\ pc[a] \in DOMAIN AfterFinish(a)
  /\ pc' = [pc EXCEPT ![a] = AfterFinish(a)[pc[a]]]
  /\ runningDir' = runningDir \ {cur[a]} /\ pending' = pending \ {cur[a]}
  /\ UNCHANGED <<issued, schedule, repeat, owner, expired, lock, parent, locals, counts>>

\* finish_job: the file in running/ is removed.
FinishJob(a) ==
  /\ pc[a] \in DOMAIN AfterFinish(a)
  /\ pc' = [pc EXCEPT ![a] = AfterFinish(a)[pc[a]]]
  /\ runningDir' = runningDir \ {cur[a]}
  /\ UNCHANGED <<pending, issued, schedule, repeat, owner, expired, lock, parent, locals, counts>>

AfterRelease(a) ==
  [release |-> IF parent[a] = "none" THEN "exited" ELSE "unlockEnd",
   refusedRelease |-> "exited", abortRelease |-> "unlockEnd"]

\* release_owner: only the caller's own pid is taken out.
ReleaseOwner(a) ==
  /\ pc[a] \in DOMAIN AfterRelease(a)
  /\ pc' = [pc EXCEPT ![a] = AfterRelease(a)[pc[a]]]
  /\ IF owner = Self(a) THEN owner' = Nobody /\ expired' = FALSE
                        ELSE UNCHANGED <<owner, expired>>
  /\ UNCHANGED <<files, lock, parent, locals, counts>>

-----------------------------------------------------------------------------
(* locks.py, in one step each.                                             *)

\* The lock file is missing, or its process is gone.
LockFree(s) == lock[s] = Nobody \/ (lock[s] \in Pids /\ ~Alive(lock[s]))

\* The runs asked for: of an own job on the command line, of a drained one in
\* its file. Only a worker in the foreground may go on to spawn a daemon.
AcquireLock(a) ==
  LET s == schedule[cur[a]] IN
  /\ pc[a] = "locking"
  /\ LockFree(s)
  /\ lock' = [lock EXCEPT ![s] = Self(a)]
  /\ left' = [left EXCEPT ![a] = IF draining[a] THEN repeat[cur[a]] ELSE asked[a]]
  /\ \/ Goes(a, "locking", "running")
     \/ ~draining[a] /\ parent[a] = "none" /\ Goes(a, "locking", "spawning")
  /\ UNCHANGED <<files, owner, expired, parent, own, asked, cur, draining, counts>>

\* RuntimeError: "another agent is already running schedule ...".
LockRefused(a) ==
  /\ Goes(a, "locking", IF draining[a] THEN "finishDrained" ELSE "refused")
  /\ ~LockFree(schedule[cur[a]])
  /\ UNCHANGED <<files, owner, expired, lock, parent, locals, counts>>

\* The schedule whose lock the process at pc[a] is about to release: that of
\* its first job when a daemon ends, otherwise that of the current one.
ToUnlock(a) == IF pc[a] \in {"unlockEnd", "unlockRaised"} THEN own[a] ELSE cur[a]

AfterUnlock ==
  [unlockOwn |-> "drain", unlockDrained |-> "finishDrained",
   unlockStopped |-> "finishStopped", unlockRaised |-> "exited",
   unlockEnd |-> "exited"]

\* _release_lock: only a file with the caller's own pid is removed.
ReleaseLock(a) ==
  LET s == schedule[ToUnlock(a)] IN
  /\ pc[a] \in DOMAIN AfterUnlock
  /\ pc' = [pc EXCEPT ![a] = AfterUnlock[pc[a]]]
  /\ lock' = IF lock[s] = Self(a) THEN [lock EXCEPT ![s] = Nobody] ELSE lock
  /\ UNCHANGED <<files, owner, expired, parent, locals, counts>>

\* Workers of the other targets use the same lock files.
OtherLocks(s) ==
  /\ LockFree(s)
  /\ lock' = [lock EXCEPT ![s] = Other]
  /\ UNCHANGED <<files, owner, expired, pc, parent, locals, counts>>

OtherUnlocks(s) ==
  /\ lock[s] = Other
  /\ lock' = [lock EXCEPT ![s] = Nobody]
  /\ UNCHANGED <<files, owner, expired, pc, parent, locals, counts>>

-----------------------------------------------------------------------------
(* runner.py: the worker and its daemon.                                   *)

\* What may go wrong in the environment, as often as the bound allows.
Fault == faults < MaxFaults /\ faults' = faults + 1

\* proc.start(): from here on pc[a] is where the child is.
Spawn(a) ==
  /\ Goes(a, "spawning", "booting")
  /\ parent' = [parent EXCEPT ![a] = "waiting"]
  /\ UNCHANGED <<files, owner, expired, lock, locals, counts>>

SpawnFails(a) ==
  /\ Fault
  /\ Goes(a, "spawning", "abort")
  /\ UNCHANGED <<files, owner, expired, lock, parent, locals, expiries>>

\* ready_event.set()
ChildReady(a) ==
  /\ Goes(a, "booting", "running")
  /\ UNCHANGED <<files, owner, expired, lock, parent, locals, counts>>

\* The event is not set in time, because the child died or is too slow: the
\* parent terminates it and cleans up.
StartFails(a) ==
  /\ Fault
  /\ parent[a] = "waiting"
  /\ Goes(a, "booting", "abort")
  /\ parent' = [parent EXCEPT ![a] = "none"]
  /\ UNCHANGED <<files, owner, expired, lock, locals, expiries>>

\* Mutant: the lock file keeps the pid of the parent, which exits.
HandOverNoLock(a) ==
  /\ parent[a] = "waiting" /\ pc[a] # "booting"
  /\ parent' = [parent EXCEPT ![a] = "locked"]
  /\ UNCHANGED <<files, owner, expired, lock, pc, locals, counts>>

\* _update_lock_for_daemon_child and update_owner_pid write the child's pid
\* into whatever file is there.
HandOverLock(a) ==
  LET s == schedule[own[a]] IN
  /\ parent[a] = "waiting" /\ pc[a] # "booting"
  /\ parent' = [parent EXCEPT ![a] = "locked"]
  /\ lock' = IF lock[s] = Nobody THEN lock ELSE [lock EXCEPT ![s] = <<a, "child">>]
  /\ UNCHANGED <<files, owner, expired, pc, locals, counts>>

\* Mutant: the owner file keeps the pid of the parent, which exits.
HandOverNothing(a) ==
  /\ parent[a] = "locked"
  /\ parent' = [parent EXCEPT ![a] = "gone"]
  /\ UNCHANGED <<files, owner, expired, lock, pc, locals, counts>>

HandOverOwner(a) ==
  /\ parent[a] = "locked"
  /\ parent' = [parent EXCEPT ![a] = "gone"]
  /\ owner' = IF owner = Nobody THEN Nobody ELSE <<a, "child">>
  /\ UNCHANGED <<files, expired, lock, pc, locals, counts>>

\* One _run_workflow_iteration of several; a failed one counts like the others.
Run(a) ==
  /\ pc[a] = "running" /\ left[a] > 1
  /\ left' = [left EXCEPT ![a] = @ - 1]
  /\ UNCHANGED <<files, owner, expired, lock, pc, parent, own, asked, cur, draining, counts>>

\* The last one. A drained job is an inner call of main: its finally block
\* releases the lock before _drain_queue removes the file; with a job of its
\* own the worker does so in the other order.
LastRun(a) ==
  /\ left[a] <= 1
  /\ Goes(a, "running", IF draining[a] THEN "unlockDrained" ELSE "finishOwn")
  /\ UNCHANGED <<files, owner, expired, lock, parent, locals, counts>>

\* An exception in a run: of a drained job, _drain_queue goes on; of its own,
\* the worker leaves, a daemon's child without removing the job's file.
RunRaises(a) ==
  /\ Fault
  /\ Goes(a, "running", IF draining[a] THEN "unlockDrained"
                        ELSE IF parent[a] = "none" THEN "finishRaised" ELSE "unlockRaised")
  /\ UNCHANGED <<files, owner, expired, lock, parent, locals, expiries>>

\* SIGTERM or SIGINT in a run: SystemExit passes every handler but finally.
Interrupt(a) ==
  /\ Fault
  /\ draining[a] \/ parent[a] = "none"
  /\ Goes(a, "running", IF draining[a] THEN "unlockStopped" ELSE "finishRaised")
  /\ UNCHANGED <<files, owner, expired, lock, parent, locals, expiries>>

\* The process dies: kill -9, out of memory, the machine.
Kill(a) ==
  /\ Fault
  /\ Running(a) /\ pc[a] # "booting"
  /\ pc' = [pc EXCEPT ![a] = "dead"]
  /\ UNCHANGED <<files, owner, expired, lock, parent, locals, expiries>>

\* The parent dies before it has handed over.
KillParent(a) ==
  /\ Fault
  /\ parent[a] \in {"waiting", "locked"}
  /\ parent' = [parent EXCEPT ![a] = "killed"]
  /\ UNCHANGED <<files, owner, expired, lock, pc, locals, expiries>>

\* The owner file becomes older than _OWNER_MAX_AGE_SECONDS: nothing renews it.
Expire ==
  /\ expiries < MaxExpiries /\ expiries' = expiries + 1
  /\ owner # Nobody /\ ~expired
  /\ expired' = TRUE
  /\ UNCHANGED <<files, owner, lock, pc, parent, locals, faults>>

-----------------------------------------------------------------------------
\* What a worker does by itself.
WorkStep(a) ==
  \/ ClaimJob(a) \/ AcquireLock(a) \/ LockRefused(a)
  \/ Spawn(a) \/ ChildReady(a) \/ HandOverLock(a) \/ HandOverOwner(a)
  \/ Run(a) \/ LastRun(a) \/ FinishJob(a) \/ ReleaseLock(a)
  \/ NextJob(a) \/ NoNextJob(a) \/ ReleaseOwner(a)

FaultStep(a) ==
  \/ SpawnFails(a) \/ StartFails(a) \/ RunRaises(a) \/ Interrupt(a)
  \/ Kill(a) \/ KillParent(a)

Next ==
  \/ \E a \in Agents :
       \/ \E s \in Schedules, r \in 1..MaxRepeat : EnqueueOrClaim(a, s, r)
       \/ WorkStep(a) \/ FaultStep(a)
  \/ \E s \in Schedules : OtherLocks(s) \/ OtherUnlocks(s)
  \/ Expire

Spec == Init /\ [][Next]_vars

\* A process that is not killed goes on, and a parent that waits for its child
\* too. Nothing is assumed of the users and of the other targets.
FairSpec == Spec /\ \A a \in Agents : WF_vars(WorkStep(a))

-----------------------------------------------------------------------------
(* Safety.                                                                 *)

\* At most one worker per target, as long as no owner file ages out and no
\* parent is killed between the start of its child and the handover.
OneWorker ==
  expiries = 0 =>
    \A a, b \in Agents : Working(a) /\ Working(b) /\ a # b => Orphan(a) \/ Orphan(b)

\* Whatever dies and comes back, a schedule has one pending job at most: the
\* runs of a recovered job and of a newer one do not add up to a retry storm.
PendingUnique ==
  \A i, j \in pending : schedule[i] = schedule[j] => i = j

\* A schedule that has a pending job keeps one until a worker takes it: neither
\* a recovery, nor a duplicate, nor the end of another job loses it.
Waiting(s) == \E j \in pending : schedule[j] = s
ScheduleServed ==
  [][\A s \in Schedules :
       Waiting(s) /\ ~Waiting(s)' => \E j \in pending : schedule[j] = s /\ j \in runningDir']_vars

\* A job in running/ is either being worked on or will be recovered by the next
\* invocation: it is never stuck there under an owner that ignores it.
JobRecoverable ==
  (expiries = 0 /\ OwnerValid /\ \A a \in Agents : parent[a] \in {"none", "gone"}) =>
    \A j \in runningDir : \E a \in Agents : Working(a) /\ cur[a] = j

\* A worker that runs a schedule holds its lock, against the other targets too,
\* through the handover to a daemon and through the drained jobs.
RunsUnderLock ==
  \A a \in Agents :
    pc[a] = "running" /\ ~Orphan(a)
      => lock[schedule[cur[a]]] \in {<<a, "main">>, <<a, "child">>}

(* Liveness.                                                               *)

\* A worker does not stay for ever: its queue runs dry and it leaves.
EveryWorkerLeaves == \A a \in Agents : Working(a) ~> ~Working(a)

(* What a message says of the program; the code does otherwise (README).    *)

\* "another agent is already running schedule" (locks.py): a worker is not
\* refused by its own lock.
RefusedByAnother ==
  \A a \in Agents : pc[a] = "locking" /\ ~LockFree(schedule[cur[a]])
                      => lock[schedule[cur[a]]] # Self(a)
=============================================================================
