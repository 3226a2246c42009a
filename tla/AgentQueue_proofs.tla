--------------------------- MODULE AgentQueue_proofs ---------------------------
(***************************************************************************)
(* The file queue of a target, for any number of invocations, schedules,   *)
(* jobs, runs, faults and expiries: types, the job files, the lock that a  *)
(* running worker holds, and the owner file that keeps workers apart.      *)
(***************************************************************************)
EXTENDS AgentQueue, WellFoundedInduction, TLAPS

-----------------------------------------------------------------------------
(* The inductive invariant.                                                *)

\* Every job that is named anywhere has been created.
NamesInv ==
  /\ pending \subseteq 1..issued /\ runningDir \subseteq 1..issued
  /\ \A j \in 1..issued : schedule[j] \in Schedules
  /\ \A a \in Agents : pc[a] # "idle" => own[a] \in 1..issued /\ cur[a] \in 1..issued

FilesInv == NamesInv /\ PendingUnique

\* Where a process is while it has a parent, or is one that may get a child.
DaemonInv ==
  \A a \in Agents :
    /\ pc[a] = "idle" => parent[a] = "none"
    /\ pc[a] = "spawning" => parent[a] = "none"
    /\ pc[a] = "booting" => parent[a] \in {"waiting", "killed"}
    /\ pc[a] \in {"idle", "elected", "spawning", "booting"} => ~draining[a]
    /\ ~draining[a] => cur[a] = own[a]

\* Whose pid the lock file has. A parent that waits is alive, so its lock
\* stays even if its child is through.
HoldsLock(a) ==
  /\ parent[a] = "waiting" => lock[schedule[own[a]]] = <<a, "main">>
  /\ parent[a] = "none" /\ pc[a] \in {"spawning", "running"}
       => lock[schedule[cur[a]]] = <<a, "main">>
  /\ parent[a] = "waiting" /\ pc[a] = "running" /\ schedule[cur[a]] # schedule[own[a]]
       => lock[schedule[cur[a]]] = <<a, "child">>
  /\ parent[a] \in {"locked", "gone"} /\ pc[a] = "running"
       => lock[schedule[cur[a]]] = <<a, "child">>

LockInv == \A a \in Agents : HoldsLock(a)

\* Whose pid the owner file has, as long as it has never been too old.
OwnsTarget(a) ==
  /\ parent[a] \in {"waiting", "locked"} => owner = <<a, "main">>
  /\ parent[a] = "none" /\ Working(a) => owner = <<a, "main">>
  /\ parent[a] = "gone" /\ Working(a) => owner = <<a, "child">>

OwnerInv == expiries = 0 => ~expired /\ \A a \in Agents : OwnsTarget(a)

IInv == TypeOK /\ FilesInv /\ DaemonInv /\ LockInv /\ OwnerInv

LEMMA BoundsAreNat ==
  MaxJobs \in Nat /\ MaxFaults \in Nat /\ MaxExpiries \in Nat /\ MaxRepeat \in Nat \ {0}
BY AgentAssumption DEF AgentAssumption

LEMMA InitIInv == Init => IInv
<1> SUFFICES ASSUME Init PROVE IInv
  OBVIOUS
<1>1. TypeOK
  <2>1. 0 \in 0..MaxJobs /\ 0 \in 0..MaxFaults /\ 0 \in 0..MaxExpiries /\ 1 \in 1..MaxRepeat
    BY BoundsAreNat
  <2>2. pending \subseteq Jobs /\ runningDir \subseteq Jobs /\ issued \in 0..MaxJobs
    BY <2>1 DEF Init
  <2>3. /\ pc \in [Agents -> PCs]
        /\ parent \in [Agents -> {"none", "waiting", "locked", "gone", "killed"}]
    BY DEF Init, PCs
  <2>4. /\ schedule \in [Jobs -> Schedules \cup {Nobody}] /\ repeat \in [Jobs -> Nat]
        /\ lock \in [Schedules -> Pids \cup {Nobody, Other}]
        /\ own \in [Agents -> Nat] /\ cur \in [Agents -> Nat]
        /\ asked \in [Agents -> 1..MaxRepeat] /\ left \in [Agents -> Nat]
        /\ draining \in [Agents -> BOOLEAN]
    BY <2>1 DEF Init
  <2> QED BY <2>1, <2>2, <2>3, <2>4 DEF Init, TypeOK
<1>2. FilesInv
  BY DEF Init, FilesInv, NamesInv, PendingUnique
<1>3. DaemonInv /\ LockInv
  BY DEF Init, DaemonInv, LockInv, HoldsLock
<1>4. OwnerInv
  BY DEF Init, OwnerInv, OwnsTarget, Working, WorkPCs
<1> QED BY <1>1, <1>2, <1>3, <1>4 DEF IInv

-----------------------------------------------------------------------------
(* Types. One lemma per file of the code.                                  *)

LEMMA QueueTypeOK ==
  ASSUME TypeOK, NamesInv, NEW a \in Agents,
         \/ \E s \in Schedules, r \in 1..MaxRepeat : EnqueueOrClaim(a, s, r)
         \/ ClaimJob(a) \/ NextJob(a) \/ NoNextJob(a) \/ FinishJob(a) \/ ReleaseOwner(a)
  PROVE  TypeOK'
<1>1. ASSUME NEW s \in Schedules, NEW r \in 1..MaxRepeat, EnqueueOrClaim(a, s, r)
      PROVE  TypeOK'
  <2>1. PICK j \in Jobs :
          /\ \/ /\ repeat' = [repeat EXCEPT ![j] = @ + r]
                /\ pending' = Kept
                /\ UNCHANGED <<issued, schedule>>
             \/ /\ j = issued + 1 /\ issued' = j
                /\ schedule' = [schedule EXCEPT ![j] = s]
                /\ repeat' = [repeat EXCEPT ![j] = r]
                /\ pending' = Kept \cup {j}
          /\ own' = [own EXCEPT ![a] = j] /\ cur' = [cur EXCEPT ![a] = j]
    BY <1>1 DEF EnqueueOrClaim
  <2>2. Kept \subseteq Jobs
    BY DEF Kept, Oldest, Recovered, TypeOK
  <2>3. j \in Nat /\ j \in 0..MaxJobs /\ r \in Nat
    BY BoundsAreNat DEF Jobs
  <2>4. /\ pending' \subseteq Jobs
        /\ issued' \in 0..MaxJobs
        /\ schedule' \in [Jobs -> Schedules \cup {Nobody}]
    BY <2>1, <2>2, <2>3 DEF TypeOK
  <2>5. /\ repeat' \in [Jobs -> Nat]
        /\ own' \in [Agents -> Nat] /\ cur' \in [Agents -> Nat]
        /\ asked' \in [Agents -> 1..MaxRepeat]
    BY <1>1, <2>1, <2>3 DEF EnqueueOrClaim, TypeOK
  <2>6. /\ owner' \in Pids \cup {Nobody} /\ expired' \in BOOLEAN
        /\ pc' \in [Agents -> PCs]
    <3>1. CASE OwnerValid
      BY <1>1, <3>1 DEF EnqueueOrClaim, TypeOK, PCs
    <3>2. CASE ~OwnerValid
      <4>1. owner' = <<a, "main">> /\ expired' = FALSE /\ pc' = [pc EXCEPT ![a] = "elected"]
        BY <1>1, <3>2 DEF EnqueueOrClaim
      <4>2. <<a, "main">> \in Pids /\ "elected" \in PCs
        BY DEF Pids, PCs, WorkPCs
      <4> QED BY <4>1, <4>2 DEF TypeOK
    <3> QED BY <3>1, <3>2
  <2>7. runningDir' \subseteq Jobs
    BY <1>1 DEF EnqueueOrClaim, TypeOK
  <2> QED BY <1>1, <2>4, <2>5, <2>6, <2>7 DEF EnqueueOrClaim, TypeOK, counts
<1>2. CASE ClaimJob(a)
  BY <1>2 DEF ClaimJob, Goes, TypeOK, PCs, WorkPCs, locals, counts
<1>3. CASE NextJob(a)
  BY <1>3 DEF NextJob, Goes, TypeOK, PCs, WorkPCs, Jobs, counts
<1>4. CASE NoNextJob(a)
  BY <1>4 DEF NoNextJob, Goes, TypeOK, PCs, WorkPCs, files, locals, counts
<1>5. CASE FinishJob(a)
  <2>1. AfterFinish(a)[pc[a]] \in PCs
    BY <1>5 DEF FinishJob, AfterFinish, PCs, WorkPCs
  <2> QED BY <1>5, <2>1 DEF FinishJob, TypeOK, locals, counts
<1>6. CASE ReleaseOwner(a)
  <2>1. AfterRelease(a)[pc[a]] \in PCs
    BY <1>6 DEF ReleaseOwner, AfterRelease, PCs, WorkPCs
  <2> QED BY <1>6, <2>1 DEF ReleaseOwner, TypeOK, files, locals, counts
<1> QED BY <1>1, <1>2, <1>3, <1>4, <1>5, <1>6

LEMMA LockTypeOK ==
  ASSUME TypeOK, NamesInv, NEW a \in Agents,
         AcquireLock(a) \/ LockRefused(a) \/ ReleaseLock(a)
  PROVE  TypeOK'
<1>1. CASE AcquireLock(a)
  <2>1. cur[a] \in Jobs
    <3>1. cur[a] \in 1..issued /\ issued \in 0..MaxJobs
      BY <1>1 DEF AcquireLock, NamesInv, TypeOK
    <3> QED BY <3>1, BoundsAreNat DEF Jobs
  <2>2. Self(a) \in Pids
    BY DEF Self, Pids
  <2>3. left' \in [Agents -> Nat]
    BY <1>1, <2>1, BoundsAreNat DEF AcquireLock, TypeOK
  <2> QED BY <1>1, <2>2, <2>3 DEF AcquireLock, Goes, TypeOK, PCs, WorkPCs, files, counts
<1>2. CASE LockRefused(a)
  BY <1>2 DEF LockRefused, Goes, TypeOK, PCs, WorkPCs, files, locals, counts
<1>3. CASE ReleaseLock(a)
  <2>1. AfterUnlock[pc[a]] \in PCs
    BY <1>3 DEF ReleaseLock, AfterUnlock, PCs, WorkPCs
  <2> QED BY <1>3, <2>1 DEF ReleaseLock, TypeOK, files, locals, counts
<1> QED BY <1>1, <1>2, <1>3

LEMMA RunnerTypeOK ==
  ASSUME TypeOK, NEW a \in Agents,
         \/ Spawn(a) \/ ChildReady(a) \/ HandOverLock(a) \/ HandOverOwner(a)
         \/ Run(a) \/ LastRun(a)
  PROVE  TypeOK'
<1>1. CASE Spawn(a) \/ ChildReady(a) \/ LastRun(a)
  BY <1>1 DEF Spawn, ChildReady, LastRun, Goes, TypeOK, PCs, WorkPCs, files, locals, counts
<1>2. CASE HandOverLock(a)
  BY <1>2 DEF HandOverLock, TypeOK, Pids, files, locals, counts
<1>3. CASE HandOverOwner(a)
  BY <1>3 DEF HandOverOwner, TypeOK, Pids, files, locals, counts
<1>4. CASE Run(a)
  BY <1>4 DEF Run, TypeOK, files, counts
<1> QED BY <1>1, <1>2, <1>3, <1>4

LEMMA FaultTypeOK ==
  ASSUME TypeOK, NEW a \in Agents, FaultStep(a)
  PROVE  TypeOK'
<1>1. CASE SpawnFails(a) \/ StartFails(a)
  BY <1>1, BoundsAreNat
  DEF SpawnFails, StartFails, Fault, Goes, TypeOK, PCs, WorkPCs, files, locals
<1>2. CASE RunRaises(a) \/ Interrupt(a)
  BY <1>2, BoundsAreNat
  DEF RunRaises, Interrupt, Fault, Goes, TypeOK, PCs, WorkPCs, files, locals
<1>3. CASE Kill(a) \/ KillParent(a)
  BY <1>3, BoundsAreNat
  DEF Kill, KillParent, Fault, TypeOK, PCs, WorkPCs, files, locals
<1> QED BY <1>1, <1>2, <1>3 DEF FaultStep

LEMMA NextTypeOK == TypeOK /\ NamesInv /\ [Next]_vars => TypeOK'
<1> SUFFICES ASSUME TypeOK, NamesInv, [Next]_vars PROVE TypeOK'
  OBVIOUS
<1>1. CASE UNCHANGED vars
  BY <1>1 DEF vars, files, locals, counts, TypeOK
<1>2. ASSUME NEW s \in Schedules, OtherLocks(s) \/ OtherUnlocks(s) PROVE TypeOK'
  BY <1>2 DEF OtherLocks, OtherUnlocks, TypeOK, files, locals, counts
<1>3. CASE Expire
  BY <1>3, BoundsAreNat DEF Expire, TypeOK, files, locals
<1> QED BY <1>1, <1>2, <1>3, QueueTypeOK, LockTypeOK, RunnerTypeOK, FaultTypeOK
        DEF Next, WorkStep

-----------------------------------------------------------------------------
(* The job files.                                                          *)

\* Every set of job names has a smallest one.
LEMMA OldestExists ==
  ASSUME NEW J \in SUBSET Nat, J # {}
  PROVE  \E i \in J : \A j \in J : i <= j
<1>1. PICK i \in J : \A j \in J : ~(<<j, i>> \in OpToRel(<, Nat))
  BY WFMin, NatLessThanWellFounded
<1>2. ASSUME NEW j \in J PROVE i <= j
  <2>1. ~(j < i)
    BY <1>1 DEF OpToRel
  <2> QED BY <2>1
<1> QED BY <1>2

\* What _recover_running and _deduplicate_pending leave in pending/: nothing
\* new, one job of a schedule at most, and one if there was one.
LEMMA KeptIsEnough ==
  ASSUME TypeOK
  PROVE  /\ Kept \subseteq pending \cup runningDir
         /\ \A i, j \in Kept : schedule[i] = schedule[j] => i = j
         /\ \A j \in pending : \E i \in Kept : schedule[i] = schedule[j]
<1> DEFINE P == pending \cup Recovered
<1>1. P \subseteq Jobs /\ Jobs \subseteq Nat /\ P \subseteq pending \cup runningDir
  BY DEF TypeOK, Recovered, Jobs
<1>2. Kept = {j \in P : \A i \in P : schedule[i] = schedule[j] => j <= i}
  BY DEF Kept, Oldest
<1>3. ASSUME NEW i \in Kept, NEW j \in Kept, schedule[i] = schedule[j] PROVE i = j
  <2>1. i <= j /\ j <= i /\ i \in Nat /\ j \in Nat
    BY <1>1, <1>2, <1>3
  <2> QED BY <2>1
<1>4. ASSUME NEW j \in pending PROVE \E i \in Kept : schedule[i] = schedule[j]
  <2> DEFINE S == {i \in P : schedule[i] = schedule[j]}
  <2>1. j \in S /\ S \subseteq Nat
    BY <1>1
  <2>2. PICK i \in S : \A k \in S : i <= k
    <3> HIDE DEF S
    <3> QED BY <2>1, OldestExists
  <2>3. i \in Kept /\ schedule[i] = schedule[j]
    BY <1>2, <2>2
  <2> QED BY <2>3
<1> QED BY <1>1, <1>2, <1>3, <1>4

LEMMA EnqueueFilesInv ==
  ASSUME TypeOK, FilesInv, NEW a \in Agents, NEW s \in Schedules, NEW r \in 1..MaxRepeat,
         EnqueueOrClaim(a, s, r)
  PROVE  /\ FilesInv'
         /\ \A j \in 1..issued : schedule'[j] = schedule[j]
         /\ \A j \in pending : \E i \in pending' : schedule'[i] = schedule[j]
         /\ issued <= issued'
<1>1. PICK j \in Jobs :
        /\ \/ /\ j \in Kept
              /\ pending' = Kept
              /\ UNCHANGED <<issued, schedule>>
           \/ /\ \A k \in Kept : schedule[k] # s
              /\ j = issued + 1 /\ issued' = j
              /\ schedule' = [schedule EXCEPT ![j] = s]
              /\ pending' = Kept \cup {j}
        /\ own' = [own EXCEPT ![a] = j] /\ cur' = [cur EXCEPT ![a] = j]
  BY DEF EnqueueOrClaim
<1>2. /\ Kept \subseteq 1..issued
      /\ runningDir' \subseteq 1..issued
      /\ issued \in Nat /\ j \in Nat
  <2>1. pending \subseteq 1..issued /\ runningDir \subseteq 1..issued
    BY DEF FilesInv, NamesInv
  <2>2. issued \in Nat /\ j \in Nat
    BY BoundsAreNat DEF TypeOK, Jobs
  <2>3. runningDir' \subseteq runningDir
    BY DEF EnqueueOrClaim
  <2> QED BY <2>1, <2>2, <2>3, KeptIsEnough
<1>3. \A q \in Agents : q # a => pc'[q] = pc[q] /\ own'[q] = own[q] /\ cur'[q] = cur[q]
  <2>1. CASE OwnerValid
    BY <1>1, <2>1 DEF EnqueueOrClaim, TypeOK
  <2>2. CASE ~OwnerValid
    BY <1>1, <2>2 DEF EnqueueOrClaim, TypeOK
  <2> QED BY <2>1, <2>2
<1>4. own'[a] = j /\ cur'[a] = j
  BY <1>1 DEF TypeOK
<1>5. CASE j \in Kept /\ pending' = Kept /\ UNCHANGED <<issued, schedule>>
  <2>1. NamesInv'
    BY <1>2, <1>3, <1>4, <1>5 DEF FilesInv, NamesInv
  <2>2. PendingUnique'
    BY <1>5, KeptIsEnough DEF PendingUnique
  <2>3. \A k \in pending : \E i \in pending' : schedule'[i] = schedule[k]
    BY <1>5, KeptIsEnough
  <2> QED BY <1>2, <1>5, <2>1, <2>2, <2>3 DEF FilesInv
<1>6. CASE /\ \A k \in Kept : schedule[k] # s
           /\ j = issued + 1 /\ issued' = j
           /\ schedule' = [schedule EXCEPT ![j] = s]
           /\ pending' = Kept \cup {j}
  <2>1. 1..issued \subseteq 1..issued' /\ j \in 1..issued' /\ j \notin 1..issued /\ issued <= issued'
    BY <1>2, <1>6
  <2>2. NamesInv'
    <3>1. \A q \in Agents : pc'[q] # "idle" => own'[q] \in 1..issued' /\ cur'[q] \in 1..issued'
      BY <1>3, <1>4, <2>1 DEF FilesInv, NamesInv
    <3>2. pending' \subseteq 1..issued' /\ runningDir' \subseteq 1..issued'
      BY <1>2, <1>6, <2>1
    <3>3. \A k \in 1..issued' : schedule'[k] \in Schedules
      BY <1>2, <1>6 DEF FilesInv, NamesInv, TypeOK
    <3> QED BY <3>1, <3>2, <3>3 DEF NamesInv
  <2>3. /\ \A k \in 1..issued : schedule'[k] = schedule[k]
        /\ schedule'[j] = s
    BY <1>6, <2>1 DEF TypeOK
  <2>4. \A i, k \in Kept : schedule[i] = schedule[k] => i = k
    BY KeptIsEnough
  <2>5. PendingUnique'
    BY <1>2, <1>6, <2>3, <2>4 DEF PendingUnique
  <2>6. \A k \in pending : \E i \in pending' : schedule'[i] = schedule[k]
    BY <1>2, <1>6, <2>3, KeptIsEnough
  <2> QED BY <2>1, <2>2, <2>3, <2>5, <2>6 DEF FilesInv
<1> QED BY <1>1, <1>5, <1>6

\* Every other step leaves schedules and names alone and adds no pending job.
LEMMA NextFilesInv ==
  ASSUME TypeOK, FilesInv, [Next]_vars
  PROVE  /\ FilesInv'
         /\ \A j \in 1..issued : schedule'[j] = schedule[j]
<1>1. ASSUME UNCHANGED <<issued, schedule>>, pending' \subseteq pending,
             runningDir' \subseteq 1..issued,
             \A q \in Agents : pc'[q] = "idle" \/ pc[q] # "idle",
             \A q \in Agents : own'[q] = own[q] /\ (cur'[q] = cur[q] \/ cur'[q] \in 1..issued)
      PROVE  FilesInv' /\ \A j \in 1..issued : schedule'[j] = schedule[j]
  <2>1. NamesInv'
    BY <1>1 DEF FilesInv, NamesInv
  <2>2. PendingUnique'
    BY <1>1 DEF FilesInv, PendingUnique
  <2> QED BY <1>1, <2>1, <2>2 DEF FilesInv
<1>2. ASSUME NEW a \in Agents, NEW s \in Schedules, NEW r \in 1..MaxRepeat, EnqueueOrClaim(a, s, r)
      PROVE  FilesInv' /\ \A j \in 1..issued : schedule'[j] = schedule[j]
  BY <1>2, EnqueueFilesInv
<1>3. CASE UNCHANGED vars
  BY <1>1, <1>3 DEF vars, files, locals, FilesInv, NamesInv
<1>4. ASSUME NEW a \in Agents, ClaimJob(a) \/ NextJob(a) \/ FinishJob(a)
      PROVE  FilesInv' /\ \A j \in 1..issued : schedule'[j] = schedule[j]
  <2>1. /\ UNCHANGED <<issued, schedule>> /\ pending' \subseteq pending
        /\ runningDir' \subseteq 1..issued
    <3>1. pending \subseteq 1..issued /\ runningDir \subseteq 1..issued
      BY DEF FilesInv, NamesInv
    <3>2. CASE ClaimJob(a)
      <4>1. CASE own[a] \in pending
        BY <3>1, <3>2, <4>1 DEF ClaimJob
      <4>2. CASE own[a] \notin pending
        BY <3>1, <3>2, <4>2 DEF ClaimJob
      <4> QED BY <4>1, <4>2
    <3>3. CASE NextJob(a)
      BY <3>1, <3>3 DEF NextJob
    <3>4. CASE FinishJob(a)
      BY <3>1, <3>4 DEF FinishJob
    <3> QED BY <1>4, <3>2, <3>3, <3>4
  <2>2. \A q \in Agents : pc'[q] = "idle" \/ pc[q] # "idle"
    BY <1>4 DEF ClaimJob, NextJob, FinishJob, Goes, AfterFinish, TypeOK
  <2>3. \A q \in Agents : own'[q] = own[q] /\ (cur'[q] = cur[q] \/ cur'[q] \in 1..issued)
    BY <1>4 DEF ClaimJob, NextJob, FinishJob, locals, FilesInv, NamesInv, TypeOK
  <2> QED BY <1>1, <2>1, <2>2, <2>3
<1>5. ASSUME NEW a \in Agents,
             \/ NoNextJob(a) \/ ReleaseOwner(a)
             \/ AcquireLock(a) \/ LockRefused(a) \/ ReleaseLock(a)
      PROVE  FilesInv' /\ \A j \in 1..issued : schedule'[j] = schedule[j]
  <2>1. UNCHANGED <<files, own, cur>>
    BY <1>5 DEF NoNextJob, ReleaseOwner, AcquireLock, LockRefused, ReleaseLock, locals
  <2>2. \A q \in Agents : pc'[q] = "idle" \/ pc[q] # "idle"
    BY <1>5 DEF NoNextJob, ReleaseOwner, AcquireLock, LockRefused, ReleaseLock, Goes,
                AfterRelease, AfterUnlock, TypeOK
  <2> QED BY <1>1, <2>1, <2>2 DEF files, FilesInv, NamesInv
<1>6. ASSUME NEW a \in Agents,
             \/ Spawn(a) \/ ChildReady(a) \/ HandOverLock(a) \/ HandOverOwner(a)
             \/ Run(a) \/ LastRun(a) \/ FaultStep(a)
      PROVE  FilesInv' /\ \A j \in 1..issued : schedule'[j] = schedule[j]
  <2>1. UNCHANGED <<files, own, cur>>
    BY <1>6 DEF Spawn, ChildReady, HandOverLock, HandOverOwner, Run, LastRun, FaultStep,
                SpawnFails, StartFails, RunRaises, Interrupt, Kill, KillParent, locals
  <2>2. \A q \in Agents : pc'[q] = "idle" \/ pc[q] # "idle"
    BY <1>6 DEF Spawn, ChildReady, HandOverLock, HandOverOwner, Run, LastRun, FaultStep,
                SpawnFails, StartFails, RunRaises, Interrupt, Kill, KillParent, Goes,
                Running, TypeOK
  <2> QED BY <1>1, <2>1, <2>2 DEF files, FilesInv, NamesInv
<1>7. CASE Expire \/ \E s \in Schedules : OtherLocks(s) \/ OtherUnlocks(s)
  <2>1. UNCHANGED <<files, own, cur, pc>>
    BY <1>7 DEF Expire, OtherLocks, OtherUnlocks, locals
  <2> QED BY <1>1, <2>1 DEF files, FilesInv, NamesInv
<1> QED BY <1>2, <1>3, <1>4, <1>5, <1>6, <1>7 DEF Next, WorkStep

-----------------------------------------------------------------------------
(* The owner file and the lock files under each step. First what the steps *)
(* of the same kind have in common.                                        *)

LEMMA NextDaemonInv ==
  ASSUME TypeOK, DaemonInv, [Next]_vars
  PROVE  DaemonInv'
<1>1. CASE UNCHANGED <<pc, parent, cur, own, draining>>
  BY <1>1 DEF DaemonInv
<1>2. ASSUME NEW a \in Agents, UNCHANGED parent,
             \A q \in Agents : q # a => pc'[q] = pc[q] /\ cur'[q] = cur[q] /\ own'[q] = own[q]
                                           /\ draining'[q] = draining[q],
             pc'[a] \notin {"idle", "spawning", "booting"},
             pc'[a] = "elected" => ~draining'[a],
             ~draining'[a] => cur'[a] = own'[a]
      PROVE  DaemonInv'
  BY <1>2 DEF DaemonInv
<1>3. ASSUME NEW a \in Agents, NEW s \in Schedules, NEW r \in 1..MaxRepeat, EnqueueOrClaim(a, s, r)
      PROVE  DaemonInv'
  <2>1. /\ \A q \in Agents : q # a => cur'[q] = cur[q] /\ own'[q] = own[q]
        /\ UNCHANGED <<parent, draining>>
        /\ cur'[a] = own'[a] /\ ~draining[a]
    BY <1>3 DEF EnqueueOrClaim, TypeOK, DaemonInv
  <2>2. CASE OwnerValid
    <3>1. pc' = [pc EXCEPT ![a] = "exited"]
      BY <1>3, <2>2 DEF EnqueueOrClaim
    <3> QED BY <1>2, <2>1, <3>1 DEF TypeOK
  <2>3. CASE ~OwnerValid
    <3>1. pc' = [pc EXCEPT ![a] = "elected"]
      BY <1>3, <2>3 DEF EnqueueOrClaim
    <3> QED BY <1>2, <2>1, <3>1 DEF TypeOK
  <2> QED BY <2>2, <2>3
<1>4. ASSUME NEW a \in Agents,
             \/ ClaimJob(a) \/ NextJob(a) \/ NoNextJob(a) \/ FinishJob(a) \/ ReleaseOwner(a)
             \/ LockRefused(a) \/ ReleaseLock(a)
      PROVE  DaemonInv'
  <2>1. /\ UNCHANGED parent
        /\ \A q \in Agents : q # a => pc'[q] = pc[q] /\ cur'[q] = cur[q] /\ own'[q] = own[q]
                                      /\ draining'[q] = draining[q]
        /\ ~draining'[a] => cur'[a] = own'[a]
    BY <1>4 DEF DaemonInv, ClaimJob, NextJob, NoNextJob, FinishJob, ReleaseOwner, LockRefused, ReleaseLock,
                Goes, locals, TypeOK
  <2>2. pc'[a] \notin {"idle", "elected", "spawning", "booting"}
    BY <1>4 DEF ClaimJob, NextJob, NoNextJob, FinishJob, ReleaseOwner, LockRefused, ReleaseLock,
                Goes, AfterFinish, AfterRelease, AfterUnlock, TypeOK
  <2> QED BY <1>2, <2>1, <2>2
<1>5. ASSUME NEW a \in Agents, AcquireLock(a) PROVE DaemonInv'
  BY <1>5 DEF AcquireLock, Goes, DaemonInv, TypeOK
<1>6. ASSUME NEW a \in Agents, Spawn(a) \/ StartFails(a) PROVE DaemonInv'
  BY <1>6 DEF Spawn, StartFails, Goes, locals, DaemonInv, TypeOK
<1>7. ASSUME NEW a \in Agents,
             \/ SpawnFails(a) \/ ChildReady(a) \/ LastRun(a) \/ RunRaises(a)
             \/ Interrupt(a) \/ Kill(a)
      PROVE  DaemonInv'
  <2>1. /\ UNCHANGED <<parent, cur, own, draining>>
        /\ \A q \in Agents : q # a => pc'[q] = pc[q]
        /\ pc'[a] \notin {"idle", "elected", "spawning", "booting"}
    BY <1>7 DEF SpawnFails, ChildReady, LastRun, RunRaises, Interrupt, Kill, Goes, locals, TypeOK
  <2> QED BY <1>2, <2>1 DEF DaemonInv
<1>8. ASSUME NEW a \in Agents, HandOverLock(a) \/ HandOverOwner(a) \/ KillParent(a)
      PROVE  DaemonInv'
  BY <1>8 DEF HandOverLock, HandOverOwner, KillParent, locals, DaemonInv, TypeOK
<1>9. ASSUME NEW a \in Agents, Run(a) PROVE DaemonInv'
  BY <1>1, <1>9 DEF Run
<1>10. CASE UNCHANGED vars \/ Expire \/ \E s \in Schedules : OtherLocks(s) \/ OtherUnlocks(s)
  BY <1>1, <1>10 DEF vars, Expire, OtherLocks, OtherUnlocks, locals
<1> QED BY <1>3, <1>4, <1>5, <1>6, <1>7, <1>8, <1>9, <1>10 DEF Next, WorkStep, FaultStep

\* os.kill(pid, 0) finds the holder of a lock or of the owner file.
LEMMA HolderAlive ==
  ASSUME NEW a \in Agents
  PROVE  /\ parent[a] \in {"waiting", "locked"} => Alive(<<a, "main">>)
         /\ Running(a) /\ parent[a] = "none" => Alive(<<a, "main">>)
         /\ Running(a) /\ parent[a] # "none" => Alive(<<a, "child">>)
BY DEF Alive, Self

\* The lock files of a live process are safe from everybody else.
LEMMA OthersKeepLock ==
  ASSUME TypeOK, LockInv, NEW a \in Agents, NEW s \in Schedules,
         lock[s] \in {<<a, "main">>, <<a, "child">>}, Alive(lock[s]),
         \/ UNCHANGED vars \/ Expire
         \/ \E t \in Schedules : OtherLocks(t) \/ OtherUnlocks(t)
         \/ \E b \in Agents : b # a /\
              \/ WorkStep(b) \/ FaultStep(b)
              \/ \E t \in Schedules, r \in 1..MaxRepeat : EnqueueOrClaim(b, t, r)
  PROVE  lock'[s] = lock[s]
<1>1. lock[s] \in Pids /\ ~LockFree(s) /\ lock[s] # Other
  BY AgentAssumption DEF Pids, LockFree
<1>2. CASE UNCHANGED vars \/ Expire \/ \E t \in Schedules : OtherLocks(t) \/ OtherUnlocks(t)
  BY <1>1, <1>2 DEF vars, Expire, OtherLocks, OtherUnlocks, TypeOK
<1>3. ASSUME NEW b \in Agents, b # a, AcquireLock(b) \/ ReleaseLock(b) \/ HandOverLock(b)
      PROVE  lock'[s] = lock[s]
  <2>1. CASE AcquireLock(b)
    BY <1>1, <2>1 DEF AcquireLock, TypeOK
  <2>2. CASE ReleaseLock(b)
    <3>1. lock[s] # Self(b)
      BY <1>3 DEF Self
    <3> QED BY <2>2, <3>1 DEF ReleaseLock, TypeOK
  <2>3. CASE HandOverLock(b)
    <3>1. lock[schedule[own[b]]] = <<b, "main">>
      BY <2>3 DEF HandOverLock, LockInv, HoldsLock
    <3>2. s # schedule[own[b]]
      BY <1>3, <3>1
    <3> QED BY <2>3, <3>2 DEF HandOverLock, TypeOK
  <2> QED BY <1>3, <2>1, <2>2, <2>3
<1>4. ASSUME NEW b \in Agents, FaultStep(b) PROVE lock' = lock
  BY <1>4 DEF FaultStep, SpawnFails, StartFails, RunRaises, Interrupt, Kill, KillParent
<1>5. ASSUME NEW b \in Agents,
             \/ \E t \in Schedules, r \in 1..MaxRepeat : EnqueueOrClaim(b, t, r)
             \/ ClaimJob(b) \/ NextJob(b) \/ NoNextJob(b) \/ FinishJob(b) \/ ReleaseOwner(b)
             \/ LockRefused(b) \/ Spawn(b) \/ ChildReady(b) \/ HandOverOwner(b) \/ Run(b) \/ LastRun(b)
      PROVE  lock' = lock
  BY <1>5 DEF EnqueueOrClaim, ClaimJob, NextJob, NoNextJob, FinishJob, ReleaseOwner,
              LockRefused, Spawn, ChildReady, HandOverOwner, Run, LastRun
<1> QED BY <1>2, <1>3, <1>4, <1>5 DEF WorkStep

\* Neither a step of somebody else ...
LEMMA OthersKeepHolding ==
  ASSUME TypeOK, FilesInv, DaemonInv, LockInv, [Next]_vars, NEW a \in Agents,
         UNCHANGED <<pc[a], parent[a], own[a], cur[a]>>,
         \/ UNCHANGED vars \/ Expire
         \/ \E t \in Schedules : OtherLocks(t) \/ OtherUnlocks(t)
         \/ \E b \in Agents : b # a /\
              \/ WorkStep(b) \/ FaultStep(b)
              \/ \E t \in Schedules, r \in 1..MaxRepeat : EnqueueOrClaim(b, t, r)
  PROVE  HoldsLock(a)'
<1>1. CASE pc[a] = "idle"
  BY <1>1 DEF HoldsLock, DaemonInv
<1>2. CASE pc[a] # "idle"
  <2> DEFINE so == schedule[own[a]]
             sc == schedule[cur[a]]
  <2>1. own[a] \in 1..issued /\ cur[a] \in 1..issued /\ so \in Schedules /\ sc \in Schedules
    BY <1>2 DEF FilesInv, NamesInv
  <2>2. schedule'[own'[a]] = so /\ schedule'[cur'[a]] = sc
    BY <2>1, NextFilesInv
  <2>3. HoldsLock(a)
    BY DEF LockInv
  <2>4. parent[a] = "waiting" => lock'[so] = <<a, "main">>
    BY <2>1, <2>3, OthersKeepLock, HolderAlive DEF HoldsLock
  <2>5. parent[a] = "none" /\ pc[a] \in {"spawning", "running"} => lock'[sc] = <<a, "main">>
    BY <2>1, <2>3, OthersKeepLock, HolderAlive DEF HoldsLock, Running
  <2>6. parent[a] = "waiting" /\ pc[a] = "running" /\ sc # so => lock'[sc] = <<a, "child">>
    BY <2>1, <2>3, OthersKeepLock, HolderAlive DEF HoldsLock, Running
  <2>7. parent[a] \in {"locked", "gone"} /\ pc[a] = "running" => lock'[sc] = <<a, "child">>
    BY <2>1, <2>3, OthersKeepLock, HolderAlive DEF HoldsLock, Running
  <2> QED
    <3> HIDE DEF so, sc
    <3> QED BY <2>2, <2>4, <2>5, <2>6, <2>7 DEF HoldsLock
<1> QED BY <1>1, <1>2

\* ... nor a step of its own makes a worker run without its lock.
LEMMA WorkerKeepsHolding ==
  ASSUME TypeOK, FilesInv, DaemonInv, LockInv, [Next]_vars, NEW a \in Agents,
         \/ WorkStep(a) \/ FaultStep(a)
         \/ \E t \in Schedules, r \in 1..MaxRepeat : EnqueueOrClaim(a, t, r)
  PROVE  HoldsLock(a)'
<1> DEFINE so == schedule[own[a]]
           sc == schedule[cur[a]]
<1>1. HoldsLock(a)
  BY DEF LockInv
<1>2. ASSUME NEW t \in Schedules, NEW r \in 1..MaxRepeat, EnqueueOrClaim(a, t, r)
      PROVE  HoldsLock(a)'
  <2>1. parent'[a] = "none" /\ pc'[a] \in {"exited", "elected"}
    <3>1. CASE OwnerValid
      BY <1>2, <3>1 DEF EnqueueOrClaim, DaemonInv, TypeOK
    <3>2. CASE ~OwnerValid
      BY <1>2, <3>2 DEF EnqueueOrClaim, DaemonInv, TypeOK
    <3> QED BY <3>1, <3>2
  <2> QED BY <2>1 DEF HoldsLock
<1>3. CASE pc[a] # "idle" /\ (WorkStep(a) \/ FaultStep(a))
  <2>1. own[a] \in 1..issued /\ cur[a] \in 1..issued /\ so \in Schedules /\ sc \in Schedules
    BY <1>3 DEF FilesInv, NamesInv
  <2>2. schedule'[own[a]] = so /\ schedule'[cur[a]] = sc
    BY <2>1, NextFilesInv
  <2>3. CASE \/ ClaimJob(a) \/ NextJob(a) \/ NoNextJob(a) \/ FinishJob(a) \/ ReleaseOwner(a)
             \/ LockRefused(a) \/ LastRun(a)
    <3>1. parent' = parent /\ own' = own /\ lock' = lock
      BY <2>3 DEF ClaimJob, NextJob, NoNextJob, FinishJob, ReleaseOwner, LockRefused, LastRun, locals
    <3>2. pc'[a] \notin {"spawning", "running"}
      BY <2>3 DEF ClaimJob, NextJob, NoNextJob, FinishJob, ReleaseOwner, LockRefused, LastRun,
                  Goes, AfterFinish, AfterRelease, TypeOK
    <3> QED BY <1>1, <2>2, <3>1, <3>2 DEF HoldsLock
  <2>4. CASE ReleaseLock(a)
    <3>1. parent' = parent /\ own' = own /\ pc'[a] \notin {"spawning", "running"}
      BY <2>4 DEF ReleaseLock, AfterUnlock, locals, TypeOK
    <3>2. parent[a] = "waiting" => lock'[so] = <<a, "main">>
      BY <1>1, <2>1, <2>4 DEF ReleaseLock, HoldsLock, Self, TypeOK
    <3> QED BY <2>2, <3>1, <3>2 DEF HoldsLock
  <2>5. CASE AcquireLock(a)
    <3>1. /\ lock'[sc] = Self(a) /\ \A t \in Schedules : t # sc => lock'[t] = lock[t]
          /\ LockFree(sc) /\ UNCHANGED <<parent, own, cur>>
      BY <2>1, <2>5 DEF AcquireLock, TypeOK
    <3>2. pc'[a] = "spawning" => parent[a] = "none"
      BY <2>5 DEF AcquireLock, Goes, TypeOK
    <3>3. parent[a] = "waiting" => so # sc
      <4> SUFFICES ASSUME parent[a] = "waiting", so = sc PROVE FALSE
        OBVIOUS
      <4>1. lock[sc] = <<a, "main">> /\ Alive(<<a, "main">>)
        BY <1>1, HolderAlive DEF HoldsLock
      <4>2. <<a, "main">> # Nobody
        BY AgentAssumption DEF Pids
      <4> QED BY <3>1, <4>1, <4>2 DEF LockFree
    <3>4. /\ parent[a] = "none" => Self(a) = <<a, "main">>
          /\ parent[a] # "none" => Self(a) = <<a, "child">>
      BY DEF Self
    <3> HIDE DEF so, sc
    <3> QED BY <1>1, <2>1, <2>2, <3>1, <3>2, <3>3, <3>4 DEF HoldsLock, so, sc
  <2>6. CASE Spawn(a) \/ ChildReady(a)
    <3>1. UNCHANGED <<lock, own, cur>> /\ cur[a] = own[a]
      BY <2>6 DEF Spawn, ChildReady, Goes, locals, DaemonInv
    <3>2. CASE Spawn(a)
      <4>1. parent[a] = "none" /\ pc[a] = "spawning" /\ parent'[a] = "waiting" /\ pc'[a] = "booting"
        BY <3>2 DEF Spawn, Goes, DaemonInv, TypeOK
      <4> QED BY <1>1, <2>2, <3>1, <4>1 DEF HoldsLock
    <3>3. CASE ChildReady(a)
      <4>1. parent[a] \in {"waiting", "killed"} /\ parent' = parent
        BY <3>3 DEF ChildReady, Goes, DaemonInv
      <4> QED BY <1>1, <2>2, <3>1, <4>1 DEF HoldsLock
    <3> QED BY <2>6, <3>2, <3>3
  <2>7. CASE HandOverLock(a)
    <3>1. /\ parent[a] = "waiting" /\ parent'[a] = "locked"
          /\ UNCHANGED <<pc, own, cur>>
      BY <2>7 DEF HandOverLock, locals, TypeOK
    <3>2. lock[so] = <<a, "main">> /\ lock[so] # Nobody
      BY <1>1, <3>1, AgentAssumption DEF HoldsLock, Pids
    <3>3. lock'[so] = <<a, "child">> /\ \A t \in Schedules : t # so => lock'[t] = lock[t]
      BY <2>1, <2>7, <3>2 DEF HandOverLock, TypeOK
    <3> HIDE DEF so, sc
    <3> QED BY <1>1, <2>1, <2>2, <3>1, <3>3 DEF HoldsLock, so, sc
  <2>8. CASE HandOverOwner(a)
    <3>1. parent[a] = "locked" /\ parent'[a] = "gone" /\ UNCHANGED <<lock, pc, own, cur>>
      BY <2>8 DEF HandOverOwner, locals, TypeOK
    <3> QED BY <1>1, <2>2, <3>1 DEF HoldsLock
  <2>9. CASE Run(a)
    BY <1>1, <2>2, <2>9 DEF Run, HoldsLock
  <2>10. CASE FaultStep(a)
    <3>1. UNCHANGED <<lock, own, cur>>
      BY <2>10 DEF FaultStep, SpawnFails, StartFails, RunRaises, Interrupt, Kill, KillParent, locals
    <3>2. \/ pc'[a] \notin {"spawning", "running"} /\ parent'[a] \in {parent[a], "none"}
          \/ parent'[a] = "killed"
      BY <2>10 DEF FaultStep, SpawnFails, StartFails, RunRaises, Interrupt, Kill, KillParent,
                   Goes, TypeOK
    <3> QED BY <1>1, <2>2, <3>1, <3>2 DEF HoldsLock
  <2> QED BY <1>3, <2>3, <2>4, <2>5, <2>6, <2>7, <2>8, <2>9, <2>10 DEF WorkStep
<1>4. WorkStep(a) \/ FaultStep(a) => pc[a] # "idle"
  <2>1. WorkStep(a) => pc[a] # "idle" \/ parent[a] # "none"
    BY DEF WorkStep, ClaimJob, AcquireLock, LockRefused, Spawn, ChildReady, HandOverLock,
           HandOverOwner, Run, LastRun, FinishJob, ReleaseLock, NextJob, NoNextJob, ReleaseOwner,
           Goes, AfterFinish, AfterRelease, AfterUnlock
  <2>2. FaultStep(a) => pc[a] # "idle" \/ parent[a] # "none"
    BY DEF FaultStep, SpawnFails, StartFails, RunRaises, Interrupt, Kill, KillParent, Goes, Running
  <2> QED BY <2>1, <2>2 DEF DaemonInv
<1> QED BY <1>2, <1>3, <1>4

LEMMA OthersUntouched ==
  ASSUME TypeOK, NEW a \in Agents, NEW b \in Agents, b # a,
         \/ WorkStep(b) \/ FaultStep(b)
         \/ \E t \in Schedules, r \in 1..MaxRepeat : EnqueueOrClaim(b, t, r)
  PROVE  UNCHANGED <<pc[a], parent[a], own[a], cur[a]>>
<1>1. CASE WorkStep(b)
  BY <1>1 DEF WorkStep, ClaimJob, AcquireLock, LockRefused, Spawn, ChildReady, HandOverLock,
         HandOverOwner, Run, LastRun, FinishJob, ReleaseLock, NextJob, NoNextJob, ReleaseOwner,
         Goes, locals, TypeOK
<1>2. CASE FaultStep(b)
  BY <1>2 DEF FaultStep, SpawnFails, StartFails, RunRaises, Interrupt, Kill, KillParent, Goes,
         locals, TypeOK
<1>3. ASSUME NEW t \in Schedules, NEW r \in 1..MaxRepeat, EnqueueOrClaim(b, t, r)
      PROVE  UNCHANGED <<pc[a], parent[a], own[a], cur[a]>>
  <2>1. UNCHANGED <<parent[a], own[a], cur[a]>>
    BY <1>3 DEF EnqueueOrClaim, TypeOK
  <2>2. CASE OwnerValid
    BY <1>3, <2>1, <2>2 DEF EnqueueOrClaim, TypeOK
  <2>3. CASE ~OwnerValid
    BY <1>3, <2>1, <2>3 DEF EnqueueOrClaim, TypeOK
  <2> QED BY <2>2, <2>3
<1> QED BY <1>1, <1>2, <1>3

LEMMA NextLockInv ==
  ASSUME TypeOK, FilesInv, DaemonInv, LockInv, [Next]_vars
  PROVE  LockInv'
<1> SUFFICES ASSUME NEW a \in Agents PROVE HoldsLock(a)'
  BY DEF LockInv
<1>1. CASE UNCHANGED vars \/ Expire \/ \E t \in Schedules : OtherLocks(t) \/ OtherUnlocks(t)
  <2>1. UNCHANGED <<pc[a], parent[a], own[a], cur[a]>>
    BY <1>1 DEF vars, Expire, OtherLocks, OtherUnlocks, locals
  <2> QED BY <1>1, <2>1, OthersKeepHolding
<1>2. ASSUME NEW b \in Agents,
             \/ WorkStep(b) \/ FaultStep(b)
             \/ \E t \in Schedules, r \in 1..MaxRepeat : EnqueueOrClaim(b, t, r)
      PROVE  HoldsLock(a)'
  <2>1. CASE b = a
    BY <1>2, <2>1, WorkerKeepsHolding
  <2>2. CASE b # a
    <3>1. UNCHANGED <<pc[a], parent[a], own[a], cur[a]>>
      BY <1>2, <2>2, OthersUntouched
    <3> QED BY <1>2, <2>2, <3>1, OthersKeepHolding
  <2> QED BY <2>1, <2>2
<1> QED BY <1>1, <1>2 DEF Next

\* The owner file, too, is safe while its process lives and no time is up.
LEMMA OthersKeepOwner ==
  ASSUME TypeOK, OwnerInv, NEW a \in Agents, expiries = 0,
         owner \in {<<a, "main">>, <<a, "child">>}, Alive(owner),
         \/ \E t \in Schedules : OtherLocks(t) \/ OtherUnlocks(t)
         \/ \E b \in Agents : b # a /\
              \/ WorkStep(b) \/ FaultStep(b)
              \/ \E t \in Schedules, r \in 1..MaxRepeat : EnqueueOrClaim(b, t, r)
  PROVE  owner' = owner
<1>1. OwnerValid
  BY AgentAssumption DEF OwnerValid, OwnerInv, Pids
<1>2. ASSUME NEW b \in Agents, NEW t \in Schedules, NEW r \in 1..MaxRepeat, EnqueueOrClaim(b, t, r)
      PROVE  owner' = owner
  BY <1>1, <1>2 DEF EnqueueOrClaim
<1>3. ASSUME NEW b \in Agents, b # a, ReleaseOwner(b) PROVE owner' = owner
  <2>1. owner # Self(b)
    BY <1>3 DEF Self
  <2> QED BY <1>3, <2>1 DEF ReleaseOwner
<1>4. ASSUME NEW b \in Agents, b # a, HandOverOwner(b) PROVE FALSE
  <2>1. owner = <<b, "main">>
    BY <1>4 DEF HandOverOwner, OwnerInv, OwnsTarget
  <2> QED BY <1>4, <2>1
<1>5. ASSUME NEW b \in Agents,
             \/ ClaimJob(b) \/ NextJob(b) \/ NoNextJob(b) \/ FinishJob(b) \/ AcquireLock(b)
             \/ LockRefused(b) \/ ReleaseLock(b) \/ Spawn(b) \/ ChildReady(b)
             \/ HandOverLock(b) \/ Run(b) \/ LastRun(b) \/ FaultStep(b)
      PROVE  owner' = owner
  BY <1>5 DEF ClaimJob, NextJob, NoNextJob, FinishJob, AcquireLock, LockRefused, ReleaseLock,
              Spawn, ChildReady, HandOverLock, Run, LastRun, FaultStep,
              SpawnFails, StartFails, RunRaises, Interrupt, Kill, KillParent
<1>6. ASSUME NEW t \in Schedules, OtherLocks(t) \/ OtherUnlocks(t) PROVE owner' = owner
  BY <1>6 DEF OtherLocks, OtherUnlocks
<1> QED BY <1>2, <1>3, <1>4, <1>5, <1>6 DEF WorkStep

LEMMA WorkerKeepsOwning ==
  ASSUME TypeOK, DaemonInv, OwnerInv, expiries = 0, NEW a \in Agents,
         \/ WorkStep(a) \/ FaultStep(a)
         \/ \E t \in Schedules, r \in 1..MaxRepeat : EnqueueOrClaim(a, t, r)
  PROVE  OwnsTarget(a)'
<1>1. OwnsTarget(a)
  BY DEF OwnerInv
<1>2. ASSUME NEW t \in Schedules, NEW r \in 1..MaxRepeat, EnqueueOrClaim(a, t, r)
      PROVE  OwnsTarget(a)'
  <2>1. parent'[a] = "none"
    BY <1>2 DEF EnqueueOrClaim, DaemonInv
  <2>2. CASE OwnerValid
    <3>1. ~Working(a)'
      BY <1>2, <2>2 DEF EnqueueOrClaim, Working, WorkPCs, TypeOK
    <3> QED BY <2>1, <3>1 DEF OwnsTarget
  <2>3. CASE ~OwnerValid
    <3>1. owner' = <<a, "main">>
      BY <1>2, <2>3 DEF EnqueueOrClaim
    <3> QED BY <2>1, <3>1 DEF OwnsTarget
  <2> QED BY <2>2, <2>3
<1>3. CASE \/ ClaimJob(a) \/ NextJob(a) \/ NoNextJob(a) \/ FinishJob(a) \/ AcquireLock(a)
           \/ LockRefused(a) \/ ReleaseLock(a) \/ ChildReady(a)
           \/ HandOverLock(a) \/ Run(a) \/ LastRun(a)
  <2>1. owner' = owner
    BY <1>3 DEF ClaimJob, NextJob, NoNextJob, FinishJob, AcquireLock, LockRefused, ReleaseLock,
                ChildReady, HandOverLock, Run, LastRun
  <2>2. \/ parent'[a] = parent[a]
        \/ parent[a] = "waiting" /\ parent'[a] = "locked"
    BY <1>3 DEF ClaimJob, NextJob, NoNextJob, FinishJob, AcquireLock, LockRefused, ReleaseLock,
                ChildReady, HandOverLock, Run, LastRun, TypeOK
  <2>3. Working(a)' => Working(a)
    <3>1. CASE \/ ClaimJob(a) \/ NextJob(a) \/ NoNextJob(a) \/ FinishJob(a) \/ ReleaseLock(a)
      BY <3>1 DEF ClaimJob, NextJob, NoNextJob, FinishJob, ReleaseLock, Goes,
                  AfterFinish, AfterUnlock, Working, WorkPCs, TypeOK
    <3>2. CASE \/ AcquireLock(a) \/ LockRefused(a) \/ ChildReady(a)
               \/ HandOverLock(a) \/ Run(a) \/ LastRun(a)
      BY <3>2 DEF AcquireLock, LockRefused, ChildReady, HandOverLock, Run, LastRun, Goes,
                  Working, WorkPCs, TypeOK
    <3> QED BY <1>3, <3>1, <3>2
  <2> QED BY <1>1, <2>1, <2>2, <2>3 DEF OwnsTarget
<1>4. CASE ReleaseOwner(a)
  <2>1. ~Working(a)' /\ parent' = parent
    BY <1>4 DEF ReleaseOwner, AfterRelease, Working, WorkPCs, TypeOK
  <2>2. parent[a] \in {"waiting", "locked"} => owner' = owner
    BY <1>1, <1>4 DEF ReleaseOwner, OwnsTarget, Self
  <2> QED BY <1>1, <2>1, <2>2 DEF OwnsTarget
<1>5. CASE Spawn(a)
  <2>1. owner' = owner /\ parent[a] = "none" /\ Working(a) /\ parent'[a] = "waiting"
    BY <1>5 DEF Spawn, Goes, DaemonInv, Working, WorkPCs, TypeOK
  <2> QED BY <1>1, <2>1 DEF OwnsTarget
<1>6. CASE HandOverOwner(a)
  <2>1. owner = <<a, "main">> /\ parent'[a] = "gone"
    BY <1>1, <1>6 DEF HandOverOwner, OwnsTarget, TypeOK
  <2>2. owner' = <<a, "child">>
    BY <1>6, <2>1, AgentAssumption DEF HandOverOwner, Pids
  <2> QED BY <2>1, <2>2 DEF OwnsTarget
<1>7. CASE FaultStep(a)
  <2>1. owner' = owner
    BY <1>7 DEF FaultStep, SpawnFails, StartFails, RunRaises, Interrupt, Kill, KillParent
  <2>2. \/ parent' = parent
        \/ parent[a] = "waiting" /\ parent'[a] = "none"
        \/ parent'[a] = "killed"
    BY <1>7 DEF FaultStep, SpawnFails, StartFails, RunRaises, Interrupt, Kill, KillParent, TypeOK
  <2>3. Working(a)' => Working(a)
    BY <1>7 DEF FaultStep, SpawnFails, StartFails, RunRaises, Interrupt, Kill, KillParent,
                Goes, Working, WorkPCs, TypeOK
  <2> QED BY <1>1, <2>1, <2>2, <2>3 DEF OwnsTarget
<1> QED BY <1>2, <1>3, <1>4, <1>5, <1>6, <1>7 DEF WorkStep

\* Only Expire makes the owner file too old, and the run counts that.
LEMMA NotExpired ==
  ASSUME TypeOK, OwnerInv, [Next]_vars, expiries' = 0
  PROVE  expiries = 0 /\ ~expired' /\ ~Expire
<1>1. expiries \in Nat
  BY BoundsAreNat DEF TypeOK
<1>2. ~Expire
  BY <1>1 DEF Expire
<1>3. ASSUME NEW a \in Agents, NEW t \in Schedules, NEW r \in 1..MaxRepeat, EnqueueOrClaim(a, t, r)
      PROVE  expiries' = expiries /\ (expired' = expired \/ ~expired')
  <2>1. CASE OwnerValid
    BY <1>3, <2>1 DEF EnqueueOrClaim, counts
  <2>2. CASE ~OwnerValid
    BY <1>3, <2>2 DEF EnqueueOrClaim, counts
  <2> QED BY <2>1, <2>2
<1>4. ASSUME NEW a \in Agents, WorkStep(a)
      PROVE  expiries' = expiries /\ (expired' = expired \/ ~expired')
  <2>1. CASE ReleaseOwner(a)
    BY <2>1 DEF ReleaseOwner, counts
  <2>2. CASE ~ReleaseOwner(a)
    BY <1>4, <2>2 DEF WorkStep, ClaimJob, NextJob, NoNextJob, FinishJob, AcquireLock, LockRefused,
              ReleaseLock, Spawn, ChildReady, HandOverLock, HandOverOwner, Run, LastRun, counts
  <2> QED BY <2>1, <2>2
<1>5. ASSUME NEW a \in Agents, FaultStep(a) PROVE expiries' = expiries /\ expired' = expired
  BY <1>5 DEF FaultStep, SpawnFails, StartFails, RunRaises, Interrupt, Kill, KillParent
<1>6. ASSUME UNCHANGED vars \/ \E t \in Schedules : OtherLocks(t) \/ OtherUnlocks(t)
      PROVE  expiries' = expiries /\ expired' = expired
  BY <1>6 DEF vars, OtherLocks, OtherUnlocks, counts
<1>7. expiries' = expiries /\ (expired' = expired \/ ~expired')
  BY <1>2, <1>3, <1>4, <1>5, <1>6 DEF Next
<1> QED BY <1>2, <1>7 DEF OwnerInv

LEMMA NextOwnerInv ==
  ASSUME TypeOK, DaemonInv, OwnerInv, [Next]_vars
  PROVE  OwnerInv'
<1> SUFFICES ASSUME expiries' = 0, NEW a \in Agents PROVE OwnsTarget(a)'
  BY NotExpired DEF OwnerInv
<1>1. expiries = 0 /\ ~Expire /\ OwnsTarget(a)
  BY NotExpired DEF OwnerInv
<1>2. CASE UNCHANGED vars
  BY <1>1, <1>2 DEF vars, OwnsTarget, Working
<1>3. ASSUME UNCHANGED <<pc[a], parent[a]>>,
             \/ \E t \in Schedules : OtherLocks(t) \/ OtherUnlocks(t)
             \/ \E b \in Agents : b # a /\
                  \/ WorkStep(b) \/ FaultStep(b)
                  \/ \E t \in Schedules, r \in 1..MaxRepeat : EnqueueOrClaim(b, t, r)
      PROVE  OwnsTarget(a)'
  <2>1. Working(a)' = Working(a)
    BY <1>3 DEF Working
  <2>2. Working(a) => Running(a)
    BY DEF Working, Running, WorkPCs
  <2>3. parent[a] \in {"waiting", "locked"} => owner' = owner
    BY <1>1, <1>3, OthersKeepOwner, HolderAlive DEF OwnsTarget
  <2>4. Working(a) /\ parent[a] \in {"none", "gone"} => owner' = owner
    BY <1>1, <1>3, <2>2, OthersKeepOwner, HolderAlive DEF OwnsTarget
  <2> QED BY <1>1, <1>3, <2>1, <2>3, <2>4 DEF OwnsTarget
<1>4. CASE \E t \in Schedules : OtherLocks(t) \/ OtherUnlocks(t)
  <2>1. UNCHANGED <<pc[a], parent[a]>>
    BY <1>4 DEF OtherLocks, OtherUnlocks
  <2> QED BY <1>3, <1>4, <2>1
<1>5. ASSUME NEW b \in Agents,
             \/ WorkStep(b) \/ FaultStep(b)
             \/ \E t \in Schedules, r \in 1..MaxRepeat : EnqueueOrClaim(b, t, r)
      PROVE  OwnsTarget(a)'
  <2>1. CASE b = a
    BY <1>1, <1>5, <2>1, WorkerKeepsOwning
  <2>2. CASE b # a
    <3>1. UNCHANGED <<pc[a], parent[a]>>
      BY <1>5, <2>2, OthersUntouched
    <3> QED BY <1>3, <1>5, <2>2, <3>1
  <2> QED BY <2>1, <2>2
<1> QED BY <1>1, <1>2, <1>4, <1>5 DEF Next

-----------------------------------------------------------------------------
(* The jobs in running/. It is not enough to say whose they are: when the   *)
(* next job is taken, the last one must be gone.                           *)

\* Where the owner is when it works on no job.
BetweenJobs == {"elected", "unlockOwn", "drain", "release", "refusedRelease", "abortRelease",
                "unlockEnd"}

NoOrphan == \A a \in Agents : ~Orphan(a)

RunsOneJob(a) ==
  /\ runningDir \subseteq {cur[a]}
  /\ pc[a] \in BetweenJobs => runningDir = {}

JobInv ==
  expiries = 0 /\ NoOrphan =>
    \A a \in Agents : owner \in {<<a, "main">>, <<a, "child">>} => RunsOneJob(a)

LEMMA InitJobInv == Init => JobInv
BY DEF Init, JobInv, RunsOneJob

\* Without orphans, only the process in the owner file works.
LEMMA WorkerIsOwner ==
  ASSUME TypeOK, OwnerInv, NoOrphan, expiries = 0, NEW b \in Agents, Working(b)
  PROVE  owner \in {<<b, "main">>, <<b, "child">>}
<1>1. OwnsTarget(b) /\ parent[b] \in {"none", "waiting", "locked", "gone"}
  BY DEF OwnerInv, NoOrphan, Orphan, TypeOK
<1> QED BY <1>1 DEF OwnsTarget

LEMMA NextJobInv ==
  ASSUME TypeOK, DaemonInv, OwnerInv, JobInv, [Next]_vars
  PROVE  JobInv'
<1> SUFFICES ASSUME expiries' = 0, NoOrphan', NEW a \in Agents,
                    owner' \in {<<a, "main">>, <<a, "child">>}
             PROVE  RunsOneJob(a)'
  BY DEF JobInv
<1>1. expiries = 0 /\ ~Expire
  BY NotExpired
<1> DEFINE Owns == owner \in {<<a, "main">>, <<a, "child">>}
<1>2. ASSUME NoOrphan, Owns, runningDir' \subseteq runningDir, cur'[a] = cur[a],
             pc'[a] \in BetweenJobs => pc[a] \in BetweenJobs
      PROVE  RunsOneJob(a)'
  BY <1>1, <1>2 DEF JobInv, RunsOneJob
<1>3. CASE UNCHANGED vars \/ \E t \in Schedules : OtherLocks(t) \/ OtherUnlocks(t)
  <2>1. UNCHANGED <<runningDir, owner, parent, cur, pc>>
    BY <1>3 DEF vars, OtherLocks, OtherUnlocks, files, locals
  <2> QED BY <1>2, <2>1 DEF NoOrphan, Orphan
<1>4. ASSUME NEW b \in Agents, NEW t \in Schedules, NEW r \in 1..MaxRepeat, EnqueueOrClaim(b, t, r)
      PROVE  RunsOneJob(a)'
  <2>1. CASE OwnerValid
    <3>1. runningDir' \subseteq runningDir /\ UNCHANGED <<owner, parent>>
      BY <1>4, <2>1 DEF EnqueueOrClaim
    <3>2. CASE a # b
      <4>1. cur'[a] = cur[a] /\ pc'[a] = pc[a]
        BY <1>4, <2>1, <3>2 DEF EnqueueOrClaim, TypeOK
      <4> QED BY <1>2, <3>1, <4>1 DEF NoOrphan, Orphan
    <3>3. CASE a = b
      <4>1. pc[a] = "idle" /\ parent[a] = "none"
        BY <1>4, <3>3 DEF EnqueueOrClaim, DaemonInv
      <4>2. ~Alive(<<a, "main">>) /\ ~Alive(<<a, "child">>)
        BY <4>1 DEF Alive, Self, Running
      <4> QED BY <2>1, <3>1, <4>2 DEF OwnerValid
    <3> QED BY <3>2, <3>3
  <2>2. CASE ~OwnerValid
    <3>1. runningDir' = {}
      BY <1>4, <2>2 DEF EnqueueOrClaim, Recovered
    <3> QED BY <3>1 DEF RunsOneJob
  <2> QED BY <2>1, <2>2
<1>5. ASSUME NEW b \in Agents, ClaimJob(b) PROVE RunsOneJob(a)'
  <2>1. NoOrphan /\ Owns
    BY <1>5 DEF ClaimJob, NoOrphan, Orphan
  <2>2. Working(b) /\ pc[b] = "elected"
    BY <1>5 DEF ClaimJob, Goes, Working, WorkPCs
  <2>3. a = b
    BY <1>1, <2>1, <2>2, WorkerIsOwner
  <2>4. runningDir = {}
    BY <1>1, <2>1, <2>2, <2>3 DEF JobInv, RunsOneJob, BetweenJobs
  <2>5. pc'[a] = "locking" /\ cur' = cur
    BY <1>5, <2>3 DEF ClaimJob, Goes, locals, TypeOK
  <2>6. own[a] = cur[a]
    BY <2>2, <2>3 DEF DaemonInv
  <2>7. runningDir' \subseteq {own[a]}
    <3>1. CASE own[a] \in pending
      BY <1>5, <2>3, <2>4, <3>1 DEF ClaimJob
    <3>2. CASE own[a] \notin pending
      BY <1>5, <2>3, <2>4, <3>2 DEF ClaimJob
    <3> QED BY <3>1, <3>2
  <2> QED BY <2>5, <2>6, <2>7 DEF RunsOneJob, BetweenJobs
<1>6. ASSUME NEW b \in Agents, NextJob(b) PROVE RunsOneJob(a)'
  <2>1. NoOrphan /\ Owns
    BY <1>6 DEF NextJob, NoOrphan, Orphan
  <2>2. Working(b) /\ pc[b] = "drain"
    BY <1>6 DEF NextJob, Goes, Working, WorkPCs
  <2>3. a = b
    BY <1>1, <2>1, <2>2, WorkerIsOwner
  <2>4. runningDir = {}
    BY <1>1, <2>1, <2>2, <2>3 DEF JobInv, RunsOneJob, BetweenJobs
  <2>5. pc'[a] = "locking" /\ runningDir' \subseteq {cur'[a]}
    BY <1>6, <2>3, <2>4 DEF NextJob, Goes, TypeOK
  <2> QED BY <2>5 DEF RunsOneJob, BetweenJobs
<1>7. ASSUME NEW b \in Agents, FinishJob(b) PROVE RunsOneJob(a)'
  <2>1. NoOrphan /\ Owns /\ runningDir' = runningDir \ {cur[b]} /\ cur' = cur
    BY <1>7 DEF FinishJob, NoOrphan, Orphan, locals
  <2>2. CASE a = b
    BY <1>1, <2>1, <2>2 DEF JobInv, RunsOneJob
  <2>3. CASE a # b
    BY <1>2, <1>7, <2>1, <2>3 DEF FinishJob, TypeOK
  <2> QED BY <2>2, <2>3
<1>8. ASSUME NEW b \in Agents, HandOverOwner(b) PROVE RunsOneJob(a)'
  <2>1. NoOrphan /\ UNCHANGED <<runningDir, cur, pc>>
    BY <1>8 DEF HandOverOwner, NoOrphan, Orphan, files, locals, TypeOK
  <2>2. owner = <<b, "main">>
    BY <1>1, <1>8 DEF HandOverOwner, OwnerInv, OwnsTarget
  <2>3. Owns
    BY <1>8, <2>2, AgentAssumption DEF HandOverOwner, Pids
  <2> QED BY <1>2, <2>1, <2>3
<1>9. ASSUME NEW b \in Agents, ReleaseOwner(b) PROVE RunsOneJob(a)'
  <2>1. NoOrphan /\ UNCHANGED <<runningDir, cur>>
    BY <1>9 DEF ReleaseOwner, NoOrphan, Orphan, files, locals
  <2>2. Owns
    BY <1>9, AgentAssumption DEF ReleaseOwner, Pids
  <2>3. pc'[a] \in BetweenJobs => pc[a] \in BetweenJobs
    BY <1>9 DEF ReleaseOwner, AfterRelease, BetweenJobs, TypeOK
  <2> QED BY <1>2, <2>1, <2>2, <2>3
<1>10. ASSUME NEW b \in Agents,
              \/ NoNextJob(b) \/ AcquireLock(b) \/ LockRefused(b) \/ ReleaseLock(b)
              \/ Spawn(b) \/ ChildReady(b) \/ HandOverLock(b) \/ Run(b) \/ LastRun(b)
       PROVE  RunsOneJob(a)'
  <2>1. UNCHANGED <<runningDir, cur, owner>>
    BY <1>10 DEF NoNextJob, AcquireLock, LockRefused, ReleaseLock, Spawn, ChildReady,
                 HandOverLock, Run, LastRun, files, locals
  <2>2. NoOrphan
    BY <1>10 DEF NoNextJob, AcquireLock, LockRefused, ReleaseLock, Spawn, ChildReady,
                 HandOverLock, Run, LastRun, Goes, DaemonInv, NoOrphan, Orphan, TypeOK
  <2>3. pc'[a] \in BetweenJobs => pc[a] \in BetweenJobs
    BY <1>10 DEF NoNextJob, AcquireLock, LockRefused, ReleaseLock, Spawn, ChildReady,
                 HandOverLock, Run, LastRun, Goes, AfterUnlock, BetweenJobs, TypeOK
  <2> QED BY <1>2, <2>1, <2>2, <2>3
<1>11. ASSUME NEW b \in Agents, FaultStep(b) PROVE RunsOneJob(a)'
  <2>1. UNCHANGED <<runningDir, cur, owner>>
    BY <1>11 DEF FaultStep, SpawnFails, StartFails, RunRaises, Interrupt, Kill, KillParent,
                 files, locals
  <2>2. NoOrphan
    BY <1>11 DEF FaultStep, SpawnFails, StartFails, RunRaises, Interrupt, Kill, KillParent,
                 NoOrphan, Orphan, TypeOK
  <2>3. pc'[a] \in BetweenJobs => pc[a] \in BetweenJobs
    BY <1>11 DEF FaultStep, SpawnFails, StartFails, RunRaises, Interrupt, Kill, KillParent,
                 Goes, BetweenJobs, TypeOK
  <2> QED BY <1>2, <2>1, <2>2, <2>3
<1> QED BY <1>1, <1>3, <1>4, <1>5, <1>6, <1>7, <1>8, <1>9, <1>10, <1>11 DEF Next, WorkStep

-----------------------------------------------------------------------------
(* Theorems.                                                               *)

LEMMA NextIInv == IInv /\ [Next]_vars => IInv'
<1> SUFFICES ASSUME IInv, [Next]_vars PROVE IInv'
  OBVIOUS
<1> USE DEF IInv
<1>1. TypeOK'
  BY NextTypeOK DEF FilesInv
<1>2. FilesInv' /\ DaemonInv' /\ LockInv' /\ OwnerInv'
  BY NextFilesInv, NextDaemonInv, NextLockInv, NextOwnerInv
<1> QED BY <1>1, <1>2

\* The types hold, and a schedule never has two pending jobs, whatever dies.
THEOREM QueueFilesCorrect == Spec => [](TypeOK /\ PendingUnique)
<1>1. IInv => TypeOK /\ PendingUnique
  BY DEF IInv, FilesInv
<1> QED BY <1>1, InitIInv, NextIInv, PTL DEF Spec

\* A worker that runs a schedule has its lock, daemon or not, unless the parent
\* of the daemon was killed before it handed the lock over.
THEOREM LockHeldWhileRunning == Spec => []RunsUnderLock
<1>1. IInv => RunsUnderLock
  <2> SUFFICES ASSUME IInv, NEW a \in Agents, pc[a] = "running", ~Orphan(a)
               PROVE  lock[schedule[cur[a]]] \in {<<a, "main">>, <<a, "child">>}
    BY DEF RunsUnderLock
  <2>1. HoldsLock(a) /\ parent[a] \in {"none", "waiting", "locked", "gone"}
    BY DEF IInv, LockInv, Orphan, TypeOK
  <2> QED BY <2>1 DEF HoldsLock
<1> QED BY <1>1, InitIInv, NextIInv, PTL DEF Spec

\* One worker, as long as no owner file ages out and no parent is killed before
\* the handover: the owner file would have to name two processes.
THEOREM WorkersExclude == Spec => []OneWorker
<1>1. IInv => OneWorker
  <2> SUFFICES ASSUME IInv, expiries = 0, NEW a \in Agents, NEW b \in Agents,
                      Working(a), Working(b), a # b, ~Orphan(a), ~Orphan(b)
               PROVE  FALSE
    BY DEF OneWorker
  <2>1. OwnsTarget(a) /\ OwnsTarget(b)
    BY DEF IInv, OwnerInv
  <2>2. \A q \in {a, b} : parent[q] \in {"none", "waiting", "locked", "gone"}
    BY DEF IInv, TypeOK, Orphan
  <2>3. owner \in {<<a, "main">>, <<a, "child">>} /\ owner \in {<<b, "main">>, <<b, "child">>}
    BY <2>1, <2>2 DEF OwnsTarget
  <2> QED BY <2>3
<1> QED BY <1>1, InitIInv, NextIInv, PTL DEF Spec

\* No schedule that waits is forgotten: its last pending job leaves pending/
\* only into running/.
THEOREM SchedulesAreServed == Spec => ScheduleServed
<1> DEFINE Served == \A s \in Schedules :
             Waiting(s) /\ ~Waiting(s)' => \E j \in pending : schedule[j] = s /\ j \in runningDir'
<1>1. ASSUME IInv, [Next]_vars PROVE Served
  <2> SUFFICES ASSUME NEW s \in Schedules, Waiting(s), ~Waiting(s)'
               PROVE  \E j \in pending : schedule[j] = s /\ j \in runningDir'
    BY DEF Served
  <2> USE DEF IInv
  <2>1. PICK j \in pending : schedule[j] = s
    BY DEF Waiting
  <2>2. j \in 1..issued /\ schedule'[j] = s /\ j \notin pending'
    <3>1. j \in 1..issued
      BY <1>1, <2>1 DEF FilesInv, NamesInv
    <3>2. schedule'[j] = s
      BY <1>1, <2>1, <3>1, NextFilesInv
    <3> QED BY <3>1, <3>2 DEF Waiting
  <2> SUFFICES j \in runningDir'
    BY <2>1
  <2>3. ASSUME NEW a \in Agents, ClaimJob(a) \/ NextJob(a) PROVE j \in runningDir'
    <3>1. CASE ClaimJob(a)
      <4>1. CASE own[a] \in pending
        BY <2>1, <2>2, <3>1, <4>1 DEF ClaimJob
      <4>2. CASE own[a] \notin pending
        BY <2>1, <2>2, <3>1, <4>2 DEF ClaimJob
      <4> QED BY <4>1, <4>2
    <3>2. CASE NextJob(a)
      BY <2>1, <2>2, <3>2 DEF NextJob
    <3> QED BY <2>3, <3>1, <3>2
  <2>4. ASSUME NEW a \in Agents, NEW t \in Schedules, NEW r \in 1..MaxRepeat, EnqueueOrClaim(a, t, r)
        PROVE  FALSE
    <3>1. PICK i \in pending' : schedule'[i] = schedule[j]
      BY <1>1, <2>1, <2>4, EnqueueFilesInv
    <3> QED BY <2>1, <3>1 DEF Waiting
  <2>5. ASSUME NEW a \in Agents,
               \/ NoNextJob(a) \/ FinishJob(a) \/ ReleaseOwner(a) \/ AcquireLock(a)
               \/ LockRefused(a) \/ ReleaseLock(a) \/ Spawn(a) \/ ChildReady(a)
               \/ HandOverLock(a) \/ HandOverOwner(a) \/ Run(a) \/ LastRun(a) \/ FaultStep(a)
        PROVE  FALSE
    <3>1. pending' = pending
      BY <2>5 DEF NoNextJob, FinishJob, ReleaseOwner, AcquireLock, LockRefused, ReleaseLock,
                Spawn, ChildReady, HandOverLock, HandOverOwner, Run, LastRun, FaultStep,
                SpawnFails, StartFails, RunRaises, Interrupt, Kill, KillParent, files
    <3> QED BY <2>1, <2>2, <3>1
  <2>6. CASE UNCHANGED vars \/ Expire \/ \E t \in Schedules : OtherLocks(t) \/ OtherUnlocks(t)
    <3>1. pending' = pending
      BY <2>6 DEF vars, Expire, OtherLocks, OtherUnlocks, files
    <3> QED BY <2>1, <2>2, <3>1
  <2> QED BY <1>1, <2>3, <2>4, <2>5, <2>6 DEF Next, WorkStep
<1>2. Spec => []IInv
  BY InitIInv, NextIInv, PTL DEF Spec
<1>3. IInv /\ [Next]_vars => [Served]_vars
  BY <1>1
<1>4. Spec => [][Served]_vars
  BY <1>2, <1>3, PTL DEF Spec
<1> QED BY <1>4 DEF ScheduleServed

\* A job is never stuck in running/: the owner works on it, or the owner file is
\* no longer valid and the next invocation recovers it.
THEOREM JobsAreRecoverable == Spec => []JobRecoverable
<1>1. IInv /\ JobInv => JobRecoverable
  <2> SUFFICES ASSUME IInv, JobInv, expiries = 0, OwnerValid,
                      \A a \in Agents : parent[a] \in {"none", "gone"},
                      NEW j \in runningDir
               PROVE  \E a \in Agents : Working(a) /\ cur[a] = j
    BY DEF JobRecoverable
  <2>1. PICK a \in Agents : owner = Self(a) /\ Running(a)
    BY DEF OwnerValid, Alive
  <2>2. RunsOneJob(a)
    BY <2>1 DEF JobInv, NoOrphan, Orphan, Self
  <2>3. cur[a] = j /\ pc[a] \notin BetweenJobs
    BY <2>2 DEF RunsOneJob
  <2>4. Working(a)
    BY <2>1, <2>3 DEF IInv, TypeOK, PCs, Running, Working, BetweenJobs
  <2> QED BY <2>3, <2>4
<1>2. IInv /\ JobInv /\ [Next]_vars => JobInv'
  BY NextJobInv DEF IInv
<1> QED BY <1>1, <1>2, InitIInv, InitJobInv, NextIInv, PTL DEF Spec
=============================================================================
