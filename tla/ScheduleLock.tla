----------------------------- MODULE ScheduleLock -----------------------------
(***************************************************************************)
(* The lock file of one schedule at the level of system calls: created     *)
(* with O_EXCL, written and read under flock, removed when its process is  *)
(* gone or its content is invalid.                                         *)
(*                                                                         *)
(* A process creates at most one file, so the file (the inode) is named by *)
(* its creator, and what is written into it is the creator's pid.          *)
(***************************************************************************)
EXTENDS Naturals, FiniteSets

CONSTANTS
  Procs,       \* processes that want the lock
  Attempts,    \* iterations of the loop in _acquire_lock
  MaxFailures, \* bound: writes that fail
  None

ASSUME LockAssumption ==
  /\ None \notin Procs
  /\ Attempts \in Nat \ {0}
  /\ MaxFailures \in Nat

VARIABLES
  path,      \* the file the lock's name leads to
  written,   \* files with a complete content
  flock,     \* the process that holds the flock of each file
  opened,    \* the file each process has opened to look into
  pc,        \* where each process is
  releasing, \* is it in _release_lock (or still in _acquire_lock)?
  tries,     \* iterations of the loop it has used up
  failures   \* counter for the bound

vars == <<path, written, flock, opened, pc, releasing, tries, failures>>

PCs == {"start", "created", "locked", "held", "exists", "opened", "reading",
        "invalid", "unlinking", "refused", "exhausted", "done", "dead"}

TypeOK ==
  /\ path \in Procs \cup {None}
  /\ written \subseteq Procs
  /\ flock \in [Procs -> Procs \cup {None}]
  /\ opened \in [Procs -> Procs \cup {None}]
  /\ pc \in [Procs -> PCs]
  /\ releasing \in [Procs -> BOOLEAN]
  /\ tries \in [Procs -> 0..Attempts]
  /\ failures \in 0..MaxFailures

Init ==
  /\ path = None
  /\ written = {}
  /\ flock = [p \in Procs |-> None]
  /\ opened = [p \in Procs |-> None]
  /\ pc = [p \in Procs |-> "start"]
  /\ releasing = [p \in Procs |-> FALSE]
  /\ tries = [p \in Procs |-> 0]
  /\ failures = 0

Alive(p) == pc[p] # "dead"
Goes(p, from, to) == pc[p] = from /\ pc' = [pc EXCEPT ![p] = to]

\* The flocks of a process end with its descriptors.
Unlocked(p) == [f \in Procs |-> IF flock[f] = p THEN None ELSE flock[f]]

-----------------------------------------------------------------------------
(* _acquire_lock: the creator.                                             *)

\* os.open with O_CREAT and O_EXCL
Create(p) ==
  /\ path = None
  /\ Goes(p, "start", "created")
  /\ path' = p
  /\ UNCHANGED <<written, flock, opened, releasing, tries, failures>>

CreateFails(p) ==
  /\ path # None
  /\ Goes(p, "start", "exists")
  /\ UNCHANGED <<path, written, flock, opened, releasing, tries, failures>>

FlockOwn(p) ==
  /\ flock[p] = None
  /\ Goes(p, "created", "locked")
  /\ flock' = [flock EXCEPT ![p] = p]
  /\ UNCHANGED <<path, written, opened, releasing, tries, failures>>

\* json.dump, flush, fsync and close
Write(p) ==
  /\ Goes(p, "locked", "held")
  /\ written' = written \cup {p}
  /\ flock' = Unlocked(p)
  /\ UNCHANGED <<path, opened, releasing, tries, failures>>

\* except BaseException: the name is removed, whatever it leads to by now.
WriteFails(p) ==
  /\ failures < MaxFailures /\ failures' = failures + 1
  /\ pc[p] \in {"created", "locked"} /\ pc' = [pc EXCEPT ![p] = "done"]
  /\ path' = None
  /\ flock' = Unlocked(p)
  /\ UNCHANGED <<written, opened, releasing, tries>>

-----------------------------------------------------------------------------
(* The reader: _acquire_lock after FileExistsError, and _release_lock.     *)

\* continue: the next iteration, if there is one.
Retry(p) ==
  /\ tries' = [tries EXCEPT ![p] = @ + 1]
  /\ pc' = [pc EXCEPT ![p] = IF tries'[p] = Attempts THEN "exhausted" ELSE "start"]

\* How a reader goes on that leaves the file alone or has removed it.
Leave(p) ==
  /\ flock' = Unlocked(p)
  /\ opened' = [opened EXCEPT ![p] = None]
  /\ IF releasing[p]
     THEN pc' = [pc EXCEPT ![p] = "done"] /\ UNCHANGED tries
     ELSE Retry(p)

Release(p) ==
  /\ Goes(p, "held", "exists")
  /\ releasing' = [releasing EXCEPT ![p] = TRUE]
  /\ UNCHANGED <<path, written, flock, opened, tries, failures>>

\* os.open without O_CREAT
Open(p) ==
  /\ path # None
  /\ Goes(p, "exists", "opened")
  /\ opened' = [opened EXCEPT ![p] = path]
  /\ UNCHANGED <<path, written, flock, releasing, tries, failures>>

\* FileNotFoundError
OpenFails(p) ==
  /\ pc[p] = "exists" /\ path = None
  /\ Leave(p)
  /\ UNCHANGED <<path, written, releasing, failures>>

FlockOpened(p) ==
  /\ Goes(p, "opened", "reading")
  /\ flock[opened[p]] = None
  /\ flock' = [flock EXCEPT ![opened[p]] = p]
  /\ UNCHANGED <<path, written, opened, releasing, tries, failures>>

\* Invalid JSON; or the pid of a process that is gone; or, to release, the own.
Removable(p) ==
  LET f == opened[p] IN
  f \notin written \/ (IF releasing[p] THEN f = p ELSE ~Alive(f))

ReadRemovable(p) ==
  /\ Goes(p, "reading", "invalid")
  /\ Removable(p)
  /\ UNCHANGED <<path, written, flock, opened, releasing, tries, failures>>

\* RuntimeError: another agent is running; or the lock is not the own one.
ReadForeign(p) ==
  /\ pc[p] = "reading" /\ ~Removable(p)
  /\ pc' = [pc EXCEPT ![p] = IF releasing[p] THEN "done" ELSE "refused"]
  /\ flock' = Unlocked(p)
  /\ opened' = [opened EXCEPT ![p] = None]
  /\ UNCHANGED <<path, written, releasing, tries, failures>>

\* Mutant: the name is removed without a look at where it leads now.
StatAnything(p) ==
  /\ Goes(p, "invalid", "unlinking")
  /\ UNCHANGED <<path, written, flock, opened, releasing, tries, failures>>

\* _unlink_if_same_file: the name still leads to the opened file ...
StatSame(p) ==
  /\ path = opened[p]
  /\ Goes(p, "invalid", "unlinking")
  /\ UNCHANGED <<path, written, flock, opened, releasing, tries, failures>>

\* ... or it does not.
StatOther(p) ==
  /\ pc[p] = "invalid" /\ path # opened[p]
  /\ Leave(p)
  /\ UNCHANGED <<path, written, releasing, failures>>

\* Mutant: the descriptor is not closed.
UnlinkOpen(p) ==
  /\ pc[p] = "unlinking"
  /\ path' = None
  /\ IF releasing[p]
     THEN pc' = [pc EXCEPT ![p] = "done"] /\ UNCHANGED tries
     ELSE Retry(p)
  /\ UNCHANGED <<written, flock, opened, releasing, failures>>

Unlink(p) ==
  /\ pc[p] = "unlinking"
  /\ path' = None
  /\ Leave(p)
  /\ UNCHANGED <<written, releasing, failures>>

\* The process ends, after its work or in the middle of anything.
Die(p) ==
  /\ Alive(p)
  /\ pc' = [pc EXCEPT ![p] = "dead"]
  /\ flock' = Unlocked(p)
  /\ UNCHANGED <<path, written, opened, releasing, tries, failures>>

-----------------------------------------------------------------------------
\* What a process does without waiting for the end of its run.
Step(p) ==
  \/ Create(p) \/ CreateFails(p) \/ FlockOwn(p) \/ Write(p)
  \/ Open(p) \/ OpenFails(p) \/ FlockOpened(p)
  \/ ReadRemovable(p) \/ ReadForeign(p)
  \/ StatSame(p) \/ StatOther(p) \/ Unlink(p)

Next == \E p \in Procs : Step(p) \/ Release(p) \/ WriteFails(p) \/ Die(p)

Spec == Init /\ [][Next]_vars

\* A process that is in one of the two functions goes on.
FairSpec == Spec /\ \A p \in Procs : WF_vars(Step(p))

-----------------------------------------------------------------------------
\* A complete lock file of a live process is removed by nobody else, as long as
\* no write fails: flock and the comparison of the inodes keep a reader that
\* saw an incomplete or a stale file from removing a newer one.
LiveLockKept ==
  [][failures' = 0 =>
       \A p \in Procs : path = p /\ pc[p] = "held" => path' = p]_vars

\* Nobody waits for ever for a flock: an attempt, and a release, end.
Trying(p) == pc[p] \in PCs \ {"held", "refused", "exhausted", "done", "dead"}
EveryAttemptEnds == \A p \in Procs : Trying(p) ~> ~Trying(p)

(* What a comment says of the program; the code does otherwise (README).    *)

\* "O_EXCL elects one creator" (locks.py): one process at a time has the lock.
MutualExclusion ==
  \A p, q \in Procs : pc[p] = "held" /\ pc[q] = "held" => p = q
=============================================================================
