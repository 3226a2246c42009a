-------------------------- MODULE ScheduleLock_proofs --------------------------
(***************************************************************************)
(* A complete lock file of a live process is never removed by another one, *)
(* for any number of processes, attempts and failures.                     *)
(***************************************************************************)
EXTENDS ScheduleLock, TLAPS

-----------------------------------------------------------------------------
(* Types.                                                                  *)

LEMMA InitTypeOK == Init => TypeOK
BY LockAssumption DEF Init, TypeOK, PCs

LEMMA LeaveTypeOK ==
  ASSUME TypeOK, NEW p \in Procs, Leave(p), tries[p] < Attempts
  PROVE  /\ flock' \in [Procs -> Procs \cup {None}]
         /\ opened' \in [Procs -> Procs \cup {None}]
         /\ pc' \in [Procs -> PCs]
         /\ tries' \in [Procs -> 0..Attempts]
<1>1. flock' \in [Procs -> Procs \cup {None}] /\ opened' \in [Procs -> Procs \cup {None}]
  BY DEF Leave, Unlocked, TypeOK
<1>2. CASE releasing[p]
  BY <1>1, <1>2 DEF Leave, TypeOK, PCs
<1>3. CASE ~releasing[p]
  <2>1. tries[p] + 1 \in 0..Attempts
    BY LockAssumption DEF TypeOK
  <2> QED BY <1>1, <1>3, <2>1 DEF Leave, Retry, TypeOK, PCs
<1> QED BY <1>2, <1>3

-----------------------------------------------------------------------------
(* The inductive invariant. A reader is sure of what it does because it    *)
(* holds the flock of the file it has opened: the creator cannot complete  *)
(* it, and nobody else can remove it.                                      *)

Readers == {"reading", "invalid", "unlinking"}

TriesLeft == \A p \in Procs : pc[p] \notin {"exhausted", "dead"} => tries[p] < Attempts
HeldIsWritten == \A p \in Procs : pc[p] = "held" => p \in written
CreatorFlock == \A p \in Procs : pc[p] = "locked" => flock[p] = p
ReaderOpened == \A q \in Procs : pc[q] \in Readers \cup {"opened"} => opened[q] \in Procs
ReaderFlock == \A q \in Procs : pc[q] \in Readers => flock[opened[q]] = q
RemovesNoLiveLock ==
  \A q \in Procs : pc[q] \in {"invalid", "unlinking"} => pc[opened[q]] # "held"
RemovesOpened ==
  failures = 0 => \A q \in Procs : pc[q] = "unlinking" => path = opened[q]

LockInv ==
  /\ TriesLeft /\ HeldIsWritten /\ CreatorFlock
  /\ ReaderOpened /\ ReaderFlock /\ RemovesNoLiveLock /\ RemovesOpened

IInv == TypeOK /\ LockInv

LEMMA InitIInv == Init => IInv
<1> SUFFICES ASSUME Init PROVE IInv
  OBVIOUS
<1>1. TypeOK
  BY InitTypeOK
<1>2. LockInv
  BY LockAssumption
  DEF Init, LockInv, TriesLeft, HeldIsWritten, CreatorFlock, ReaderOpened,
      ReaderFlock, RemovesNoLiveLock, RemovesOpened, Readers
<1> QED BY <1>1, <1>2 DEF IInv

-----------------------------------------------------------------------------
(* The invariant under each step of one process.                           *)

LEMMA NextTypeOK == IInv /\ [Next]_vars => TypeOK'
<1> SUFFICES ASSUME IInv, [Next]_vars PROVE TypeOK'
  OBVIOUS
<1> USE DEF IInv
<1>1. CASE UNCHANGED vars
  BY <1>1 DEF vars, TypeOK
<1>2. ASSUME NEW p \in Procs, Step(p) PROVE TypeOK'
  <2>1. CASE OpenFails(p) \/ StatOther(p) \/ Unlink(p)
    <3>1. Leave(p) /\ tries[p] < Attempts
      BY <2>1 DEF OpenFails, StatOther, Unlink, LockInv, TriesLeft
    <3>2. path' \in Procs \cup {None} /\ UNCHANGED <<written, releasing, failures>>
      BY <2>1 DEF OpenFails, StatOther, Unlink, TypeOK
    <3> QED BY <3>1, <3>2, LeaveTypeOK DEF TypeOK
  <2>2. CASE Create(p) \/ CreateFails(p) \/ FlockOwn(p) \/ Write(p)
    BY <2>2 DEF Create, CreateFails, FlockOwn, Write, Goes, Unlocked, TypeOK, PCs
  <2>3. CASE Open(p) \/ FlockOpened(p) \/ ReadRemovable(p) \/ ReadForeign(p) \/ StatSame(p)
    BY <2>3 DEF Open, FlockOpened, ReadRemovable, ReadForeign, StatSame, Goes,
                Unlocked, TypeOK, PCs
  <2> QED BY <1>2, <2>1, <2>2, <2>3 DEF Step
<1>3. ASSUME NEW p \in Procs, Release(p) PROVE TypeOK'
  BY <1>3 DEF Release, Goes, TypeOK, PCs
<1>4. ASSUME NEW p \in Procs, WriteFails(p) PROVE TypeOK'
  BY <1>4, LockAssumption DEF WriteFails, Unlocked, TypeOK, PCs
<1>5. ASSUME NEW p \in Procs, Die(p) PROVE TypeOK'
  BY <1>5 DEF Die, Unlocked, TypeOK, PCs
<1> QED BY <1>1, <1>2, <1>3, <1>4, <1>5 DEF Next

\* A reader that leaves, with the file removed or not.
LEMMA LeaveLockInv ==
  ASSUME IInv, NEW p \in Procs, Leave(p), UNCHANGED <<written, releasing, failures>>,
         pc[p] \notin {"exhausted", "dead"},
         path' = path \/ (pc[p] = "unlinking" /\ path' = None)
  PROVE  LockInv'
<1> USE DEF IInv
<1>1. /\ \A q \in Procs : q # p => pc'[q] = pc[q] /\ opened'[q] = opened[q] /\ tries'[q] = tries[q]
      /\ pc'[p] \in {"done", "exhausted", "start"}
      /\ pc'[p] = "start" => tries'[p] < Attempts
      /\ pc'[p] = "done" => tries'[p] = tries[p]
      /\ flock' = Unlocked(p)
  <2>1. CASE releasing[p]
    BY <2>1 DEF Leave, TypeOK
  <2>2. CASE ~releasing[p]
    <3>1. tries[p] < Attempts /\ tries[p] \in 0..Attempts
      BY DEF LockInv, TriesLeft, TypeOK
    <3> QED BY <2>2, <3>1, LockAssumption DEF Leave, Retry, TypeOK
  <2> QED BY <2>1, <2>2
<1>2. TriesLeft'
  BY <1>1 DEF TriesLeft, LockInv
<1>3. HeldIsWritten' /\ ReaderOpened'
  BY <1>1 DEF HeldIsWritten, ReaderOpened, Readers, LockInv
<1>4. CreatorFlock' /\ ReaderFlock'
  BY <1>1 DEF CreatorFlock, ReaderFlock, ReaderOpened, Readers, LockInv, Unlocked, TypeOK
<1>5. RemovesNoLiveLock'
  BY <1>1 DEF RemovesNoLiveLock, ReaderOpened, Readers, LockInv
<1>6. RemovesOpened'
  <2> SUFFICES ASSUME failures = 0, NEW q \in Procs, pc'[q] = "unlinking"
               PROVE  path' = opened'[q]
    BY DEF RemovesOpened
  <2>1. q # p /\ pc[q] = "unlinking" /\ path = opened[q] /\ opened'[q] = opened[q]
    BY <1>1 DEF RemovesOpened, LockInv
  <2>2. CASE path' = path
    BY <2>1, <2>2
  <2>3. CASE pc[p] = "unlinking" /\ path' = None
    <3>1. path = opened[p] /\ flock[path] = p /\ flock[path] = q
      BY <2>1, <2>3 DEF RemovesOpened, ReaderFlock, Readers, LockInv
    <3> QED BY <2>1, <3>1
  <2> QED BY <2>2, <2>3
<1> QED BY <1>2, <1>3, <1>4, <1>5, <1>6 DEF LockInv

LEMMA CreatorLockInv ==
  ASSUME IInv, NEW p \in Procs, Create(p) \/ CreateFails(p) \/ FlockOwn(p) \/ Write(p)
  PROVE  LockInv'
<1> USE DEF IInv, Goes
<1>1. CASE Create(p)
  <2>1. RemovesOpened'
    BY <1>1, LockAssumption DEF Create, RemovesOpened, ReaderOpened, Readers, LockInv, TypeOK
  <2>2. TriesLeft' /\ HeldIsWritten' /\ CreatorFlock' /\ ReaderOpened' /\ ReaderFlock' /\ RemovesNoLiveLock'
    BY <1>1 DEF Create, TriesLeft, HeldIsWritten, CreatorFlock, ReaderOpened, ReaderFlock,
                RemovesNoLiveLock, Readers, LockInv, TypeOK
  <2> QED BY <2>1, <2>2 DEF LockInv
<1>2. CASE CreateFails(p)
  BY <1>2 DEF CreateFails, TriesLeft, HeldIsWritten, CreatorFlock, ReaderOpened, ReaderFlock,
              RemovesNoLiveLock, RemovesOpened, Readers, LockInv, TypeOK
<1>3. CASE FlockOwn(p)
  <2>1. ReaderFlock'
    BY <1>3, LockAssumption DEF FlockOwn, ReaderFlock, ReaderOpened, Readers, LockInv, TypeOK
  <2>2. TriesLeft' /\ HeldIsWritten' /\ CreatorFlock' /\ ReaderOpened' /\ RemovesNoLiveLock' /\ RemovesOpened'
    BY <1>3 DEF FlockOwn, TriesLeft, HeldIsWritten, CreatorFlock, ReaderOpened,
                RemovesNoLiveLock, RemovesOpened, Readers, LockInv, TypeOK
  <2> QED BY <2>1, <2>2 DEF LockInv
<1>4. CASE Write(p)
  <2>1. RemovesNoLiveLock'
    BY <1>4 DEF Write, RemovesNoLiveLock, ReaderFlock, ReaderOpened, CreatorFlock, Readers,
                LockInv, TypeOK
  <2>2. CreatorFlock' /\ ReaderFlock'
    BY <1>4 DEF Write, CreatorFlock, ReaderFlock, ReaderOpened, Readers, LockInv, Unlocked, TypeOK
  <2>3. TriesLeft' /\ HeldIsWritten' /\ ReaderOpened' /\ RemovesOpened'
    BY <1>4 DEF Write, TriesLeft, HeldIsWritten, ReaderOpened, RemovesOpened, Readers, LockInv, TypeOK
  <2> QED BY <2>1, <2>2, <2>3 DEF LockInv
<1> QED BY <1>1, <1>2, <1>3, <1>4

LEMMA ReaderLockInv ==
  ASSUME IInv, NEW p \in Procs,
         Open(p) \/ FlockOpened(p) \/ ReadRemovable(p) \/ ReadForeign(p) \/ StatSame(p)
  PROVE  LockInv'
<1> USE DEF IInv, Goes
<1>1. CASE Open(p)
  BY <1>1 DEF Open, TriesLeft, HeldIsWritten, CreatorFlock, ReaderOpened, ReaderFlock,
              RemovesNoLiveLock, RemovesOpened, Readers, LockInv, TypeOK
<1>2. CASE FlockOpened(p)
  <2>1. CreatorFlock' /\ ReaderFlock'
    BY <1>2, LockAssumption
    DEF FlockOpened, CreatorFlock, ReaderFlock, ReaderOpened, Readers, LockInv, TypeOK
  <2>2. TriesLeft' /\ HeldIsWritten' /\ ReaderOpened' /\ RemovesNoLiveLock' /\ RemovesOpened'
    BY <1>2 DEF FlockOpened, TriesLeft, HeldIsWritten, ReaderOpened, RemovesNoLiveLock,
                RemovesOpened, Readers, LockInv, TypeOK
  <2> QED BY <2>1, <2>2 DEF LockInv
<1>3. CASE ReadRemovable(p)
  <2>1. pc[opened[p]] # "held"
    BY <1>3 DEF ReadRemovable, Removable, Alive, HeldIsWritten, ReaderOpened, Readers, LockInv
  <2>2. RemovesNoLiveLock'
    BY <1>3, <2>1 DEF ReadRemovable, RemovesNoLiveLock, ReaderOpened, Readers, LockInv, TypeOK
  <2>3. TriesLeft' /\ HeldIsWritten' /\ CreatorFlock' /\ ReaderOpened' /\ ReaderFlock' /\ RemovesOpened'
    BY <1>3 DEF ReadRemovable, TriesLeft, HeldIsWritten, CreatorFlock, ReaderOpened, ReaderFlock,
                RemovesOpened, Readers, LockInv, TypeOK
  <2> QED BY <2>2, <2>3 DEF LockInv
<1>4. CASE ReadForeign(p)
  <2>1. CreatorFlock' /\ ReaderFlock'
    BY <1>4 DEF ReadForeign, CreatorFlock, ReaderFlock, ReaderOpened, Readers, LockInv, Unlocked, TypeOK
  <2>2. TriesLeft' /\ HeldIsWritten' /\ ReaderOpened' /\ RemovesNoLiveLock' /\ RemovesOpened'
    BY <1>4 DEF ReadForeign, TriesLeft, HeldIsWritten, ReaderOpened, RemovesNoLiveLock,
                RemovesOpened, Readers, LockInv, TypeOK
  <2> QED BY <2>1, <2>2 DEF LockInv
<1>5. CASE StatSame(p)
  BY <1>5 DEF StatSame, TriesLeft, HeldIsWritten, CreatorFlock, ReaderOpened, ReaderFlock,
              RemovesNoLiveLock, RemovesOpened, Readers, LockInv, TypeOK
<1> QED BY <1>1, <1>2, <1>3, <1>4, <1>5

LEMMA EndLockInv ==
  ASSUME IInv, NEW p \in Procs, Release(p) \/ WriteFails(p) \/ Die(p)
  PROVE  LockInv'
<1> USE DEF IInv, Goes
<1>1. CASE Release(p)
  BY <1>1 DEF Release, TriesLeft, HeldIsWritten, CreatorFlock, ReaderOpened, ReaderFlock,
              RemovesNoLiveLock, RemovesOpened, Readers, LockInv, TypeOK
<1>2. CASE WriteFails(p)
  <2>1. failures' # 0
    BY <1>2, LockAssumption DEF WriteFails, TypeOK
  <2>2. CreatorFlock' /\ ReaderFlock'
    BY <1>2 DEF WriteFails, CreatorFlock, ReaderFlock, ReaderOpened, Readers, LockInv, Unlocked, TypeOK
  <2>3. TriesLeft' /\ HeldIsWritten' /\ ReaderOpened' /\ RemovesNoLiveLock'
    BY <1>2 DEF WriteFails, TriesLeft, HeldIsWritten, ReaderOpened, RemovesNoLiveLock,
                Readers, LockInv, TypeOK
  <2> QED BY <2>1, <2>2, <2>3 DEF LockInv, RemovesOpened
<1>3. CASE Die(p)
  <2>1. CreatorFlock' /\ ReaderFlock'
    BY <1>3 DEF Die, CreatorFlock, ReaderFlock, ReaderOpened, Readers, LockInv, Unlocked, TypeOK
  <2>2. TriesLeft' /\ HeldIsWritten' /\ ReaderOpened' /\ RemovesNoLiveLock' /\ RemovesOpened'
    BY <1>3 DEF Die, TriesLeft, HeldIsWritten, ReaderOpened, RemovesNoLiveLock,
                RemovesOpened, Readers, LockInv, TypeOK
  <2> QED BY <2>1, <2>2 DEF LockInv
<1> QED BY <1>1, <1>2, <1>3

LEMMA NextIInv == IInv /\ [Next]_vars => IInv'
<1> SUFFICES ASSUME IInv, [Next]_vars PROVE IInv'
  OBVIOUS
<1>1. TypeOK'
  BY NextTypeOK
<1>2. LockInv'
  <2>1. CASE UNCHANGED vars
    BY <2>1 DEF IInv, vars, LockInv, TriesLeft, HeldIsWritten, CreatorFlock, ReaderOpened,
                ReaderFlock, RemovesNoLiveLock, RemovesOpened
  <2>2. ASSUME NEW p \in Procs, OpenFails(p) \/ StatOther(p) \/ Unlink(p) PROVE LockInv'
    BY <2>2, LeaveLockInv DEF OpenFails, StatOther, Unlink
  <2>3. ASSUME NEW p \in Procs, Step(p) PROVE LockInv'
    BY <2>2, <2>3, CreatorLockInv, ReaderLockInv DEF Step
  <2> QED BY <2>1, <2>3, EndLockInv DEF Next
<1> QED BY <1>1, <1>2 DEF IInv

-----------------------------------------------------------------------------
(* The theorems.                                                           *)

\* The types hold, and with them the discipline of the flocks.
THEOREM LockCorrect == Spec => [](TypeOK /\ LockInv)
<1>1. Spec => []IInv
  BY InitIInv, NextIInv, PTL DEF Spec
<1> QED BY <1>1, PTL DEF IInv

\* A reader of _acquire_lock or _release_lock never removes the complete lock
\* file of another live process (the comparison in _unlink_if_same_file).
THEOREM LiveLocksStay == Spec => LiveLockKept
<1> DEFINE Kept == failures' = 0 =>
             \A p \in Procs : path = p /\ pc[p] = "held" => path' = p
<1>1. ASSUME IInv, [Next]_vars PROVE Kept
  <2> SUFFICES ASSUME failures' = 0, NEW p \in Procs, path = p, pc[p] = "held", path' # p
               PROVE  FALSE
    OBVIOUS
  <2>1. PICK q \in Procs : Create(q) \/ Unlink(q) \/ WriteFails(q)
    BY <1>1 DEF Next, Step, vars, CreateFails, FlockOwn, Write, Open, OpenFails, FlockOpened,
                ReadRemovable, ReadForeign, StatSame, StatOther, Release, Die
  <2>2. CASE Create(q)
    BY <2>2, LockAssumption DEF Create
  <2>3. CASE Unlink(q)
    BY <1>1, <2>3 DEF Unlink, IInv, LockInv, RemovesOpened, RemovesNoLiveLock, TypeOK
  <2>4. CASE WriteFails(q)
    BY <1>1, <2>4, LockAssumption DEF WriteFails, IInv, TypeOK
  <2> QED BY <2>1, <2>2, <2>3, <2>4
<1>2. Spec => [][Next]_vars /\ []IInv
  BY InitIInv, NextIInv, PTL DEF Spec
<1>3. IInv /\ [Next]_vars => [Kept]_vars
  BY <1>1
<1>4. Spec => [][Kept]_vars
  BY <1>2, <1>3, PTL
<1> QED BY <1>4 DEF LiveLockKept
=============================================================================
