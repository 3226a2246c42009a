----------------------------- MODULE ThumbnailCache -----------------------------
(***************************************************************************)
(* The API's cache of Immich thumbnails (immich_thumbnail_cache.py), for one      *)
(* photo and size: a picture and its metadata in two files, a lock that exists   *)
(* as long as a request refers to it, and the cleanup, which runs in a thread.    *)
(* Requests run in the event loop: what one does between two awaits is one step. *)
(***************************************************************************)
EXTENDS Integers, FiniteSets

CONSTANTS
  Requests,
  Locks,      \* lock objects that requests may refer to
  Contents,   \* what Immich may send
  TTL,        \* how long a picture is served without asking Immich
  Retention,  \* how long a file is kept
  Horizon,    \* bound: the time
  Nothing

CacheAssumption ==
  /\ IsFiniteSet(Requests) /\ Contents # {}
  /\ TTL \in Nat /\ Retention \in Nat /\ Horizon \in Nat
  /\ Nothing \notin Contents \cup Locks

VARIABLES
  now,
  picture,   \* the picture's file: its content, and when it was written
  meta,      \* its metadata: the tag of a content, and cached_at
  entry,     \* _locks[cache_key]: a lock and the number of its users
  at,        \* where each request is
  lockOf,    \* the lock that it took
  cleaning,  \* the cleanup: its start, the files it has not looked at, one to unlink
  torn       \* history: the cleanup removed a picture that requests may be served

vars == <<now, picture, meta, entry, at, lockOf, cleaning, torn>>

File(content)  == [content |-> content, written |-> now]
NoFile         == [content |-> Nothing, written |-> 0]
FileSet        == [content : Contents \cup {Nothing}, written : 0..Horizon]
NoEntry        == [lock |-> Nothing, users |-> 0]
Names          == {"picture", "meta"}
NotCleaning    == [start |-> -1, left |-> {}, doomed |-> "none"]

TypeOK ==
  /\ now \in 0..Horizon
  /\ picture \in FileSet /\ meta \in FileSet
  /\ entry \in [lock : Locks \cup {Nothing}, users : Nat]
  /\ at \in [Requests -> {"idle", "waiting", "fetching"}]
  /\ lockOf \in [Requests -> Locks \cup {Nothing}]
  /\ cleaning \in [start : -1..Horizon, left : SUBSET Names, doomed : Names \cup {"none"}]
  /\ torn \in BOOLEAN

\* A cache directory that is empty; what is left by earlier requests is reached from it.
Init ==
  /\ now = 0 /\ picture = NoFile /\ meta = NoFile
  /\ entry = NoEntry
  /\ at = [r \in Requests |-> "idle"] /\ lockOf = [r \in Requests |-> Nothing]
  /\ cleaning = NotCleaning /\ torn = FALSE

-----------------------------------------------------------------------------
(* Requests.                                                              *)

Exists(file) == file.content # Nothing
\* is_file for both, and cached_at.
Cached == Exists(picture) /\ Exists(meta) /\ now - meta.written < TTL

Holds(lock)   == \E r \in Requests : at[r] = "fetching" /\ lockOf[r] = lock
Awaited(lock) == \E r \in Requests : at[r] = "waiting" /\ lockOf[r] = lock

\* The lock of the entry, or a new one that nobody refers to.
LockToTake ==
  IF entry # NoEntry THEN {entry.lock}
  ELSE {lock \in Locks : \A r \in Requests : at[r] # "idle" => lockOf[r] # lock}

\* No valid cache: the request takes the lock, or waits for it.
Miss(r) == \E lock \in LockToTake :
  /\ at[r] = "idle" /\ ~Cached
  /\ entry' = [lock |-> lock, users |-> entry.users + 1]
  /\ lockOf' = [lockOf EXCEPT ![r] = lock]
  /\ at' = [at EXCEPT ![r] = IF Holds(lock) \/ Awaited(lock) THEN "waiting" ELSE "fetching"]
  /\ UNCHANGED <<now, picture, meta, cleaning, torn>>

\* The last user removes the entry.
Released == IF entry.users <= 1 THEN NoEntry ELSE [entry EXCEPT !.users = @ - 1]

Leave(r) ==
  /\ entry' = Released
  /\ at' = [at EXCEPT ![r] = "idle"] /\ lockOf' = [lockOf EXCEPT ![r] = Nothing]

\* A waiting request gets the lock and looks at the cache again.
Woken(r) ==
  /\ at[r] = "waiting" /\ ~Holds(lockOf[r])
  /\ IF Cached THEN Leave(r) ELSE at' = [at EXCEPT ![r] = "fetching"] /\ UNCHANGED <<entry, lockOf>>
  /\ UNCHANGED <<now, picture, meta, cleaning, torn>>

\* The client goes away, or Immich fails.
Aborted(r) ==
  /\ at[r] # "idle" /\ Leave(r)
  /\ UNCHANGED <<now, picture, meta, cleaning, torn>>

\* Mutant: the metadata is written before the picture.
WritesMetaFirst(content) ==
  \/ UNCHANGED <<picture, meta>>
  \/ meta' = File(content) /\ (picture' = File(content) \/ UNCHANGED picture)

\* The picture is replaced, then the metadata; an error (or the end of the process)
\* after either is only logged. An empty answer is not written.
Writes(content) ==
  \/ UNCHANGED <<picture, meta>>
  \/ picture' = File(content) /\ (meta' = File(content) \/ UNCHANGED meta)

Fetched(r) == \E content \in Contents :
  /\ at[r] = "fetching" /\ Writes(content) /\ Leave(r)
  /\ UNCHANGED <<now, cleaning, torn>>

\* The API ends, within a write or anywhere else.
Crash == \E content \in Contents :
  /\ (\E r \in Requests : at[r] = "fetching" /\ Writes(content)) \/ UNCHANGED <<picture, meta>>
  /\ entry' = NoEntry
  /\ at' = [r \in Requests |-> "idle"] /\ lockOf' = [r \in Requests |-> Nothing]
  /\ cleaning' = NotCleaning
  /\ UNCHANGED <<now, torn>>

-----------------------------------------------------------------------------
(* The cleanup: a look at each file, and after it the removal.                 *)

FileOf(name) == IF name = "picture" THEN picture ELSE meta

CleanupStarts ==
  /\ cleaning = NotCleaning
  /\ cleaning' = [start |-> now, left |-> Names, doomed |-> "none"]
  /\ UNCHANGED <<now, picture, meta, entry, at, lockOf, torn>>

Looks(name) ==
  /\ cleaning.start >= 0 /\ name \in cleaning.left /\ cleaning.doomed = "none"
  /\ cleaning' = [cleaning EXCEPT !.left = @ \ {name},
       !.doomed = IF Exists(FileOf(name)) /\ cleaning.start - FileOf(name).written > Retention
                  THEN name ELSE "none"]
  /\ UNCHANGED <<now, picture, meta, entry, at, lockOf, torn>>

\* The path is unlinked, whatever file it names by now.
Unlinks ==
  /\ cleaning.doomed # "none" /\ cleaning' = [cleaning EXCEPT !.doomed = "none"]
  /\ IF cleaning.doomed = "picture"
     THEN picture' = NoFile /\ torn' = (torn \/ Cached) /\ UNCHANGED meta
     ELSE meta' = NoFile /\ UNCHANGED <<picture, torn>>
  /\ UNCHANGED <<now, entry, at, lockOf>>

CleanupEnds ==
  /\ cleaning.start >= 0 /\ cleaning.left = {} /\ cleaning.doomed = "none"
  /\ cleaning' = NotCleaning
  /\ UNCHANGED <<now, picture, meta, entry, at, lockOf, torn>>

Tick ==
  /\ now < Horizon /\ now' = now + 1
  /\ UNCHANGED <<picture, meta, entry, at, lockOf, cleaning, torn>>

Next ==
  \/ \E r \in Requests : Miss(r) \/ Woken(r) \/ Aborted(r) \/ Fetched(r)
  \/ \E name \in Names : Looks(name)
  \/ CleanupStarts \/ Unlinks \/ CleanupEnds \/ Crash \/ Tick

Spec == Init /\ [][Next]_vars

-----------------------------------------------------------------------------
(* At most one request asks Immich for the photo, however many come, leave while *)
(* they wait, and come again while the lock is being released: a picture that is *)
(* not cached is loaded once.                                                *)
OneFetch ==
  \A r, q \in Requests : at[r] = "fetching" /\ at[q] = "fetching" => r = q

(* Whenever the cache answers, the tag and the type it sends belong to the picture *)
(* it sends: neither an end between the two writes nor the cleanup mixes them,   *)
(* unless the cleanup has removed a picture that was written after its look.    *)
TagMatchesPicture ==
  Cached /\ ~torn => meta.content = picture.content
================================================================================
