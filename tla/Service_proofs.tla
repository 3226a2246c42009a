----------------------------- MODULE Service_proofs -----------------------------
(***************************************************************************)
(* What the parts of Service keep, for any number of requests, rows and          *)
(* processes. Each part has an inductive invariant of its own variables; a step   *)
(* of Service is one of each part, or leaves that part alone.                   *)
(***************************************************************************)
EXTENDS Service, FiniteSetTheorems, WellFoundedInduction, TLAPS

-----------------------------------------------------------------------------
(* A step is one of each part, or leaves that part alone.                     *)

LEMMA StepOfEach ==
  ASSUME [Next]_vars
  PROVE  /\ Calendar!Next \/ UNCHANGED calendarVars
         /\ Shop!Next \/ UNCHANGED shopVars
         /\ Client!Next \/ UNCHANGED clientVars
         /\ Cache!Next \/ UNCHANGED cacheVars
         /\ Bot!Next \/ UNCHANGED botVars
         /\ Vault!Next \/ UNCHANGED vaultVars
         /\ Boot!Next \/ UNCHANGED bootVars
         /\ Daemon!Next \/ UNCHANGED daemonVars
BY DEF vars, webVars, otherVars, Next, CalendarMoves, ShopMoves, ClientMoves, CacheMoves, BotMoves,
       VaultMoves, BootMoves, DaemonMoves

-----------------------------------------------------------------------------
(* ThumbnailCache. The requests in flight share one lock, which the entry names    *)
(* and counts: so one of them fetches. It fetches only while the cache does not   *)
(* answer, and then the metadata are missing or too old: what it writes, up to    *)
(* either point, is an answer only when both files are its own.                 *)

InFlight == {r \in Readers : at[r] # "idle"}
MetaFresh == Cache!Exists(meta) /\ now - meta.written < TTL

OneLock ==
  /\ entry.users = Cardinality(InFlight)
  /\ entry # Cache!NoEntry <=> entry.lock # Nothing
  /\ \A r \in InFlight : entry.lock # Nothing /\ lockOf[r] = entry.lock
FetchesUncached == \A r \in Readers : at[r] = "fetching" => ~Cache!Cached
FreshMetaMatches ==
  ~torn /\ MetaFresh => Cache!Exists(picture) /\ meta.content = picture.content

CacheInv ==
  /\ Cache!TypeOK /\ OneLock /\ Cache!OneFetch /\ FetchesUncached /\ FreshMetaMatches

LEMMA ReadersFinite == IsFiniteSet(Readers)
BY ServiceAssumption DEF Cache!CacheAssumption, Cache!IsFiniteSet, IsFiniteSet

USE DEF Cache!NoEntry, Cache!NoFile, Cache!File, Cache!Exists

LEMMA CacheInit == Cache!Init => CacheInv
<1> SUFFICES ASSUME Cache!Init PROVE CacheInv
  OBVIOUS
<1> USE ServiceAssumption DEF Cache!Init, Cache!CacheAssumption
<1>1. Cache!TypeOK
  <2>1. 0 \in 0..Horizon /\ -1 \in -1..Horizon
    OBVIOUS
  <2> QED BY <2>1 DEF Cache!TypeOK, Cache!FileSet, Cache!NotCleaning, Cache!Names
<1>2. OneLock
  <2>1. InFlight = {}
    BY DEF InFlight
  <2> QED BY <2>1, FS_EmptySet DEF OneLock
<1>3. Cache!OneFetch /\ FetchesUncached /\ FreshMetaMatches
  BY DEF Cache!OneFetch, FetchesUncached, FreshMetaMatches, MetaFresh
<1> QED BY <1>1, <1>2, <1>3 DEF CacheInv

LEMMA CacheTypes == Cache!TypeOK /\ Cache!Next => Cache!TypeOK'
<1> SUFFICES ASSUME Cache!TypeOK, Cache!Next PROVE Cache!TypeOK'
  OBVIOUS
<1> USE ServiceAssumption DEF Cache!TypeOK, Cache!CacheAssumption
<1>1. ASSUME NEW r \in Readers, Cache!Miss(r) PROVE Cache!TypeOK'
  BY <1>1 DEF Cache!Miss, Cache!LockToTake
<1>2. ASSUME NEW r \in Readers, Cache!Woken(r) PROVE Cache!TypeOK'
  BY <1>2 DEF Cache!Woken, Cache!Leave, Cache!Released
<1>3. ASSUME NEW r \in Readers, Cache!Aborted(r) PROVE Cache!TypeOK'
  BY <1>3 DEF Cache!Aborted, Cache!Leave, Cache!Released
<1>4. ASSUME NEW content \in Contents, Cache!Writes(content) \/ UNCHANGED <<picture, meta>>
      PROVE picture' \in Cache!FileSet /\ meta' \in Cache!FileSet
  BY <1>4 DEF Cache!Writes, Cache!FileSet
<1>5. ASSUME NEW r \in Readers, Cache!Fetched(r) PROVE Cache!TypeOK'
  BY <1>4, <1>5 DEF Cache!Fetched, Cache!Leave, Cache!Released, Cache!FileSet
<1>6. CASE Cache!Crash
  BY <1>4, <1>6 DEF Cache!Crash, Cache!NotCleaning, Cache!FileSet
<1>7. ASSUME NEW name \in Cache!Names, Cache!Looks(name) PROVE Cache!TypeOK'
  BY <1>7 DEF Cache!Looks
<1>8. CASE Cache!CleanupStarts
  BY <1>8 DEF Cache!CleanupStarts
<1>9. CASE Cache!Unlinks
  <2>1. cleaning' \in [start : -1..Horizon, left : SUBSET Cache!Names, doomed : Cache!Names \cup {"none"}]
    BY <1>9 DEF Cache!Unlinks
  <2>2. torn' \in BOOLEAN
    BY <1>9, Zenon DEF Cache!Unlinks
  <2>3. picture' \in Cache!FileSet /\ meta' \in Cache!FileSet
    BY <1>9 DEF Cache!Unlinks, Cache!FileSet
  <2> QED BY <1>9, <2>1, <2>2, <2>3 DEF Cache!Unlinks
<1>10. CASE Cache!CleanupEnds
  BY <1>10 DEF Cache!CleanupEnds, Cache!NotCleaning
<1>11. CASE Cache!Tick
  BY <1>11 DEF Cache!Tick
<1> QED BY <1>1, <1>2, <1>3, <1>5, <1>6, <1>7, <1>8, <1>9, <1>10, <1>11 DEF Cache!Next

\* One more request in flight, one less, or none.
LEMMA JoinsLock ==
  ASSUME CacheInv, NEW r \in Readers, Cache!Miss(r)
  PROVE  OneLock'
<1> USE ServiceAssumption DEF Cache!CacheAssumption
<1> PICK lock \in Cache!LockToTake : Cache!Miss(r)!(lock)
  BY DEF Cache!Miss
<1>1. lock \in Locks /\ lock # Nothing /\ \A q \in InFlight : lockOf[q] = lock
  BY DEF CacheInv, OneLock, Cache!LockToTake, Cache!TypeOK, InFlight
<1>2. InFlight' = InFlight \cup {r} /\ r \notin InFlight
  BY DEF InFlight, CacheInv, Cache!TypeOK
<1>3. Cardinality(InFlight') = Cardinality(InFlight) + 1
  BY <1>2, ReadersFinite, FS_Subset, FS_AddElement DEF InFlight
<1>4. entry'.users = Cardinality(InFlight') /\ entry'.lock = lock
  BY <1>3 DEF CacheInv, OneLock
<1>5. entry' # Cache!NoEntry
  BY <1>1, <1>4
<1>6. \A q \in InFlight' : lockOf'[q] = lock
  BY <1>1, <1>2 DEF CacheInv, Cache!TypeOK, InFlight
<1> QED BY <1>1, <1>4, <1>5, <1>6 DEF OneLock

LEMMA LeavesLock ==
  ASSUME CacheInv, NEW r \in InFlight, Cache!Leave(r)
  PROVE  OneLock' /\ Cache!OneFetch' /\ InFlight' = InFlight \ {r}
<1> USE ServiceAssumption DEF Cache!CacheAssumption
<1>1. InFlight' = InFlight \ {r} /\ at' = [at EXCEPT ![r] = "idle"]
  BY DEF InFlight, CacheInv, Cache!TypeOK, Cache!Leave
<1>2. IsFiniteSet(InFlight) /\ Cardinality(InFlight) \in Nat
  BY ReadersFinite, FS_Subset, FS_CardinalityType DEF InFlight
<1>3. Cardinality(InFlight') = Cardinality(InFlight) - 1 /\ IsFiniteSet(InFlight')
  BY <1>1, <1>2, FS_RemoveElement
<1>4. Cardinality(InFlight') \in Nat
  BY <1>3, FS_CardinalityType
<1>5. Cache!OneFetch'
  BY <1>1 DEF CacheInv, Cache!TypeOK, Cache!OneFetch, InFlight
<1>6. CASE entry.users <= 1
  <2>1. InFlight' = {} /\ Cardinality(InFlight') = 0
    BY <1>2, <1>3, <1>4, <1>6, FS_EmptySet DEF CacheInv, OneLock
  <2>2. entry' = Cache!NoEntry
    BY <1>6 DEF Cache!Leave, Cache!Released
  <2> QED BY <1>1, <1>5, <2>1, <2>2 DEF OneLock
<1>7. CASE ~(entry.users <= 1)
  <2>1. entry' = [entry EXCEPT !.users = @ - 1]
    BY <1>7 DEF Cache!Leave, Cache!Released
  <2>2. entry'.users = Cardinality(InFlight') /\ entry'.lock = entry.lock
    BY <1>3, <2>1 DEF CacheInv, OneLock, Cache!TypeOK
  <2>3. entry.lock # Nothing
    BY DEF CacheInv, OneLock
  <2>4. \A q \in InFlight' : lockOf'[q] = entry.lock
    BY <1>1 DEF CacheInv, OneLock, Cache!Leave, Cache!TypeOK, InFlight
  <2> QED BY <1>1, <1>5, <2>2, <2>3, <2>4 DEF OneLock
<1> QED BY <1>6, <1>7

\* What a request writes, up to either point.
LEMMA WritesMatch ==
  ASSUME CacheInv, NEW r \in Readers, at[r] = "fetching",
         NEW content \in Contents, Cache!Writes(content), UNCHANGED <<now, torn>>
  PROVE  FreshMetaMatches'
<1>1. ~torn => ~MetaFresh
  BY DEF CacheInv, FetchesUncached, FreshMetaMatches, MetaFresh, Cache!Cached
<1>2. content # Nothing
  BY ServiceAssumption DEF Cache!CacheAssumption
<1> QED BY <1>1, <1>2 DEF Cache!Writes, FreshMetaMatches, MetaFresh, CacheInv

LEMMA CacheStep == CacheInv /\ Cache!Next => CacheInv'
<1> SUFFICES ASSUME CacheInv, Cache!Next PROVE CacheInv'
  OBVIOUS
<1>0. Cache!TypeOK'
  BY CacheTypes DEF CacheInv
<1> DEFINE Kept == OneLock' /\ Cache!OneFetch' /\ FetchesUncached' /\ FreshMetaMatches'
<1> SUFFICES Kept
  BY <1>0 DEF CacheInv
<1>1. ASSUME NEW r \in Readers, Cache!Miss(r) PROVE Kept
  <2>1. PICK lock \in Cache!LockToTake : Cache!Miss(r)!(lock)
    BY <1>1 DEF Cache!Miss
  <2>2. at'[r] = "fetching" => \A q \in Readers : at[q] # "fetching"
    <3>1. \A q \in InFlight : lockOf[q] = lock
      BY <2>1 DEF CacheInv, OneLock, Cache!LockToTake, InFlight
    <3> QED BY <2>1, <3>1 DEF Cache!Holds, InFlight, CacheInv, Cache!TypeOK
  <2>3. Cache!OneFetch'
    BY <2>1, <2>2 DEF CacheInv, Cache!OneFetch, Cache!TypeOK
  <2>4. FetchesUncached' /\ FreshMetaMatches'
    BY <2>1 DEF CacheInv, FetchesUncached, FreshMetaMatches, MetaFresh, Cache!TypeOK, Cache!Cached
  <2> QED BY <1>1, <2>3, <2>4, JoinsLock
<1>2. ASSUME NEW r \in Readers, Cache!Woken(r) PROVE Kept
  <2>1. FreshMetaMatches' /\ (Cache!Cached <=> Cache!Cached')
    BY <1>2 DEF Cache!Woken, CacheInv, FreshMetaMatches, MetaFresh, Cache!Cached
  <2>2. CASE Cache!Cached
    <3>1. Cache!Leave(r) /\ r \in InFlight
      BY <1>2, <2>2 DEF Cache!Woken, InFlight
    <3>2. FetchesUncached'
      BY <2>1, <3>1 DEF CacheInv, FetchesUncached, Cache!Leave, Cache!TypeOK
    <3> QED BY <2>1, <3>1, <3>2, LeavesLock
  <2>3. CASE ~Cache!Cached
    <3>1. at' = [at EXCEPT ![r] = "fetching"] /\ UNCHANGED <<entry, lockOf>>
      BY <1>2, <2>3 DEF Cache!Woken
    <3>2. InFlight' = InFlight
      BY <1>2, <3>1 DEF InFlight, Cache!Woken, CacheInv, Cache!TypeOK
    <3>3. \A q \in Readers : at[q] # "fetching"
      BY <1>2 DEF Cache!Woken, Cache!Holds, CacheInv, OneLock, InFlight
    <3>4. Cache!OneFetch' /\ FetchesUncached'
      BY <2>1, <2>3, <3>1, <3>3 DEF CacheInv, Cache!OneFetch, FetchesUncached, Cache!TypeOK
    <3>5. OneLock'
      BY <3>1, <3>2 DEF CacheInv, OneLock
    <3> QED BY <2>1, <3>4, <3>5
  <2> QED BY <2>2, <2>3
<1>3. ASSUME NEW r \in Readers, Cache!Aborted(r) PROVE Kept
  <2>1. Cache!Leave(r) /\ r \in InFlight /\ UNCHANGED <<now, picture, meta, torn>>
    BY <1>3 DEF Cache!Aborted, InFlight
  <2>2. FetchesUncached' /\ FreshMetaMatches'
    BY <2>1 DEF Cache!Leave, CacheInv, FetchesUncached, FreshMetaMatches, MetaFresh,
                Cache!Cached, Cache!TypeOK
  <2> QED BY <2>1, <2>2, LeavesLock
<1>4. ASSUME NEW r \in Readers, Cache!Fetched(r) PROVE Kept
  <2>1. PICK content \in Contents : Cache!Fetched(r)!(content)
    BY <1>4 DEF Cache!Fetched
  <2>2. FreshMetaMatches'
    BY <2>1, WritesMatch
  <2>3. \A q \in Readers : at'[q] # "fetching"
    BY <2>1 DEF Cache!Leave, CacheInv, Cache!OneFetch, Cache!TypeOK
  <2> QED BY <2>1, <2>2, <2>3, LeavesLock DEF FetchesUncached, InFlight
<1>5. CASE Cache!Crash
  <2>1. PICK content \in Contents : Cache!Crash!(content)
    BY <1>5 DEF Cache!Crash
  <2>2. FreshMetaMatches'
    <3>1. CASE UNCHANGED <<picture, meta>>
      BY <2>1, <3>1 DEF CacheInv, FreshMetaMatches, MetaFresh
    <3> QED BY <2>1, <3>1, WritesMatch
  <2>3. InFlight' = {} /\ entry' = Cache!NoEntry
    BY <2>1 DEF InFlight
  <2>4. Cache!OneFetch' /\ FetchesUncached'
    BY <2>1 DEF Cache!OneFetch, FetchesUncached
  <2> QED BY <2>2, <2>3, <2>4, FS_EmptySet DEF OneLock
<1>6. ASSUME UNCHANGED <<entry, at, lockOf>>,
             Cache!Cached' => Cache!Cached, FreshMetaMatches'
      PROVE Kept
  BY <1>6 DEF CacheInv, OneLock, InFlight, Cache!OneFetch, FetchesUncached
<1>7. CASE (\E name \in Cache!Names : Cache!Looks(name)) \/ Cache!CleanupStarts \/ Cache!CleanupEnds
  <2>1. UNCHANGED <<now, picture, meta, entry, at, lockOf, torn>>
    BY <1>7 DEF Cache!Looks, Cache!CleanupStarts, Cache!CleanupEnds
  <2> QED BY <1>6, <2>1 DEF Cache!Cached, CacheInv, FreshMetaMatches, MetaFresh
<1>8. CASE Cache!Unlinks
  <2>1. CASE cleaning.doomed = "picture"
    <3>1. picture' = Cache!NoFile /\ torn' = (torn \/ Cache!Cached)
          /\ UNCHANGED <<now, meta, entry, at, lockOf>>
      BY <1>8, <2>1 DEF Cache!Unlinks
    <3>2. ~Cache!Cached'
      BY <3>1 DEF Cache!Cached
    <3>3. FreshMetaMatches'
      BY <3>1 DEF CacheInv, FreshMetaMatches, MetaFresh, Cache!Cached
    <3> QED BY <1>6, <3>1, <3>2, <3>3
  <2>2. CASE cleaning.doomed # "picture"
    BY <1>6, <1>8, <2>2 DEF Cache!Unlinks, Cache!Cached, FreshMetaMatches, MetaFresh
  <2> QED BY <2>1, <2>2
<1>9. CASE Cache!Tick
  <2>1. now' = now + 1 /\ now \in Nat /\ meta.written \in Int
        /\ UNCHANGED <<picture, meta, entry, at, lockOf, torn>>
    BY <1>9, ServiceAssumption DEF Cache!Tick, CacheInv, Cache!TypeOK, Cache!FileSet, Cache!CacheAssumption
  <2>2. TTL \in Nat
    BY ServiceAssumption DEF Cache!CacheAssumption
  <2>3. now' - meta.written < TTL => now - meta.written < TTL
    BY <2>1, <2>2
  <2> QED BY <1>6, <2>1, <2>3 DEF Cache!Cached, CacheInv, FreshMetaMatches, MetaFresh
<1> QED BY <1>1, <1>2, <1>3, <1>4, <1>5, <1>7, <1>8, <1>9 DEF Cache!Next

LEMMA CacheRests == CacheInv /\ UNCHANGED cacheVars => CacheInv'
BY DEF cacheVars, CacheInv, Cache!TypeOK, OneLock, InFlight, Cache!OneFetch, FetchesUncached,
       FreshMetaMatches, MetaFresh, Cache!Cached

LEMMA CacheSafe == Spec => []CacheInv
<1>1. Init => CacheInv
  BY CacheInit DEF Init
<1>2. CacheInv /\ [Next]_vars => CacheInv'
  BY StepOfEach, CacheStep, CacheRests
<1> QED BY <1>1, <1>2, PTL DEF Spec

(* Tag and picture of an answer from the cache belong together, for any number of   *)
(* requests that come, wait, give up or die and whatever the cleanup removes.      *)
THEOREM TagAndPictureMatch == Spec => []TagMatchesPicture
<1>1. CacheInv => TagMatchesPicture
  BY DEF CacheInv, FreshMetaMatches, MetaFresh, TagMatchesPicture, Cache!TagMatchesPicture, Cache!Cached
<1> QED BY <1>1, CacheSafe, PTL

(* One request at a time asks Immich for a photo.                              *)
THEOREM OneRequestFetches == Spec => []Cache!OneFetch
<1>1. CacheInv => Cache!OneFetch
  BY DEF CacheInv
<1> QED BY <1>1, CacheSafe, PTL

-----------------------------------------------------------------------------
(* AgentDaemon. Processes that run have start times of their own, and no process   *)
(* but a daemon has the one of the metadata: what a command has checked is a       *)
(* daemon or nobody, until the PID changes hands.                              *)

BirthsDiffer ==
  /\ \A p \in Pids : process[p].born <= births /\ (Daemon!Alive(p) => process[p].born # 0)
  /\ \A p, q \in Pids : Daemon!Alive(p) /\ process[q].born = process[p].born => p = q
MetadataOfDaemon ==
  metadata \in 0..births /\ \A p \in Pids : process[p].kind = "other" => process[p].born # metadata
StopNamesPid == \A s \in Stops : stop[s].stage # "idle" => stop[s].pid \in Pids
ChecksHold ==
  ~reused => \A s \in Stops : stop[s].stage \in {"checked", "told"} => process[stop[s].pid].kind # "other"

DaemonInv ==
  /\ Daemon!TypeOK /\ BirthsDiffer /\ MetadataOfDaemon /\ StopNamesPid /\ ChecksHold
  /\ Daemon!OnlyDaemonsSignalled

LEMMA DaemonInit == Daemon!Init => DaemonInv
<1> SUFFICES ASSUME Daemon!Init PROVE DaemonInv
  OBVIOUS
<1> USE ServiceAssumption DEF Daemon!DaemonAssumption, Daemon!Init, Daemon!None, Daemon!NoStop
<1>1. Daemon!TypeOK
  <2>1. 0 \in 0..MaxBirths
    OBVIOUS
  <2> QED BY <2>1 DEF Daemon!TypeOK, Daemon!Missing
<1>2. BirthsDiffer /\ MetadataOfDaemon
  BY DEF BirthsDiffer, MetadataOfDaemon, Daemon!Alive, Daemon!Missing
<1>3. StopNamesPid /\ ChecksHold /\ Daemon!OnlyDaemonsSignalled
  BY DEF StopNamesPid, ChecksHold, Daemon!OnlyDaemonsSignalled
<1> QED BY <1>1, <1>2, <1>3 DEF DaemonInv

\* A process that starts.
LEMMA BirthKeeps ==
  ASSUME DaemonInv, NEW p \in Pids, NEW kind \in {"other", "starting"}, Daemon!Born(p, kind),
         UNCHANGED <<told, pidFile, metadata, queued, stop, killed>>
  PROVE  DaemonInv'
<1> USE DEF DaemonInv, Daemon!Born
<1> DEFINE new == [kind |-> kind, born |-> births + 1]
<1>0. /\ births \in Nat /\ births + 1 \in 0..MaxBirths /\ births' = births + 1
      /\ process' = [process EXCEPT ![p] = new]
  BY ServiceAssumption DEF Daemon!DaemonAssumption, Daemon!TypeOK
<1>1. Daemon!TypeOK'
  <2>1. new \in [kind : Daemon!Daemons \cup {"other", "none"}, born : 0..MaxBirths]
    BY <1>0 DEF Daemon!Daemons
  <2>2. reused' \in BOOLEAN
    BY Zenon
  <2> QED BY <1>0, <2>1, <2>2 DEF Daemon!TypeOK
<1>2. \A q \in Pids : process'[q] = IF q = p THEN new ELSE process[q]
  BY <1>0 DEF Daemon!TypeOK
<1>3. \A q \in Pids : process[q].born \in Nat
  BY DEF Daemon!TypeOK
<1>4. BirthsDiffer'
  <2>1. \A q \in Pids : process[q].born # births + 1
    BY <1>0, <1>3 DEF BirthsDiffer
  <2>2. \A q \in Pids : process'[q].born <= births' /\ (process'[q].kind # "none" => process'[q].born # 0)
    BY <1>0, <1>2, <1>3 DEF BirthsDiffer, Daemon!Alive
  <2>3. ASSUME NEW q \in Pids, NEW o \in Pids, process'[q].kind # "none",
               process'[o].born = process'[q].born
        PROVE  q = o
    BY <1>0, <1>2, <2>1, <2>3 DEF BirthsDiffer, Daemon!Alive
  <2> QED BY <2>2, <2>3 DEF BirthsDiffer, Daemon!Alive
<1>5. MetadataOfDaemon'
  BY <1>0, <1>2 DEF MetadataOfDaemon
<1>6. StopNamesPid' /\ Daemon!OnlyDaemonsSignalled'
  BY DEF StopNamesPid, Daemon!OnlyDaemonsSignalled
<1>7. ChecksHold'
  BY <1>2 DEF ChecksHold, StopNamesPid
<1> QED BY <1>1, <1>4, <1>5, <1>6, <1>7

\* No process becomes another one, and the metadata name none, the same or a daemon.
LEMMA NobodyIsBorn ==
  ASSUME DaemonInv, UNCHANGED <<births, reused>>,
         \A q \in Pids : /\ process'[q].born \in {process[q].born, 0}
                         /\ process'[q].kind # "none" =>
                              Daemon!Alive(q) /\ process'[q].born = process[q].born
                         /\ process'[q].kind = "other" => process[q].kind = "other",
         \/ metadata' \in {metadata, 0}
         \/ \E p \in Pids : process[p].kind \in Daemon!Daemons /\ metadata' = process[p].born
  PROVE  BirthsDiffer' /\ MetadataOfDaemon'
<1> USE DEF DaemonInv
<1>1. births \in Nat /\ \A q \in Pids : process[q].born \in Nat
  BY ServiceAssumption DEF Daemon!DaemonAssumption, Daemon!TypeOK
<1>2. BirthsDiffer'
  BY <1>1 DEF BirthsDiffer, Daemon!Alive
<1>3. CASE metadata' \in {metadata, 0}
  BY <1>1, <1>3 DEF MetadataOfDaemon, BirthsDiffer, Daemon!Alive
<1>4. ASSUME NEW p \in Pids, process[p].kind \in Daemon!Daemons, metadata' = process[p].born
      PROVE  MetadataOfDaemon'
  <2>1. Daemon!Alive(p) /\ process[p].kind # "other"
    BY <1>4 DEF Daemon!Daemons, Daemon!Alive
  <2>2. \A q \in Pids : process'[q].kind = "other" => process'[q].born # metadata'
    BY <1>4, <2>1 DEF BirthsDiffer
  <2>3. metadata' \in 0..births'
    BY <1>1, <1>4 DEF BirthsDiffer
  <2> QED BY <2>2, <2>3 DEF MetadataOfDaemon
<1> QED BY <1>2, <1>3, <1>4

\* A process that names itself, is ready, ends or is killed.
LEMMA ProcessKeeps ==
  ASSUME DaemonInv, NEW p \in Pids,
         \/ Daemon!Exits(p) \/ Daemon!Names(p) \/ Daemon!Ready(p) \/ Daemon!TimesOut(p)
         \/ Daemon!Drained(p) \/ Daemon!RemovesName(p) \/ Daemon!RemovesMetadata(p)
  PROVE  DaemonInv'
<1> USE DEF DaemonInv, Daemon!Exits, Daemon!Names, Daemon!Ready, Daemon!TimesOut, Daemon!Drained,
            Daemon!RemovesName, Daemon!RemovesMetadata
<1>1. UNCHANGED <<births, queued, stop, killed, reused>>
  OBVIOUS
<1>2. \/ process' = [process EXCEPT ![p] = Daemon!None]
      \/ \E kind \in (Daemon!Daemons \cup {"none"}) :
           process[p].kind \in Daemon!Daemons /\ process' = [process EXCEPT ![p].kind = kind]
  BY DEF Daemon!Is, Daemon!Becomes, Daemon!Daemons
<1>3. process' \in [Pids -> [kind : Daemon!Daemons \cup {"other", "none"}, born : 0..MaxBirths]]
  <2>1. Daemon!None \in [kind : Daemon!Daemons \cup {"other", "none"}, born : 0..MaxBirths]
    BY ServiceAssumption DEF Daemon!DaemonAssumption, Daemon!None
  <2> QED BY <1>2, <2>1 DEF Daemon!TypeOK
<1>4. told' \subseteq Pids /\ pidFile' \in Pids \cup {Nobody}
  BY DEF Daemon!TypeOK
<1>5. \/ metadata' \in {metadata, 0}
      \/ process[p].kind \in Daemon!Daemons /\ metadata' = process[p].born
  BY DEF Daemon!Is, Daemon!Daemons, Daemon!Missing
<1>6. metadata' \in 0..MaxBirths
  BY <1>5, ServiceAssumption DEF Daemon!TypeOK, Daemon!DaemonAssumption
<1>7. Daemon!TypeOK'
  BY <1>1, <1>3, <1>4, <1>6 DEF Daemon!TypeOK
<1>8. \A q \in Pids : /\ process'[q].born \in {process[q].born, 0}
                      /\ process'[q].kind # "none" =>
                           Daemon!Alive(q) /\ process'[q].born = process[q].born
                      /\ process'[q].kind = "other" => process[q].kind = "other"
  BY <1>2 DEF Daemon!TypeOK, Daemon!None, Daemon!Alive, Daemon!Daemons
<1>9. BirthsDiffer' /\ MetadataOfDaemon'
  BY <1>1, <1>5, <1>8, NobodyIsBorn
<1>10. StopNamesPid' /\ Daemon!OnlyDaemonsSignalled'
  BY <1>1 DEF StopNamesPid, Daemon!OnlyDaemonsSignalled
<1>11. ChecksHold'
  BY <1>1, <1>8 DEF ChecksHold, StopNamesPid
<1> QED BY <1>7, <1>9, <1>10, <1>11

\* A step of a command: its own stage, and what it removes.
LEMMA StopTypes ==
  ASSUME DaemonInv, NEW s \in Stops,
         NEW new \in [stage : {"idle", "read", "checked", "told", "unlinking"},
                      pid : Pids \cup {Nobody}, born : 0..MaxBirths],
         stop' = [stop EXCEPT ![s] = new], new.stage # "idle" => new.pid \in Pids,
         killed' \in BOOLEAN, UNCHANGED <<births, queued, reused>>,
         \/ UNCHANGED <<process, told>>
         \/ \E p \in Pids : process' = [process EXCEPT ![p] = Daemon!None] /\ told' = told \ {p}
         \/ \E p \in Pids : process' = process /\ told' = told \cup {p},
         pidFile' \in {pidFile, Nobody}, metadata' \in {metadata, 0}
  PROVE  Daemon!TypeOK' /\ StopNamesPid' /\ BirthsDiffer' /\ MetadataOfDaemon'
<1> USE DEF DaemonInv
<1>1. metadata' \in 0..MaxBirths /\ Daemon!None \in [kind : {"none"}, born : 0..MaxBirths]
  BY ServiceAssumption DEF Daemon!TypeOK, Daemon!DaemonAssumption, Daemon!None
<1>2. process' \in [Pids -> [kind : Daemon!Daemons \cup {"other", "none"}, born : 0..MaxBirths]]
  BY <1>1 DEF Daemon!TypeOK
<1>3. Daemon!TypeOK'
  BY <1>1, <1>2 DEF Daemon!TypeOK
<1>4. StopNamesPid'
  BY DEF StopNamesPid, Daemon!TypeOK
<1>5. \A q \in Pids : /\ process'[q].born \in {process[q].born, 0}
                      /\ process'[q].kind # "none" =>
                           Daemon!Alive(q) /\ process'[q].born = process[q].born
                      /\ process'[q].kind = "other" => process[q].kind = "other"
  BY DEF Daemon!TypeOK, Daemon!None, Daemon!Alive
<1> QED BY <1>3, <1>4, <1>5, NobodyIsBorn

LEMMA StopKeeps ==
  ASSUME DaemonInv, NEW s \in Stops,
         \/ Daemon!StopReads(s) \/ Daemon!StopChecks(s) \/ Daemon!StopTells(s)
         \/ Daemon!StopKills(s) \/ Daemon!StopSeesEnd(s) \/ Daemon!StopUnlinks(s)
  PROVE  DaemonInv'
<1> USE DEF DaemonInv
<1> DEFINE Records == [stage : {"idle", "read", "checked", "told", "unlinking"},
                       pid : Pids \cup {Nobody}, born : 0..MaxBirths]
<1>1. /\ Daemon!NoStop \in Records /\ 0 \in 0..MaxBirths
      /\ stop[s] \in Records /\ (stop[s].stage # "idle" => stop[s].pid \in Pids)
  BY ServiceAssumption DEF Daemon!NoStop, Daemon!DaemonAssumption, Daemon!TypeOK, StopNamesPid
<1>2. ASSUME NEW goal \in {"checked", "told", "unlinking"}, Daemon!Stage(s, goal)
      PROVE  \E new \in Records : /\ stop' = [stop EXCEPT ![s] = new]
                                  /\ new.stage = goal /\ new.pid = stop[s].pid
  <2> DEFINE to == [stop[s] EXCEPT !.stage = goal]
  <2>1. to \in Records /\ to.stage = goal /\ to.pid = stop[s].pid
    BY <1>1
  <2>2. stop' = [stop EXCEPT ![s] = to]
    BY <1>2 DEF Daemon!Stage
  <2> QED BY <2>1, <2>2
<1>3. ASSUME Daemon!Ends(s)
      PROVE  stop' = [stop EXCEPT ![s] = Daemon!NoStop] /\ Daemon!NoStop.stage = "idle"
  BY <1>3 DEF Daemon!Ends, Daemon!NoStop
<1>4. CASE Daemon!StopReads(s)
  <2>1. PICK new \in Records : /\ stop' = [stop EXCEPT ![s] = new] /\ new.pid \in Pids
                               /\ new.stage \in {"read", "unlinking"}
    <3> DEFINE new == [stage |-> IF Daemon!Alive(pidFile) THEN "read" ELSE "unlinking",
                       pid |-> pidFile, born |-> 0]
    <3>1. new \in Records /\ new.pid \in Pids /\ new.stage \in {"read", "unlinking"}
      BY <1>1, <1>4 DEF Daemon!StopReads, Daemon!TypeOK
    <3>2. stop' = [stop EXCEPT ![s] = new]
      BY <1>4 DEF Daemon!StopReads
    <3> QED BY <3>1, <3>2
  <2>2. UNCHANGED <<process, births, told, pidFile, metadata, queued, killed, reused>>
    BY <1>4 DEF Daemon!StopReads
  <2>3. Daemon!TypeOK' /\ StopNamesPid' /\ BirthsDiffer' /\ MetadataOfDaemon'
    BY <2>1, <2>2, StopTypes DEF Daemon!TypeOK
  <2>4. ChecksHold' /\ Daemon!OnlyDaemonsSignalled'
    BY <2>1, <2>2 DEF ChecksHold, Daemon!OnlyDaemonsSignalled, Daemon!TypeOK
  <2> QED BY <2>3, <2>4
<1>5. CASE Daemon!StopChecks(s)
  <2>1. UNCHANGED <<process, births, told, pidFile, metadata, queued, killed, reused>>
    BY <1>5 DEF Daemon!StopChecks
  <2>2. PICK new \in Records : stop' = [stop EXCEPT ![s] = new]
          /\ \/ new.stage = "idle"
             \/ new.stage = "checked" /\ new.pid = stop[s].pid /\ Daemon!Verified(s)
    BY <1>1, <1>2, <1>3, <1>5 DEF Daemon!StopChecks
  <2>3. stop[s].pid \in Pids
    BY <1>1, <1>5 DEF Daemon!StopChecks
  <2>4. Daemon!TypeOK' /\ StopNamesPid' /\ BirthsDiffer' /\ MetadataOfDaemon'
    BY <2>1, <2>2, <2>3, StopTypes DEF Daemon!TypeOK
  <2>5. Daemon!Verified(s) => process[stop[s].pid].kind # "other"
    BY <2>3 DEF Daemon!Verified, MetadataOfDaemon, Daemon!Alive
  <2>6. ChecksHold' /\ Daemon!OnlyDaemonsSignalled'
    BY <2>1, <2>2, <2>5 DEF ChecksHold, Daemon!OnlyDaemonsSignalled, Daemon!TypeOK
  <2> QED BY <2>4, <2>6
<1>6. ASSUME stop[s].stage \in {"checked", "told"}, Daemon!Strays(s), UNCHANGED reused
      PROVE  Daemon!OnlyDaemonsSignalled' /\ killed' \in BOOLEAN
  BY <1>6 DEF Daemon!Strays, Daemon!Is, ChecksHold, Daemon!OnlyDaemonsSignalled
<1>7. CASE Daemon!StopTells(s)
  <2>1. stop[s].pid \in Pids /\ UNCHANGED <<process, births, pidFile, metadata, queued, reused>>
    BY <1>1, <1>7 DEF Daemon!StopTells
  <2>2. PICK new \in Records : stop' = [stop EXCEPT ![s] = new] /\ new.pid = stop[s].pid
          /\ new.stage \in {"told", "unlinking"}
    BY <1>2, <1>7 DEF Daemon!StopTells
  <2>3. told' \in {told, told \cup {stop[s].pid}}
    BY <1>7 DEF Daemon!StopTells
  <2>4. Daemon!OnlyDaemonsSignalled' /\ killed' \in BOOLEAN
    BY <1>6, <1>7 DEF Daemon!StopTells
  <2>5. Daemon!TypeOK' /\ StopNamesPid' /\ BirthsDiffer' /\ MetadataOfDaemon'
    BY <2>1, <2>2, <2>3, <2>4, StopTypes
  <2>6. ChecksHold'
    BY <1>7, <2>1, <2>2 DEF ChecksHold, Daemon!StopTells, Daemon!TypeOK
  <2> QED BY <2>4, <2>5, <2>6
<1>8. CASE Daemon!StopKills(s)
  <2>1. stop[s].pid \in Pids /\ UNCHANGED <<births, pidFile, metadata, queued, reused>>
        /\ process' = [process EXCEPT ![stop[s].pid] = Daemon!None] /\ told' = told \ {stop[s].pid}
    BY <1>1, <1>8 DEF Daemon!StopKills
  <2>2. PICK new \in Records : stop' = [stop EXCEPT ![s] = new] /\ new.pid = stop[s].pid
          /\ new.stage = "unlinking"
    BY <1>2, <1>8 DEF Daemon!StopKills
  <2>3. Daemon!OnlyDaemonsSignalled' /\ killed' \in BOOLEAN
    BY <1>6, <1>8 DEF Daemon!StopKills
  <2>4. Daemon!TypeOK' /\ StopNamesPid' /\ BirthsDiffer' /\ MetadataOfDaemon'
    BY <2>1, <2>2, <2>3, StopTypes
  <2>5. ChecksHold'
    BY <2>1, <2>2 DEF ChecksHold, StopNamesPid, Daemon!TypeOK, Daemon!None
  <2> QED BY <2>3, <2>4, <2>5
<1>9. CASE Daemon!StopSeesEnd(s) \/ Daemon!StopUnlinks(s)
  <2>1. UNCHANGED <<process, births, told, queued, killed, reused>>
        /\ pidFile' \in {pidFile, Nobody} /\ metadata' \in {metadata, 0}
    BY <1>9 DEF Daemon!StopSeesEnd, Daemon!StopUnlinks, Daemon!Missing
  <2>2. PICK new \in Records : stop' = [stop EXCEPT ![s] = new]
          /\ (new.stage # "idle" => new.pid \in Pids) /\ new.stage \in {"unlinking", "idle"}
    BY <1>1, <1>2, <1>3, <1>9 DEF Daemon!StopSeesEnd, Daemon!StopUnlinks
  <2>3. Daemon!TypeOK' /\ StopNamesPid' /\ BirthsDiffer' /\ MetadataOfDaemon'
    BY <2>1, <2>2, StopTypes DEF Daemon!TypeOK
  <2>4. ChecksHold' /\ Daemon!OnlyDaemonsSignalled'
    BY <2>1, <2>2 DEF ChecksHold, Daemon!OnlyDaemonsSignalled, Daemon!TypeOK
  <2> QED BY <2>3, <2>4
<1> QED BY <1>4, <1>5, <1>7, <1>8, <1>9

LEMMA DaemonStep == DaemonInv /\ Daemon!Next => DaemonInv'
<1> SUFFICES ASSUME DaemonInv, Daemon!Next PROVE DaemonInv'
  OBVIOUS
<1>1. ASSUME NEW p \in Pids, Daemon!OtherStarts(p) \/ Daemon!DaemonStarts(p) PROVE DaemonInv'
  BY <1>1, BirthKeeps DEF Daemon!OtherStarts, Daemon!DaemonStarts
<1> QED BY <1>1, ProcessKeeps, StopKeeps DEF Daemon!Next

LEMMA DaemonRests == DaemonInv /\ UNCHANGED daemonVars => DaemonInv'
BY DEF daemonVars, DaemonInv, Daemon!TypeOK, BirthsDiffer, MetadataOfDaemon, StopNamesPid, ChecksHold,
       Daemon!OnlyDaemonsSignalled, Daemon!Alive

(* No number of commands, daemons, deaths and PIDs given anew makes --stop signal a *)
(* process that is no daemon, unless the PID changes hands after the check.       *)
THEOREM StrangersAreSafe == Spec => []OnlyDaemonsSignalled
<1>1. Init => DaemonInv
  BY DaemonInit DEF Init
<1>2. DaemonInv /\ [Next]_vars => DaemonInv'
  BY StepOfEach, DaemonStep, DaemonRests
<1>3. DaemonInv => OnlyDaemonsSignalled
  BY DEF DaemonInv, OnlyDaemonsSignalled
<1> QED BY <1>1, <1>2, <1>3, PTL DEF Spec

-----------------------------------------------------------------------------
(* Secrets. What a rotation has read is still stored, for every name that nobody   *)
(* saved meanwhile, or the preset is gone and the rotation cannot commit.         *)

Proper(n) == IF saved[n] = Empty THEN Vault!NoSecret ELSE Vault!Secret(current, saved[n])
RequestsHaveKey == DOMAIN saving = Requests /\ \A r \in Requests : saving[r].kind # "idle" => api # Empty
GoneIsEmpty == \A t \in Tokens \ bots : stored[t] = Vault!NoSecret /\ saved[t] = Empty
RotationReadKept ==
  /\ rotation = [stage |-> rotation.stage, fields |-> rotation.fields,
                 tokens |-> rotation.tokens, key |-> rotation.key]
  /\ rotation.stage = "committed" => rotation.key = current
  /\ rotation.stage \in {"started", "read"} =>
       \A f \in Fields \ mixed : rotation.fields[f] = stored[f]
  /\ rotation.stage = "read" =>
       /\ DOMAIN rotation.tokens \subseteq Tokens
       /\ \A t \in bots \ mixed : t \in DOMAIN rotation.tokens /\ rotation.tokens[t] = stored[t]
       /\ \A t \in DOMAIN rotation.tokens : rotation.tokens[t] \in Vault!Column
  /\ rotation.stage \in {"started", "read"} => \A f \in Fields : rotation.fields[f] \in Vault!Column

VaultInv ==
  /\ Vault!TypeOK /\ RequestsHaveKey /\ GoneIsEmpty /\ RotationReadKept /\ Vault!SecretsSurvive

LEMMA VaultInit == Vault!Init => VaultInv
<1> SUFFICES ASSUME Vault!Init PROVE VaultInv
  OBVIOUS
<1> USE ServiceAssumption DEF Vault!SecretsAssumption, Vault!Init, Vault!NoSecret, Vault!Secret,
        Vault!NoRotation, Vault!NoRequest
<1>1. 0 \in Vault!Keys
  BY DEF Vault!Keys
<1>2. stored \in [Vault!Names -> Vault!Column]
  BY <1>1 DEF Vault!Column
<1>3. Vault!TypeOK
  BY <1>1, <1>2 DEF Vault!TypeOK
<1>4. RequestsHaveKey /\ GoneIsEmpty /\ Vault!SecretsSurvive
  BY DEF RequestsHaveKey, GoneIsEmpty, Vault!SecretsSurvive, Vault!Names
<1>5. RotationReadKept
  BY DEF RotationReadKept
<1> QED BY <1>3, <1>4, <1>5 DEF VaultInv

\* A transaction of the API that saves secrets, of presets that exist when it ends.
LEMMA CommitKeeps ==
  ASSUME VaultInv, NEW S \in SUBSET Vault!Names, NEW form,
         \A n \in S : form[n] \in Values \cup {"remove"},
         Vault!Commits(S, form), api # Empty, S \cap Tokens \subseteq bots', bots \subseteq bots',
         bots' \subseteq bots \cup S, UNCHANGED <<env, api, rotation, current>>
  PROVE  /\ stored' \in [Vault!Names -> Vault!Column]
         /\ saved' \in [Vault!Names -> Values \cup {Empty}] /\ mixed' \subseteq Vault!Names
         /\ GoneIsEmpty' /\ RotationReadKept' /\ Vault!SecretsSurvive'
<1> USE DEF VaultInv
<1>1. api \in Vault!Keys
  BY DEF Vault!TypeOK
<1>2. \A n \in S : Vault!Written(stored[n], form[n]) =
                     IF form[n] = "remove" THEN Vault!NoSecret ELSE Vault!Secret(api, form[n])
  BY ServiceAssumption DEF Vault!SecretsAssumption, Vault!Written
<1>3. \A n \in Vault!Names :
        /\ stored'[n] = IF n \in S THEN IF form[n] = "remove" THEN Vault!NoSecret
                                        ELSE Vault!Secret(api, form[n])
                        ELSE stored[n]
        /\ saved'[n] = IF n \in S THEN IF form[n] = "remove" THEN Empty ELSE form[n] ELSE saved[n]
  BY <1>2 DEF Vault!Commits
<1>4. stored' \in [Vault!Names -> Vault!Column]
  <2>1. ASSUME NEW n \in Vault!Names PROVE stored'[n] \in Vault!Column
    <3>1. CASE n \notin S
      BY <1>3, <3>1 DEF Vault!TypeOK
    <3>2. CASE n \in S /\ form[n] = "remove"
      BY <1>3, <3>2 DEF Vault!Column
    <3>3. CASE n \in S /\ form[n] # "remove"
      <4>1. form[n] \in Values /\ stored'[n] = [key |-> api, value |-> form[n]]
        BY <1>3, <3>3 DEF Vault!Secret
      <4> QED BY <1>1, <4>1 DEF Vault!Column
    <3> QED BY <3>1, <3>2, <3>3
  <2> QED BY <2>1 DEF Vault!Commits
<1>5. saved' \in [Vault!Names -> Values \cup {Empty}] /\ mixed' \subseteq Vault!Names
  BY <1>3 DEF Vault!Commits, Vault!TypeOK
<1>6. GoneIsEmpty'
  BY <1>3 DEF GoneIsEmpty, Vault!Names
<1>7. RotationReadKept'
  <2>1. rotation.stage \in {"started", "read"} => mixed' = mixed \cup S
    BY DEF Vault!Commits, Vault!Overlaps
  <2> QED BY <1>3, <2>1 DEF RotationReadKept, Vault!Names
<1>8. ASSUME NEW n \in Vault!Names \ mixed'
      PROVE  stored'[n] = Proper(n)'
  <2>1. CASE n \notin S
    BY <1>3, <1>8, <2>1 DEF Vault!Commits, Vault!SecretsSurvive, Proper, Vault!NoSecret, Vault!Secret
  <2>2. CASE n \in S
    <3>1. api = current
      BY <1>8, <2>2 DEF Vault!Commits, Vault!Overlaps
    <3>2. form[n] # "remove" => form[n] # Empty
      BY <2>2, ServiceAssumption DEF Vault!SecretsAssumption
    <3> QED BY <1>3, <2>2, <3>1, <3>2 DEF Proper, Vault!NoSecret, Vault!Secret
  <2> QED BY <2>1, <2>2
<1>9. Vault!SecretsSurvive'
  BY <1>8 DEF Vault!SecretsSurvive, Proper
<1> QED BY <1>4, <1>5, <1>6, <1>7, <1>9

\* A request that begins or ends, and a preset that is deleted.
LEMMA RequestTypes ==
  ASSUME VaultInv, NEW r \in Requests, NEW new, saving' = [saving EXCEPT ![r] = new],
         \/ new = Vault!NoRequest
         \/ new.kind = "settings" /\ new.form \in [Fields -> Vault!Entries] /\ api # Empty
         \/ new.kind = "preset" /\ new.form \in Vault!Entries /\ new.name \in Tokens /\ api # Empty,
         UNCHANGED api
  PROVE  /\ \A q \in Requests :
              \/ saving'[q] = Vault!NoRequest
              \/ saving'[q].kind = "settings" /\ saving'[q].form \in [Fields -> Vault!Entries]
              \/ saving'[q].kind = "preset" /\ saving'[q].form \in Vault!Entries /\ saving'[q].name \in Tokens
         /\ RequestsHaveKey'
<1>1. \A q \in Requests : saving'[q] = IF q = r THEN new ELSE saving[q]
  BY DEF VaultInv, RequestsHaveKey
<1> QED BY <1>1 DEF VaultInv, RequestsHaveKey, Vault!TypeOK, Vault!NoRequest

\* Nothing that is saved moves.
LEMMA NothingSaved ==
  ASSUME VaultInv, UNCHANGED <<stored, bots, env, rotation, current, saved, mixed>>
  PROVE  /\ stored' \in [Vault!Names -> Vault!Column] /\ bots' \subseteq Tokens
         /\ env' \in Vault!Keys \cup {Empty}
         /\ rotation'.stage \in {"idle", "started", "read", "committed"} /\ rotation'.key \in Vault!Keys
         /\ current' \in Vault!Keys /\ saved' \in [Vault!Names -> Values \cup {Empty}]
         /\ mixed' \subseteq Vault!Names
         /\ GoneIsEmpty' /\ RotationReadKept' /\ Vault!SecretsSurvive'
BY DEF VaultInv, Vault!TypeOK, GoneIsEmpty, RotationReadKept, Vault!SecretsSurvive

LEMMA ApiKeeps ==
  ASSUME VaultInv, NEW r \in Requests,
         \/ Vault!SettingsBegins(r) \/ Vault!SettingsCommits(r) \/ Vault!PresetCommits(r)
         \/ \E t \in Tokens : Vault!PresetBegins(r, t)
  PROVE  VaultInv'
<1> USE DEF VaultInv
<1>1. ASSUME Vault!Counts PROVE saves' \in 0..MaxSaves
  BY <1>1, ServiceAssumption DEF Vault!Counts, Vault!TypeOK, Vault!SecretsAssumption
<1>2. CASE Vault!SettingsBegins(r)
  <2>1. PICK form \in [Fields -> Vault!Entries] : Vault!SettingsBegins(r)!(form)
    BY <1>2 DEF Vault!SettingsBegins
  <2> DEFINE new == [kind |-> "settings", name |-> Empty, form |-> form,
                     seen |-> [f \in Fields |-> stored[f]]]
  <2>2. saving' = [saving EXCEPT ![r] = new] /\ new.kind = "settings" /\ new.form = form
    BY <2>1
  <2> HIDE DEF new
  <2> QED BY <1>1, <2>1, <2>2, RequestTypes, NothingSaved DEF Vault!TypeOK
<1>3. ASSUME NEW t \in Tokens, Vault!PresetBegins(r, t) PROVE VaultInv'
  <2>1. PICK sent \in Vault!Entries : Vault!PresetBegins(r, t)!(sent)
    BY <1>3 DEF Vault!PresetBegins
  <2> DEFINE new == [kind |-> "preset", name |-> t, form |-> sent, seen |-> stored[t]]
  <2>2. saving' = [saving EXCEPT ![r] = new] /\ new.kind = "preset" /\ new.form = sent /\ new.name = t
    BY <2>1
  <2> HIDE DEF new
  <2> QED BY <1>1, <2>1, <2>2, RequestTypes, NothingSaved DEF Vault!TypeOK
<1>4. CASE Vault!SettingsCommits(r)
  <2> DEFINE form == saving[r].form
             S == {f \in Fields : form[f] # "keep" /\ ~(form[f] = "remove" /\ saving[r].seen[f] = Vault!NoSecret)}
  <2>1. Vault!Commits(S, form) /\ Vault!Ends(r) /\ UNCHANGED <<bots, env, api, saves, rotation, current>>
    BY <1>4 DEF Vault!SettingsCommits
  <2>2. form \in [Fields -> Vault!Entries] /\ api # Empty
    BY <1>4 DEF Vault!SettingsCommits, Vault!TypeOK, RequestsHaveKey, Vault!NoRequest
  <2>3. S \in SUBSET Vault!Names /\ S \cap Tokens = {} /\ \A n \in S : form[n] \in Values \cup {"remove"}
    BY <2>2, ServiceAssumption DEF Vault!Names, Vault!Entries, Vault!SecretsAssumption
  <2> HIDE DEF S, form
  <2>4. /\ stored' \in [Vault!Names -> Vault!Column]
        /\ saved' \in [Vault!Names -> Values \cup {Empty}] /\ mixed' \subseteq Vault!Names
        /\ GoneIsEmpty' /\ RotationReadKept' /\ Vault!SecretsSurvive'
    BY <2>1, <2>2, <2>3, CommitKeeps
  <2>5. saving' = [saving EXCEPT ![r] = Vault!NoRequest]
    BY <2>1 DEF Vault!Ends
  <2> QED BY <2>1, <2>4, <2>5, RequestTypes DEF Vault!TypeOK
<1>5. CASE Vault!PresetCommits(r)
  <2> DEFINE t == saving[r].name
             sent == saving[r].form
  <2>1. Vault!Ends(r) /\ UNCHANGED <<bots, env, api, saves, rotation, current>>
    BY <1>5 DEF Vault!PresetCommits
  <2>2. t \in Tokens /\ sent \in Vault!Entries /\ api # Empty
    BY <1>5 DEF Vault!PresetCommits, Vault!TypeOK, RequestsHaveKey, Vault!NoRequest
  <2>3. \/ t \in bots /\ sent # "keep" /\ Vault!Commits({t}, [n \in {t} |-> sent])
        \/ UNCHANGED <<stored, saved, mixed>>
    BY <1>5 DEF Vault!PresetCommits
  <2> HIDE DEF t, sent
  <2>4. /\ stored' \in [Vault!Names -> Vault!Column]
        /\ saved' \in [Vault!Names -> Values \cup {Empty}] /\ mixed' \subseteq Vault!Names
        /\ GoneIsEmpty' /\ RotationReadKept' /\ Vault!SecretsSurvive'
    <3>1. CASE UNCHANGED <<stored, saved, mixed>>
      BY <2>1, <3>1, NothingSaved
    <3>2. CASE t \in bots /\ sent # "keep" /\ Vault!Commits({t}, [n \in {t} |-> sent])
      <4> DEFINE form == [n \in {t} |-> sent]
      <4>1. {t} \in SUBSET Vault!Names /\ \A n \in {t} : form[n] \in Values \cup {"remove"}
        BY <2>2, <3>2 DEF Vault!Names, Vault!Entries
      <4>2. Vault!Commits({t}, form)
        BY <3>2
      <4> HIDE DEF form
      <4> QED BY <2>1, <2>2, <3>2, <4>1, <4>2, CommitKeeps
    <3> QED BY <2>3, <3>1, <3>2
  <2>5. saving' = [saving EXCEPT ![r] = Vault!NoRequest]
    BY <2>1 DEF Vault!Ends
  <2> QED BY <2>1, <2>4, <2>5, RequestTypes DEF Vault!TypeOK
<1> QED BY <1>2, <1>3, <1>4, <1>5

LEMMA PresetKeeps ==
  ASSUME VaultInv, NEW t \in Tokens, Vault!CreatePreset(t) \/ Vault!DeletePreset(t)
  PROVE  VaultInv'
<1> USE DEF VaultInv
<1>1. saves' \in 0..MaxSaves
  BY ServiceAssumption DEF Vault!CreatePreset, Vault!DeletePreset, Vault!Counts, Vault!TypeOK,
                           Vault!SecretsAssumption
<1>2. RequestsHaveKey' /\ UNCHANGED <<env, api, saving, rotation, current>> /\ bots' \subseteq Tokens
  BY DEF Vault!CreatePreset, Vault!DeletePreset, RequestsHaveKey, Vault!TypeOK
<1>3. CASE Vault!CreatePreset(t)
  <2>1. PICK sent \in Values \cup {"remove"} : Vault!CreatePreset(t)!(sent)
    BY <1>3 DEF Vault!CreatePreset
  <2> DEFINE form == [n \in {t} |-> sent]
  <2>2. Vault!Commits({t}, form) /\ api # Empty /\ bots' = bots \cup {t}
    BY <2>1
  <2>3. {t} \in SUBSET Vault!Names /\ \A n \in {t} : form[n] \in Values \cup {"remove"}
    BY DEF Vault!Names
  <2> HIDE DEF form
  <2>4. /\ stored' \in [Vault!Names -> Vault!Column]
        /\ saved' \in [Vault!Names -> Values \cup {Empty}] /\ mixed' \subseteq Vault!Names
        /\ GoneIsEmpty' /\ RotationReadKept' /\ Vault!SecretsSurvive'
    BY <1>2, <2>2, <2>3, CommitKeeps
  <2> QED BY <1>1, <1>2, <2>4 DEF Vault!TypeOK
<1>4. CASE Vault!DeletePreset(t)
  <2>1. /\ bots' = bots \ {t} /\ mixed' = mixed \ {t}
        /\ stored' = [stored EXCEPT ![t] = Vault!NoSecret] /\ saved' = [saved EXCEPT ![t] = Empty]
    BY <1>4 DEF Vault!DeletePreset
  <2>2. /\ t \in Vault!Names /\ t \notin Fields
        /\ \A n \in Vault!Names : /\ stored'[n] = IF n = t THEN Vault!NoSecret ELSE stored[n]
                                  /\ saved'[n] = IF n = t THEN Empty ELSE saved[n]
    BY <2>1, ServiceAssumption DEF Vault!Names, Vault!TypeOK, Vault!SecretsAssumption
  <2>3. Vault!TypeOK'
    <3>1. stored' \in [Vault!Names -> Vault!Column]
      BY <2>1, <2>2 DEF Vault!TypeOK, Vault!Column
    <3>2. saved' \in [Vault!Names -> Values \cup {Empty}] /\ mixed' \subseteq Vault!Names
      BY <2>1, <2>2 DEF Vault!TypeOK
    <3> QED BY <1>1, <1>2, <3>1, <3>2 DEF Vault!TypeOK
  <2>4. GoneIsEmpty'
    BY <2>1, <2>2 DEF GoneIsEmpty, Vault!Names
  <2>5. RotationReadKept'
    BY <1>2, <2>1, <2>2 DEF RotationReadKept, Vault!Names
  <2>6. Vault!SecretsSurvive'
    BY <1>2, <2>1, <2>2 DEF Vault!SecretsSurvive, Vault!NoSecret, Vault!Secret
  <2> QED BY <1>2, <2>3, <2>4, <2>5, <2>6
<1> QED BY <1>3, <1>4

LEMMA RestartKeeps == VaultInv /\ Vault!Restart => VaultInv'
<1> SUFFICES ASSUME VaultInv, Vault!Restart PROVE VaultInv'
  OBVIOUS
<1> USE DEF VaultInv, Vault!Restart
<1>1. RequestsHaveKey'
  BY DEF RequestsHaveKey, Vault!NoRequest
<1>2. \A r \in Requests : saving'[r] = Vault!NoRequest
  OBVIOUS
<1>3. api' \in Vault!Keys \cup {Empty} /\ saves' \in 0..MaxSaves
  BY DEF Vault!TypeOK
<1> QED BY <1>1, <1>2, <1>3, NothingSaved DEF Vault!TypeOK

\* Every step of the rotation but its commit leaves the columns alone.
LEMMA RotationKeeps ==
  ASSUME VaultInv,
         Vault!RotationStarts \/ Vault!RotationReads \/ Vault!ChangeEnv \/ Vault!RotationFails
  PROVE  VaultInv'
<1> USE DEF VaultInv
<1>1. UNCHANGED <<stored, bots, api, saving, saves, current, saved, mixed>>
  BY DEF Vault!RotationStarts, Vault!RotationReads, Vault!ChangeEnv, Vault!RotationFails
<1>2. RequestsHaveKey' /\ GoneIsEmpty'
  BY <1>1 DEF RequestsHaveKey, GoneIsEmpty
<1>3. Fields \subseteq Vault!Names /\ bots \subseteq Vault!Names /\ bots \subseteq Tokens
  BY DEF Vault!Names, Vault!TypeOK
<1>4. /\ rotation'.stage \in {"idle", "started", "read", "committed"}
      /\ rotation'.key \in Vault!Keys /\ env' \in Vault!Keys \cup {Empty} /\ RotationReadKept'
      /\ rotation'.stage # "committed" => env' = current'
  <2>1. CASE Vault!RotationStarts
    <3>1. /\ rotation'.stage = "started" /\ rotation'.key = current + 1 /\ UNCHANGED env
          /\ rotation'.fields = [f \in Fields |-> stored[f]]
      BY <2>1 DEF Vault!RotationStarts
    <3>2. current + 1 \in Vault!Keys /\ env = current
      BY <2>1, ServiceAssumption DEF Vault!RotationStarts, Vault!TypeOK, Vault!Keys, Vault!SecretsAssumption,
                  Vault!NoRotation, Vault!SecretsSurvive
    <3>3. RotationReadKept'
      BY <1>1, <1>3, <2>1, <3>1 DEF RotationReadKept, Vault!RotationStarts, Vault!TypeOK
    <3> QED BY <1>1, <3>1, <3>2, <3>3 DEF Vault!TypeOK
  <2>2. CASE Vault!RotationReads
    <3> DEFINE kept == [t \in bots |-> stored[t]]
    <3>1. /\ rotation.stage = "started" /\ rotation'.stage = "read" /\ rotation'.key = rotation.key
          /\ rotation' = [stage |-> "read", fields |-> rotation.fields, tokens |-> kept, key |-> rotation.key]
          /\ UNCHANGED env
      BY <2>2 DEF Vault!RotationReads, RotationReadKept
    <3>2. \A t \in bots : t \in DOMAIN kept /\ kept[t] = stored[t] /\ kept[t] \in Vault!Column
      BY <1>3 DEF Vault!TypeOK
    <3>3. DOMAIN kept = bots
      OBVIOUS
    <3> HIDE DEF kept
    <3>4. RotationReadKept'
      BY <1>1, <1>3, <3>1, <3>2, <3>3 DEF RotationReadKept
    <3> QED BY <1>1, <3>1, <3>4 DEF Vault!TypeOK, Vault!SecretsSurvive
  <2>3. CASE Vault!ChangeEnv
    <3>1. env' = current /\ rotation' = Vault!NoRotation
      BY <2>3 DEF Vault!ChangeEnv, RotationReadKept
    <3> QED BY <1>1, <3>1, ServiceAssumption
            DEF Vault!NoRotation, RotationReadKept, Vault!TypeOK, Vault!Keys, Vault!SecretsAssumption
  <2>4. CASE Vault!RotationFails
    <3>1. CASE rotation' = Vault!NoRotation /\ UNCHANGED env /\ rotation.stage # "committed"
      BY <1>1, <3>1, ServiceAssumption
      DEF Vault!NoRotation, RotationReadKept, Vault!TypeOK, Vault!Keys, Vault!SecretsAssumption,
          Vault!SecretsSurvive
    <3>2. CASE env' = Empty /\ UNCHANGED rotation /\ rotation.stage = "committed"
      BY <1>1, <3>2 DEF RotationReadKept, Vault!TypeOK
    <3> QED BY <2>4, <3>1, <3>2 DEF Vault!RotationFails
  <2> QED BY <2>1, <2>2, <2>3, <2>4
<1>5. Vault!SecretsSurvive'
  BY <1>1, <1>4 DEF Vault!SecretsSurvive
<1>6. Vault!TypeOK'
  BY <1>1, <1>4 DEF Vault!TypeOK
<1> QED BY <1>2, <1>4, <1>5, <1>6

\* The commit: what was read of a name that nobody saved meanwhile is what is stored,
\* and the names that are left with an older key count as mixed.
LEMMA RotationCommitKeeps == VaultInv /\ Vault!RotationCommits => VaultInv'
<1> SUFFICES ASSUME VaultInv, Vault!RotationCommits PROVE VaultInv'
  OBVIOUS
<1> USE DEF VaultInv
<1> DEFINE Taken == Fields \cup DOMAIN rotation.tokens
           old(n) == IF n \in Fields THEN rotation.fields[n] ELSE rotation.tokens[n]
           oldF == [n \in Taken |-> old(n)]
           next(n) == IF n \in Taken /\ old(n) # Vault!NoSecret
                      THEN Vault!Secret(rotation.key, old(n).value) ELSE stored[n]
<1>1. /\ rotation.stage = "read" /\ current' = rotation.key
      /\ mixed' = mixed \cup {n \in Vault!Names : stored'[n].key \notin {Empty, rotation.key}}
      /\ rotation' = [rotation EXCEPT !.stage = "committed"]
      /\ UNCHANGED <<bots, env, api, saving, saves, saved>>
  BY DEF Vault!RotationCommits
<1>2. /\ {n \in DOMAIN oldF \cap Tokens : oldF[n] # Vault!NoSecret} \subseteq bots
      /\ stored' = [n \in Vault!Names |-> IF n \in DOMAIN oldF /\ oldF[n] # Vault!NoSecret
                                          THEN Vault!Reencrypted(oldF[n]) ELSE stored[n]]
  BY DEF Vault!RotationCommits
<1>3. DOMAIN oldF = Taken /\ \A n \in Taken : oldF[n] = old(n)
  OBVIOUS
<1> HIDE DEF oldF
<1>4. \A n \in Vault!Names : stored'[n] = next(n)
  BY <1>2, <1>3 DEF Vault!Reencrypted
<1>5. \A t \in Taken \cap Tokens : old(t) # Vault!NoSecret => t \in bots
  BY <1>2, <1>3
<1>6. /\ rotation.key \in Vault!Keys
      /\ \A n \in Taken : old(n) \in Vault!Column
      /\ \A f \in Fields \ mixed : old(f) = stored[f]
      /\ \A t \in bots \ mixed : t \in Taken /\ (t \notin Fields => old(t) = stored[t])
      /\ \A t \in Tokens \ bots : stored[t] = Vault!NoSecret /\ saved[t] = Empty
  BY <1>1 DEF RotationReadKept, GoneIsEmpty, Vault!TypeOK
<1>7. Fields \cap Tokens = {} /\ Empty \notin Values
  BY ServiceAssumption DEF Vault!SecretsAssumption
<1>8. \A n \in Vault!Names : next(n) \in Vault!Column
  <2>1. ASSUME NEW n \in Taken, old(n) # Vault!NoSecret
        PROVE  Vault!Secret(rotation.key, old(n).value) \in Vault!Column
    <3>1. old(n).value \in Values
      BY <1>6, <2>1 DEF Vault!Column
    <3> QED BY <1>6, <3>1 DEF Vault!Column, Vault!Secret
  <2> QED BY <2>1 DEF Vault!TypeOK
<1> HIDE DEF Taken, old
<1>9. ASSUME NEW n \in Vault!Names \ mixed' PROVE stored'[n] = Proper(n)'
  <2>1. n \notin mixed /\ stored[n] = Proper(n)
    BY <1>1, <1>9 DEF Vault!SecretsSurvive, Proper
  <2>2. \/ n \in Taken /\ old(n) = stored[n]
        \/ stored[n] = Vault!NoSecret /\ (n \in Taken => old(n) = Vault!NoSecret)
    <3>1. CASE n \in Fields
      BY <1>6, <2>1, <3>1 DEF Taken
    <3>2. CASE n \in bots
      BY <1>6, <1>7, <2>1, <3>2 DEF Vault!TypeOK
    <3>3. CASE n \in Tokens \ bots
      BY <1>5, <1>6, <3>3
    <3> QED BY <1>9, <3>1, <3>2, <3>3 DEF Vault!Names
  <2>3. stored'[n] = next(n)
    BY <1>4, <1>9
  <2>4. CASE saved[n] = Empty
    BY <1>1, <2>1, <2>2, <2>3, <2>4 DEF Proper
  <2>5. CASE saved[n] # Empty
    <3>1. stored[n] = Vault!Secret(current, saved[n]) /\ stored[n] # Vault!NoSecret
      BY <2>1, <2>5 DEF Proper, Vault!Secret, Vault!NoSecret
    <3>2. stored'[n] = Vault!Secret(rotation.key, saved[n])
      BY <2>2, <2>3, <3>1 DEF Vault!Secret
    <3> QED BY <1>1, <2>5, <3>2 DEF Proper
  <2> QED BY <2>4, <2>5
<1>10. Vault!SecretsSurvive'
  <2>1. rotation'.stage = "committed"
    BY <1>1 DEF RotationReadKept
  <2> QED BY <1>9, <2>1 DEF Vault!SecretsSurvive, Proper
<1>11. GoneIsEmpty' /\ RequestsHaveKey'
  <2>1. \A t \in Tokens \ bots : stored'[t] = Vault!NoSecret
    BY <1>4, <1>5, <1>6 DEF Vault!Names
  <2> QED BY <1>1, <1>6, <2>1 DEF GoneIsEmpty, RequestsHaveKey
<1>12. RotationReadKept'
  BY <1>1 DEF RotationReadKept
<1>13. Vault!TypeOK'
  <2>1. stored' \in [Vault!Names -> Vault!Column]
    BY <1>2, <1>4, <1>8
  <2>2. rotation'.stage = "committed" /\ rotation'.key = rotation.key
    BY <1>1 DEF RotationReadKept
  <2>3. mixed' \subseteq Vault!Names /\ current' \in Vault!Keys
    BY <1>1, <1>6 DEF Vault!TypeOK
  <2> QED BY <1>1, <1>6, <2>1, <2>2, <2>3 DEF Vault!TypeOK
<1> QED BY <1>10, <1>11, <1>12, <1>13

LEMMA VaultStep == VaultInv /\ Vault!Next => VaultInv'
BY ApiKeeps, PresetKeeps, RestartKeeps, RotationKeeps, RotationCommitKeeps DEF Vault!Next

LEMMA VaultRests == VaultInv /\ UNCHANGED vaultVars => VaultInv'
BY DEF vaultVars, VaultInv, Vault!TypeOK, RequestsHaveKey, GoneIsEmpty, RotationReadKept,
       Vault!SecretsSurvive

(* Every secret that was not saved in the middle of a rotation is what the user      *)
(* saved, under the one key that .env has or is about to get, whatever fails and    *)
(* however often keys are rotated.                                            *)
THEOREM SavedSecretsSurvive == Spec => []SecretsSurvive
<1>1. Init => VaultInv
  BY VaultInit DEF Init
<1>2. VaultInv /\ [Next]_vars => VaultInv'
  BY StepOfEach, VaultStep, VaultRests
<1>3. VaultInv => SecretsSurvive
  BY DEF VaultInv, SecretsSurvive
<1> QED BY <1>1, <1>2, <1>3, PTL DEF Spec

-----------------------------------------------------------------------------
(* Startup. An entry of the registry fits its result, also one that another        *)
(* process wrote; between its read and its commit the API knows every result      *)
(* that has no entry, and after that there is none.                            *)

Fits(status, use) == /\ status = "PENDING_REVIEW" => use = "pending"
                     /\ status \in {"REJECTED", "FAILED"} => use = "released"
EntriesFit == \A r \in Results \ raced : usage[r] # "none" => Fits(history[r], usage[r])
ReadsAll ==
  stage[Backend] = "writing usage" =>
    \A r \in Results \ raced : history[r] # "absent" /\ usage[r] = "none" => r \in DOMAIN found[Backend]
KnowsAll ==
  stage[Backend] \in {"log", "writing log", "ready"} =>
    \A r \in Results \ raced : history[r] # "absent" => usage[r] # "none"
BootInv ==
  /\ Boot!TypeOK /\ DOMAIN found = Boot!Starters
  /\ EntriesFit /\ ReadsAll /\ KnowsAll

LEMMA BootInit == Boot!Init => BootInv
<1> SUFFICES ASSUME Boot!Init PROVE BootInv
  OBVIOUS
<1> USE ServiceAssumption
    DEF Boot!StartupAssumption, Boot!Init, Boot!Off, Boot!NoneFound, Boot!Starters
<1>1. Boot!TypeOK
  <2>1. {0, Tables} \subseteq 0..Tables /\ 0 \in 0..MaxCrashes /\ 0 \in 0..MaxWrites
    OBVIOUS
  <2> QED BY <2>1 DEF Boot!TypeOK, Boot!Statuses, Boot!Uses
<1>2. EntriesFit /\ ReadsAll /\ KnowsAll
  BY DEF EntriesFit, ReadsAll, KnowsAll
<1> QED BY <1>1, <1>2 DEF BootInv

\* The processes end, all of them or one.
LEMMA ProcessesEnd ==
  ASSUME BootInv, Boot!StopsAll \/ \E p \in Boot!Starters : Boot!Dies(p),
         UNCHANGED <<postgres, tables, version, history, usage, log, writes>>, ends' \in 0..MaxCrashes
  PROVE  BootInv'
<1> USE DEF BootInv
<1>1. UNCHANGED raced
  BY DEF Boot!Dies, Boot!StopsAll
<1>2. /\ stage' \in [Boot!Starters -> {"off", "starting", "migrating", "migrated", "usage",
                                       "writing usage", "log", "writing log", "ready"}]
      /\ \A p \in Boot!Starters : stage'[p] = "off" \/ (stage'[p] = stage[p] /\ found'[p] = found[p])
      /\ \A p \in Boot!Starters : found'[p] = Boot!NoneFound \/ found'[p] = found[p]
      /\ DOMAIN found' = Boot!Starters
  <2>1. CASE Boot!StopsAll
    <3>1. /\ stage' = [p \in Boot!Starters |-> "off"]
          /\ found' = [p \in Boot!Starters |-> Boot!NoneFound]
      BY <2>1 DEF Boot!StopsAll
    <3>2. stage' \in [Boot!Starters -> {"off", "starting", "migrating", "migrated", "usage",
                                       "writing usage", "log", "writing log", "ready"}]
      BY <3>1
    <3>3. \A p \in Boot!Starters : stage'[p] = "off" /\ found'[p] = Boot!NoneFound
      BY <3>1, Zenon
    <3>4. DOMAIN found' = Boot!Starters
      BY <3>1, Zenon
    <3> QED BY <3>2, <3>3, <3>4
  <2>2. ASSUME NEW p \in Boot!Starters, Boot!Dies(p), ~Boot!StopsAll
        PROVE  /\ stage' = [stage EXCEPT ![p] = "off"]
               /\ found' = [found EXCEPT ![p] = Boot!NoneFound]
    BY <2>2 DEF Boot!Dies
  <2> QED BY <2>1, <2>2 DEF Boot!TypeOK
<1>3. own' \in [Boot!Starters -> 0..Tables] /\ running' \in BOOLEAN
  <2>1. 0 \in 0..Tables
    BY ServiceAssumption DEF Boot!StartupAssumption
  <2> QED BY <2>1 DEF Boot!Dies, Boot!StopsAll, Boot!TypeOK
<1>4. Boot!TypeOK'
  <2>1. \A p \in Boot!Starters : DOMAIN found'[p] \subseteq Results
    <3>1. DOMAIN Boot!NoneFound = {}
      BY DEF Boot!NoneFound
    <3> QED BY <1>2, <3>1 DEF Boot!TypeOK
  <2> QED BY <1>1, <1>2, <1>3, <2>1 DEF Boot!TypeOK
<1>5. Backend \in Boot!Starters
  BY DEF Boot!Starters
<1>6. EntriesFit' /\ ReadsAll' /\ KnowsAll'
  BY <1>1, <1>2, <1>5 DEF EntriesFit, ReadsAll, KnowsAll
<1> QED BY <1>2, <1>4, <1>6

\* Steps before the entries, and of the log: no result and no entry changes, and
\* the API gets behind its backfill only from behind it.
LEMMA StagesMove ==
  ASSUME BootInv, NEW p \in Boot!Starters,
         NEW from \in {"off", "starting", "migrating", "migrated", "log", "writing log", "ready"},
         NEW to \in {"off", "starting", "migrating", "migrated", "usage", "writing log", "ready"},
         stage[p] = from, stage' = [stage EXCEPT ![p] = to],
         to \in {"writing log", "ready"} => from \in {"log", "writing log"},
         found' = found \/ \E S \in SUBSET Results : found' = [found EXCEPT ![p] = [r \in S |-> history[r]]],
         UNCHANGED <<history, usage, raced>>
  PROVE  /\ stage' \in [Boot!Starters -> {"off", "starting", "migrating", "migrated", "usage",
                                          "writing usage", "log", "writing log", "ready"}]
         /\ \A q \in Boot!Starters : DOMAIN found'[q] \subseteq Results
         /\ DOMAIN found' = Boot!Starters /\ EntriesFit' /\ ReadsAll' /\ KnowsAll'
<1> USE DEF BootInv
<1>1. Backend \in Boot!Starters
  BY DEF Boot!Starters
<1>2. \A q \in Boot!Starters : stage'[q] = IF q = p THEN to ELSE stage[q]
  BY DEF Boot!TypeOK
<1>3. \A q \in Boot!Starters : (q # p => found'[q] = found[q]) /\ DOMAIN found'[q] \subseteq Results
  BY DEF Boot!TypeOK
<1>4. EntriesFit' /\ ReadsAll' /\ KnowsAll'
  BY <1>1, <1>2, <1>3 DEF EntriesFit, ReadsAll, KnowsAll
<1> QED BY <1>3, <1>4 DEF Boot!TypeOK

\* The backfill of the registry: its read, and its commit or failure.
LEMMA UsageKeeps ==
  ASSUME BootInv, NEW p \in Boot!Starters, Boot!ReadUsage(p) \/ Boot!WriteUsage(p)
  PROVE  BootInv'
<1> USE DEF BootInv
<1>1. UNCHANGED <<postgres, tables, version, running, own, history, log, ends, writes>>
  BY DEF Boot!ReadUsage, Boot!WriteUsage, Boot!database, Boot!rows, Boot!counts
<1>2. Backend \in Boot!Starters
  BY DEF Boot!Starters
<1>3. CASE Boot!ReadUsage(p)
  <2> DEFINE missing == {q \in Boot!Exist : usage[q] = "none"}
             read == [r \in missing |-> history[r]]
  <2>1. /\ stage' = [stage EXCEPT ![p] = "writing usage"] /\ found' = [found EXCEPT ![p] = read]
        /\ UNCHANGED <<usage, raced>>
    BY <1>3 DEF Boot!ReadUsage, Boot!Goes, Boot!rows
  <2>2. DOMAIN read = missing /\ missing \subseteq Results
    BY DEF Boot!Exist
  <2>3. \A r \in Results : history[r] # "absent" /\ usage[r] = "none" => r \in missing
    BY DEF Boot!Exist
  <2> HIDE DEF read, missing
  <2>4. Boot!TypeOK' /\ DOMAIN found' = Boot!Starters
    BY <1>1, <2>1, <2>2 DEF Boot!TypeOK
  <2>5. EntriesFit' /\ ReadsAll' /\ KnowsAll'
    BY <1>1, <1>2, <2>1, <2>2, <2>3 DEF EntriesFit, ReadsAll, KnowsAll, Boot!TypeOK
  <2> QED BY <2>4, <2>5
<1>4. CASE Boot!WriteUsage(p)
  <2>1. /\ stage[p] = "writing usage" /\ stage' = [stage EXCEPT ![p] = "log"]
        /\ found' = [found EXCEPT ![p] = Boot!NoneFound]
    BY <1>4 DEF Boot!WriteUsage, Boot!Goes
  <2>2. \/ /\ \A r \in DOMAIN found[p] : usage[r] = "none"
           /\ usage' = [r \in Results |-> IF r \in DOMAIN found[p] THEN Boot!Mapped(found[p][r])
                                          ELSE usage[r]]
           /\ raced' = raced \cup {r \in DOMAIN found[p] : history[r] # found[p][r]}
        \/ raced' = raced \cup DOMAIN found[p] /\ UNCHANGED usage
    BY <1>4 DEF Boot!WriteUsage
  <2>3. \A status : /\ Boot!Mapped(status) \in {"pending", "accepted", "released"}
                    /\ Fits(status, Boot!Mapped(status))
    BY DEF Boot!Mapped, Fits
  <2>4. /\ DOMAIN found[p] \subseteq Results /\ raced' \subseteq Results /\ raced \subseteq raced'
        /\ usage' \in [Results -> Boot!Uses]
    BY <2>2, <2>3 DEF Boot!TypeOK, Boot!Uses
  <2>5. Boot!TypeOK' /\ DOMAIN found' = Boot!Starters
    BY <1>1, <2>1, <2>4 DEF Boot!TypeOK, Boot!NoneFound
  <2>6. \A r \in Results \ raced' :
          IF r \in DOMAIN found[p] THEN usage'[r] # "none" /\ Fits(history[r], usage'[r])
          ELSE usage'[r] = usage[r]
    BY <2>2, <2>3
  <2>7. EntriesFit'
    BY <1>1, <2>4, <2>6 DEF EntriesFit
  <2>8. ReadsAll' /\ KnowsAll'
    BY <1>1, <1>2, <2>1, <2>4, <2>6 DEF ReadsAll, KnowsAll, Boot!TypeOK
  <2> QED BY <2>5, <2>7, <2>8
<1> QED BY <1>3, <1>4

\* The other steps of init_db.
LEMMA StartKeeps ==
  ASSUME BootInv, NEW p \in Boot!Starters, Boot!Start(p)
  PROVE  BootInv'
<1> USE DEF BootInv
<1>1. CASE Boot!Migrate(p)
  <2>1. PICK from \in {"starting"}, to \in {"migrated", "migrating"} :
          stage[p] = from /\ stage' = [stage EXCEPT ![p] = to]
    BY <1>1 DEF Boot!Migrate, Boot!Goes
  <2>2. UNCHANGED <<postgres, tables, running, own, found, history, usage, log, raced, ends, writes>>
        /\ version' \in {version, "head"}
    BY <1>1 DEF Boot!Migrate, Boot!database, Boot!rows, Boot!counts
  <2> QED BY <2>1, <2>2, StagesMove DEF Boot!TypeOK
<1>2. CASE Boot!CreateTable(p)
  <2>1. CASE tables # own[p]
    BY <1>2, <2>1, ProcessesEnd DEF Boot!CreateTable, Boot!database, Boot!counts, Boot!TypeOK
  <2>2. CASE tables = own[p]
    <3>1. /\ UNCHANGED <<postgres, running, found, history, usage, log, raced, ends, writes>>
          /\ version' \in {version, "head"}
          /\ stage[p] = "migrating" /\ (stage' = [stage EXCEPT ![p] = "migrated"] \/ stage' = stage)
      BY <1>2, <2>2 DEF Boot!CreateTable, Boot!rows, Boot!counts
    <3>2. tables' \in 0..Tables /\ own' \in [Boot!Starters -> 0..Tables]
      <4>1. Tables \in 0..Tables /\ (tables < Tables => tables + 1 \in 0..Tables)
        <5>1. Tables \in Nat
          BY ServiceAssumption DEF Boot!StartupAssumption
        <5>2. tables \in 0..Tables
          BY DEF Boot!TypeOK
        <5> QED BY <5>1, <5>2
      <4> QED BY <1>2, <2>2, <4>1 DEF Boot!CreateTable, Boot!TypeOK
    <3>3. stage = [stage EXCEPT ![p] = "migrating"]
      BY <3>1 DEF Boot!TypeOK
    <3>4. PICK to \in {"migrating", "migrated"} : stage' = [stage EXCEPT ![p] = to]
      BY <3>1, <3>3
    <3> QED BY <3>1, <3>2, <3>4, StagesMove DEF Boot!TypeOK
  <2> QED BY <2>1, <2>2
<1>3. CASE Boot!SyncEffects(p)
  <2>1. stage[p] = "migrated" /\ stage' = [stage EXCEPT ![p] = "usage"]
        /\ UNCHANGED <<postgres, tables, version, running, own, found, history, usage, log, raced, ends, writes>>
    BY <1>3 DEF Boot!SyncEffects, Boot!Goes, Boot!database, Boot!rows, Boot!counts
  <2> QED BY <2>1, StagesMove DEF Boot!TypeOK
<1>4. CASE Boot!ReadLog(p)
  <2>1. stage[p] = "log" /\ stage' = [stage EXCEPT ![p] = "writing log"]
        /\ UNCHANGED <<postgres, tables, version, running, own, history, usage, log, raced, ends, writes>>
    BY <1>4 DEF Boot!ReadLog, Boot!Goes, Boot!database, Boot!rows, Boot!counts
  <2>2. found' = [found EXCEPT ![p] = [r \in Boot!WithoutLog |-> history[r]]]
        /\ Boot!WithoutLog \in SUBSET Results
    BY <1>4 DEF Boot!ReadLog, Boot!WithoutLog, Boot!Exist
  <2> QED BY <2>1, <2>2, StagesMove DEF Boot!TypeOK
<1>5. CASE Boot!WriteLog(p)
  <2>1. CASE DOMAIN found[p] \cap log # {}
    BY <1>5, <2>1, ProcessesEnd DEF Boot!WriteLog, Boot!database, Boot!counts, Boot!TypeOK
  <2>2. CASE DOMAIN found[p] \cap log = {}
    <3>1. stage[p] = "writing log" /\ stage' = [stage EXCEPT ![p] = "ready"]
          /\ log' = log \cup DOMAIN found[p]
          /\ UNCHANGED <<postgres, tables, version, running, own, history, usage, raced, ends, writes>>
      BY <1>5, <2>2 DEF Boot!WriteLog, Boot!database, Boot!counts
    <3>2. found' = [found EXCEPT ![p] = [r \in {} |-> history[r]]]
      BY <1>5, <2>2 DEF Boot!WriteLog, Boot!NoneFound
    <3>3. log' \subseteq Results
      BY <3>1 DEF Boot!TypeOK
    <3> QED BY <3>1, <3>2, <3>3, StagesMove DEF Boot!TypeOK
  <2> QED BY <2>1, <2>2
<1> QED BY <1>1, <1>2, <1>3, <1>4, <1>5, UsageKeeps DEF Boot!Start

\* What workers and reviews write.
LEMMA WritesKeep ==
  ASSUME BootInv, NEW r \in Results,
         \/ Boot!Generate(r) \/ Boot!Rate(r)
         \/ Boot!Decide(r, "UPLOADED", "accepted") \/ Boot!Decide(r, "REJECTED", "released")
  PROVE  BootInv'
<1> USE DEF BootInv
<1>1. /\ UNCHANGED <<postgres, tables, version, running, stage, own, found, raced, ends>>
      /\ writes' \in 0..MaxWrites
  <2>1. Boot!Write /\ UNCHANGED raced
    BY DEF Boot!Generate, Boot!Rate, Boot!Decide
  <2>2. MaxWrites \in Nat /\ writes \in 0..MaxWrites
    BY ServiceAssumption DEF Boot!StartupAssumption, Boot!TypeOK
  <2> QED BY <2>1, <2>2 DEF Boot!Write, Boot!database, Boot!process
<1>2. \/ UNCHANGED <<history, usage>>
      \/ /\ history[r] = "absent" /\ history' = [history EXCEPT ![r] = "PENDING_REVIEW"]
         /\ usage' = [usage EXCEPT ![r] = "pending"]
      \/ \E status \in {"UPLOADED", "REJECTED"}, use \in {"accepted", "released"} :
           /\ history[r] = "PENDING_REVIEW" /\ history' = [history EXCEPT ![r] = status]
           /\ usage' = [usage EXCEPT ![r] = IF @ = "none" THEN @ ELSE use] /\ Fits(status, use)
  <2>1. Fits("UPLOADED", "accepted") /\ Fits("REJECTED", "released")
    BY DEF Fits
  <2> QED BY <2>1 DEF Boot!Generate, Boot!Rate, Boot!Decide
<1>3. Boot!TypeOK'
  <2>1. log' \subseteq Results
    BY DEF Boot!Generate, Boot!Rate, Boot!Decide, Boot!TypeOK
  <2>2. history' \in [Results -> Boot!Statuses] /\ usage' \in [Results -> Boot!Uses]
    <3>1. history' \in [Results -> Boot!Statuses]
      BY <1>2 DEF Boot!TypeOK, Boot!Statuses
    <3>2. \A new \in Boot!Uses : [usage EXCEPT ![r] = new] \in [Results -> Boot!Uses]
      BY DEF Boot!TypeOK
    <3>3. usage[r] \in Boot!Uses /\ {"pending", "accepted", "released"} \subseteq Boot!Uses
      BY DEF Boot!TypeOK, Boot!Uses
    <3>4. usage' = usage \/ \E new \in Boot!Uses : usage' = [usage EXCEPT ![r] = new]
      BY <1>2, <3>3
    <3> QED BY <3>1, <3>2, <3>4 DEF Boot!TypeOK
  <2> QED BY <1>1, <2>1, <2>2 DEF Boot!TypeOK
<1>4. \A q \in Results :
        /\ usage'[q] # "none" => \/ history'[q] = history[q] /\ usage'[q] = usage[q]
                                 \/ Fits(history'[q], usage'[q])
        /\ history'[q] # "absent" /\ usage'[q] = "none" => history[q] # "absent" /\ usage[q] = "none"
  BY <1>2 DEF Boot!TypeOK, Fits
<1>5. EntriesFit' /\ ReadsAll' /\ KnowsAll'
  BY <1>1, <1>4 DEF EntriesFit, ReadsAll, KnowsAll
<1> QED BY <1>1, <1>3, <1>5

LEMMA BootStep == BootInv /\ Boot!Next => BootInv'
<1> SUFFICES ASSUME BootInv, Boot!Next PROVE BootInv'
  OBVIOUS
<1>1. Backend \in Boot!Starters /\ \A p \in Commands : p \in Boot!Starters
  BY DEF Boot!Starters
<1>2. CASE Boot!ContainerStarts
  <2>1. /\ stage' = [stage EXCEPT ![Backend] = "starting"] /\ running' = TRUE
        /\ UNCHANGED <<postgres, tables, version, own, found, history, usage, log, raced, ends, writes>>
    BY <1>2 DEF Boot!ContainerStarts, Boot!database, Boot!rows, Boot!counts
  <2> QED BY <1>1, <2>1 DEF BootInv, Boot!TypeOK, EntriesFit, ReadsAll, KnowsAll
<1>3. CASE Boot!Crash
  <2>1. ends' \in 0..MaxCrashes
    <3>1. MaxCrashes \in Nat /\ ends \in 0..MaxCrashes
      BY ServiceAssumption DEF Boot!StartupAssumption, BootInv, Boot!TypeOK
    <3> QED BY <1>3, <3>1 DEF Boot!Crash
  <2> QED BY <1>3, <2>1, ProcessesEnd DEF Boot!Crash, Boot!database
<1>4. ASSUME NEW p \in Commands, Boot!CommandStarts(p) \/ Boot!CommandEnds(p) PROVE BootInv'
  <2>1. PICK from \in {"off", "ready"}, to \in {"off", "starting"} :
          stage[p] = from /\ stage' = [stage EXCEPT ![p] = to]
    BY <1>4 DEF Boot!CommandStarts, Boot!CommandEnds, Boot!Goes
  <2>2. UNCHANGED <<postgres, tables, version, running, found, history, usage, log, raced, ends>>
    BY <1>4 DEF Boot!CommandStarts, Boot!CommandEnds, Boot!database, Boot!rows, Boot!counts
  <2>3. writes' \in 0..MaxWrites
    <3>1. MaxWrites \in Nat /\ writes \in 0..MaxWrites
      BY ServiceAssumption DEF Boot!StartupAssumption, BootInv, Boot!TypeOK
    <3> QED BY <1>4, <3>1 DEF Boot!CommandStarts, Boot!CommandEnds, Boot!counts
  <2>4. own' \in [Boot!Starters -> 0..Tables]
    <3>1. 0 \in 0..Tables
      BY ServiceAssumption DEF Boot!StartupAssumption
    <3> QED BY <1>4, <3>1 DEF Boot!CommandStarts, Boot!CommandEnds, BootInv, Boot!TypeOK
  <2> QED BY <1>1, <2>1, <2>2, <2>3, <2>4, StagesMove DEF BootInv, Boot!TypeOK
<1> QED BY <1>2, <1>3, <1>4, StartKeeps, WritesKeep DEF Boot!Next

LEMMA BootRests == BootInv /\ UNCHANGED bootVars => BootInv'
BY DEF bootVars, BootInv, Boot!TypeOK, EntriesFit, ReadsAll, KnowsAll

(* Once the API is up the registry has the photo of every result, as its review     *)
(* left it, but for those that a review or another process met within the backfill. *)
THEOREM RegistryKnowsPhotos == Spec => []RegistryMatches
<1>1. Init => BootInv
  BY BootInit DEF Init
<1>2. BootInv /\ [Next]_vars => BootInv'
  BY StepOfEach, BootStep, BootRests
<1>3. BootInv => RegistryMatches
  BY DEF BootInv, KnowsAll, EntriesFit, Fits, RegistryMatches, Boot!RegistryMatches, Boot!TypeOK,
         Boot!Statuses
<1> QED BY <1>1, <1>2, <1>3, PTL DEF Spec

-----------------------------------------------------------------------------
(* Schedules: presets. What a row or a save that is under way names exists, or was *)
(* deleted while a save overlapped; what a deletion is about to remove is named by *)
(* no row, or by one that was saved since.                                     *)

Whole(x) ==
  /\ x = [enabled |-> x.enabled, deleted |-> x.deleted, expr |-> x.expr, preset |-> x.preset,
          notes |-> x.notes, last |-> x.last, next |-> x.next]
  /\ x.preset \in Presets /\ x.notes \subseteq Notifications
RowsNameExisting ==
  \A s \in DOMAIN rows : Whole(rows[s]) /\ Calendar!Refs(rows[s]) \subseteq presets \cup lost
SavesNameExisting ==
  \A r \in Requests : Calendar!Saves(r) =>
    request[r].form \in Forms /\ Calendar!Refs(request[r].form) \subseteq presets \cup lost
DropsUnused ==
  \A r \in Requests : Calendar!Dropping(r) /\ request[r].preset \notin lost =>
    ~Calendar!Uses(request[r].preset)

NamesInv == DOMAIN request = Requests /\ RowsNameExisting /\ SavesNameExisting /\ DropsUnused

LEMMA NamesInit == Calendar!Init => NamesInv
<1> SUFFICES ASSUME Calendar!Init PROVE NamesInv
  OBVIOUS
<1>1. \A r \in Requests : ~Calendar!Saves(r) /\ ~Calendar!Dropping(r)
  BY DEF Calendar!Init, Calendar!Saves, Calendar!Dropping, Calendar!Idle
<1>2. \A s \in DOMAIN rows : rows[s] \in Calendar!RowSet
  BY ServiceAssumption DEF Calendar!Init, Calendar!SchedulesAssumption
<1>3. RowsNameExisting
  BY <1>2 DEF Calendar!Init, RowsNameExisting, Whole, Calendar!RowSet, Calendar!Refs, Calendar!Names
<1> QED BY <1>1, <1>3 DEF NamesInv, SavesNameExisting, DropsUnused, Calendar!Init

\* Rows that get no other names, while requests end.
LEMMA RowsKeepNames ==
  ASSUME NamesInv, UNCHANGED <<presets, lost>>, DOMAIN rows' = DOMAIN rows,
         \A s \in DOMAIN rows : Whole(rows'[s]) /\ Calendar!Refs(rows'[s]) = Calendar!Refs(rows[s]),
         request' = request \/ \E r \in Requests : Calendar!Ends(r)
  PROVE  NamesInv'
<1> USE DEF NamesInv
<1>1. DOMAIN request' = Requests /\ \A r \in Requests : request'[r] = request[r] \/ request'[r].op = "none"
  BY DEF Calendar!Ends, Calendar!Idle
<1>2. RowsNameExisting' /\ DropsUnused'
  BY <1>1 DEF RowsNameExisting, DropsUnused, Calendar!Dropping, Calendar!Uses
<1>3. SavesNameExisting'
  BY <1>1 DEF SavesNameExisting, Calendar!Saves
<1> QED BY <1>1, <1>2, <1>3

\* A request that begins.
LEMMA BeginNames ==
  ASSUME NamesInv, NEW r \in Requests, NEW what, Calendar!Begin(r, what),
         \/ what.op \in {"delete", "run"}
         \/ what.op \in {"create", "update"} /\ what.form \in Forms /\ Calendar!Valid(what.form)
         \/ what.op = "drop" /\ ~Calendar!Uses(what.preset)
  PROVE  NamesInv'
<1> USE DEF NamesInv
<1>1. UNCHANGED <<rows, presets, lost>> /\ request' = [request EXCEPT ![r] = what]
  BY DEF Calendar!Begin, Calendar!scheduleVars, Calendar!historyVars
<1>2. DOMAIN request' = Requests /\ \A q \in Requests : request'[q] = IF q = r THEN what ELSE request[q]
  BY <1>1
<1>3. RowsNameExisting'
  BY <1>1 DEF RowsNameExisting
<1>4. SavesNameExisting'
  BY <1>1, <1>2 DEF SavesNameExisting, Calendar!Saves, Calendar!Valid
<1>5. DropsUnused'
  BY <1>1, <1>2 DEF DropsUnused, Calendar!Dropping, Calendar!Uses
<1> QED BY <1>2, <1>3, <1>4, <1>5

\* A save that ends: a row gets names of its form.
LEMMA SaveNames ==
  ASSUME NamesInv, NEW r \in Requests, Calendar!Saves(r), Calendar!Ends(r), UNCHANGED presets,
         lost' = lost \cup Calendar!Meets(request[r].form),
         \A s \in DOMAIN rows' :
           Whole(rows'[s]) /\ \A p \in Calendar!Refs(rows'[s]) :
             p \in Calendar!Refs(request[r].form) \/ (s \in DOMAIN rows /\ p \in Calendar!Refs(rows[s]))
  PROVE  NamesInv'
<1> USE DEF NamesInv
<1>1. /\ DOMAIN request' = Requests
      /\ \A q \in Requests : request'[q] = request[q] \/ request'[q].op = "none"
  BY DEF Calendar!Ends, Calendar!Idle
<1>2. RowsNameExisting'
  BY DEF RowsNameExisting, SavesNameExisting
<1>3. SavesNameExisting'
  BY <1>1 DEF SavesNameExisting, Calendar!Saves
<1>4. DropsUnused'
  <2> SUFFICES ASSUME NEW q \in Requests, Calendar!Dropping(q)', request'[q].preset \notin lost',
                      NEW s \in DOMAIN rows', request'[q].preset \in Calendar!Refs(rows'[s])
               PROVE  FALSE
    BY DEF DropsUnused, Calendar!Uses
  <2>1. request'[q] = request[q] /\ Calendar!Dropping(q)
    BY <1>1 DEF Calendar!Dropping
  <2>2. request[q].preset \notin Calendar!Refs(request[r].form)
    BY <2>1 DEF Calendar!Meets
  <2> QED BY <2>1, <2>2 DEF DropsUnused, Calendar!Uses
<1> QED BY <1>1, <1>2, <1>3, <1>4

LEMMA CreateNames ==
  ASSUME NamesInv, NEW r \in Requests, Calendar!Create(r)
  PROVE  NamesInv'
<1> DEFINE s == request[r].row
           form == request[r].form
           new == [enabled |-> form.enabled, deleted |-> FALSE, expr |-> form.expr,
                   preset |-> form.preset, notes |-> form.notes, last |-> NoTime,
                   next |-> IF form.enabled THEN Calendar!NextRun(form.expr, NoTime, clock, Zone) ELSE NoTime]
<1>1. /\ rows' = [q \in DOMAIN rows \cup {s} |-> IF q # s THEN rows[q] ELSE new]
      /\ Calendar!Saves(r) /\ Calendar!Ends(r) /\ lost' = lost \cup Calendar!Meets(form)
      /\ UNCHANGED presets
  BY DEF Calendar!Create, Calendar!Saves
<1>2. form \in Forms
  BY <1>1 DEF NamesInv, SavesNameExisting
<1>3. form.preset \in Presets /\ form.notes \subseteq Notifications
  BY <1>2, ServiceAssumption DEF Calendar!SchedulesAssumption, Calendar!FormSet
<1>4. Whole(new) /\ Calendar!Refs(new) = Calendar!Refs(form)
  BY <1>3 DEF Whole, Calendar!Refs
<1> HIDE DEF new, form, s
<1>5. \A q \in DOMAIN rows' :
        Whole(rows'[q]) /\ \A p \in Calendar!Refs(rows'[q]) :
          p \in Calendar!Refs(form) \/ (q \in DOMAIN rows /\ p \in Calendar!Refs(rows[q]))
  BY <1>1, <1>4 DEF NamesInv, RowsNameExisting
<1> QED BY <1>1, <1>5, SaveNames DEF form

LEMMA UpdateNames ==
  ASSUME NamesInv, NEW r \in Requests, Calendar!Update(r)
  PROVE  NamesInv'
<1> DEFINE s == request[r].row
           form == request[r].form
<1>1. /\ Calendar!Saves(r) /\ Calendar!Ends(r) /\ lost' = lost \cup Calendar!Meets(form)
      /\ UNCHANGED presets
  BY DEF Calendar!Update, Calendar!Saves
<1>2. form \in Forms
  BY <1>1 DEF NamesInv, SavesNameExisting
<1>3. form.preset \in Presets /\ form.notes \subseteq Notifications
  BY <1>2, ServiceAssumption DEF Calendar!SchedulesAssumption, Calendar!FormSet
<1> DEFINE seen == request[r].seen
           Written(new, read, old) == IF new # read THEN new ELSE old
           enabled == Written(form.enabled, seen.enabled, rows[s].enabled)
           expr == Written(form.expr, seen.expr, rows[s].expr)
           name == Written(form.preset, seen.preset, rows[s].preset)
           notes == (rows[s].notes \ (seen.notes \ form.notes)) \cup (form.notes \ seen.notes)
           next == Written(IF form.enabled THEN Calendar!NextRun(form.expr, seen.last, clock, Zone) ELSE NoTime,
                           seen.next, rows[s].next)
<1>4. rows' = [rows EXCEPT ![s] = [@ EXCEPT !.enabled = enabled, !.expr = expr, !.preset = name,
                                            !.notes = notes, !.next = next]]
  BY DEF Calendar!Update
<1>5. name \in {form.preset, rows[s].preset} /\ notes \subseteq rows[s].notes \cup form.notes
  OBVIOUS
<1> HIDE DEF enabled, expr, name, notes, next, Written, seen
<1> HIDE DEF form, s
<1>6. \A q \in DOMAIN rows' :
        Whole(rows'[q]) /\ \A p \in Calendar!Refs(rows'[q]) :
          p \in Calendar!Refs(form) \/ (q \in DOMAIN rows /\ p \in Calendar!Refs(rows[q]))
  <2> SUFFICES ASSUME NEW q \in DOMAIN rows'
               PROVE  Whole(rows'[q]) /\ \A p \in Calendar!Refs(rows'[q]) :
                        p \in Calendar!Refs(form) \/ (q \in DOMAIN rows /\ p \in Calendar!Refs(rows[q]))
    OBVIOUS
  <2>1. q \in DOMAIN rows /\ Whole(rows[q])
    BY <1>4 DEF NamesInv, RowsNameExisting
  <2>2. CASE q # s
    BY <1>4, <2>1, <2>2
  <2>3. CASE q = s
    <3>1. rows'[q] = [rows[q] EXCEPT !.enabled = enabled, !.expr = expr, !.preset = name,
                                     !.notes = notes, !.next = next]
      BY <1>4, <2>1, <2>3
    <3>2. rows'[q] = [enabled |-> enabled, deleted |-> rows[q].deleted, expr |-> expr,
                      preset |-> name, notes |-> notes, last |-> rows[q].last, next |-> next]
      BY <2>1, <3>1 DEF Whole
    <3>3. rows'[q].preset = name /\ rows'[q].notes = notes
      BY <3>2
    <3>4. Whole(rows'[q])
      BY <1>3, <1>5, <2>1, <2>3, <3>2, <3>3 DEF Whole
    <3> QED BY <1>5, <2>1, <2>3, <3>3, <3>4 DEF Calendar!Refs
  <2> QED BY <2>2, <2>3
<1> QED BY <1>1, <1>6, SaveNames DEF form

\* The end of a run, by hand or by the scheduler, changes other columns.
LEMMA RanWhole ==
  ASSUME NEW x, Whole(x), NEW last, NEW next, NEW y, y = [x EXCEPT !.last = last, !.next = next]
  PROVE  Whole(y) /\ Calendar!Refs(y) = Calendar!Refs(x)
<1>1. y = [enabled |-> x.enabled, deleted |-> x.deleted, expr |-> x.expr, preset |-> x.preset,
           notes |-> x.notes, last |-> last, next |-> next]
  BY DEF Whole
<1>2. y.preset = x.preset /\ y.notes = x.notes
  BY <1>1
<1> QED BY <1>1, <1>2 DEF Whole, Calendar!Refs

LEMMA MarksNames ==
  ASSUME NamesInv, NEW s, NEW new, rows' = [rows EXCEPT ![s] = new],
         s \in DOMAIN rows => Whole(new) /\ Calendar!Refs(new) = Calendar!Refs(rows[s]),
         UNCHANGED <<presets, lost>>, request' = request \/ \E r \in Requests : Calendar!Ends(r)
  PROVE  NamesInv'
<1>1. ASSUME NEW q \in DOMAIN rows
      PROVE  Whole(rows'[q]) /\ Calendar!Refs(rows'[q]) = Calendar!Refs(rows[q])
  BY DEF NamesInv, RowsNameExisting
<1>2. DOMAIN rows' = DOMAIN rows
  OBVIOUS
<1> QED BY <1>1, <1>2, RowsKeepNames

LEMMA DropNames ==
  ASSUME NamesInv, NEW r \in Requests, Calendar!Drop(r)
  PROVE  NamesInv'
<1> USE DEF NamesInv
<1> DEFINE p == request[r].preset
<1>1. /\ Calendar!Dropping(r) /\ Calendar!Ends(r) /\ presets' = presets \ {p}
      /\ rows' = IF p \notin Notifications THEN rows
                 ELSE [s \in DOMAIN rows |-> [rows[s] EXCEPT !.notes = @ \ {p}]]
      /\ lost' = IF \E q \in Requests : Calendar!Saves(q) /\ p \in Calendar!Refs(request[q].form)
                 THEN lost \cup {p} ELSE lost
  BY DEF Calendar!Drop
<1> HIDE DEF p
<1>2. DOMAIN request' = Requests /\ \A q \in Requests : request'[q] = request[q] \/ request'[q].op = "none"
  BY <1>1 DEF Calendar!Ends, Calendar!Idle
<1>3. ASSUME NEW s \in DOMAIN rows
      PROVE  /\ Whole(rows'[s]) /\ Calendar!Refs(rows'[s]) \subseteq Calendar!Refs(rows[s])
             /\ p \in Calendar!Refs(rows'[s]) => p \in lost
  <2>1. Whole(rows[s])
    BY DEF RowsNameExisting
  <2>2. CASE p \notin Notifications
    BY <1>1, <2>1, <2>2 DEF DropsUnused, Calendar!Uses, p
  <2>3. CASE p \in Notifications
    <3>1. rows'[s] = [enabled |-> rows[s].enabled, deleted |-> rows[s].deleted, expr |-> rows[s].expr,
                      preset |-> rows[s].preset, notes |-> rows[s].notes \ {p}, last |-> rows[s].last,
                      next |-> rows[s].next]
      BY <1>1, <2>1, <2>3 DEF Whole
    <3>2. p # rows[s].preset
      BY <2>1, <2>3, ServiceAssumption DEF Whole, Calendar!SchedulesAssumption
    <3>3. rows'[s].preset = rows[s].preset /\ rows'[s].notes = rows[s].notes \ {p}
      BY <3>1
    <3> QED BY <2>1, <3>1, <3>2, <3>3 DEF Whole, Calendar!Refs
  <2> QED BY <2>2, <2>3
<1>4. DOMAIN rows' = DOMAIN rows /\ lost \subseteq lost'
  BY <1>1
<1>5. RowsNameExisting'
  BY <1>1, <1>3, <1>4 DEF RowsNameExisting
<1>6. SavesNameExisting'
  BY <1>1, <1>2, <1>4 DEF SavesNameExisting, Calendar!Saves
<1>7. DropsUnused'
  BY <1>2, <1>3, <1>4 DEF DropsUnused, Calendar!Uses, Calendar!Dropping
<1> QED BY <1>2, <1>5, <1>6, <1>7

LEMMA NamesStep == NamesInv /\ Calendar!Next => NamesInv'
<1> SUFFICES ASSUME NamesInv, Calendar!Next PROVE NamesInv'
  OBVIOUS
<1>0. \A s \in DOMAIN rows : Whole(rows[s])
  BY DEF NamesInv, RowsNameExisting
<1>1. ASSUME NEW r \in Requests, NEW s \in Schedules, NEW form \in Forms,
             Calendar!CreateBegins(r, s, form) \/ Calendar!UpdateBegins(r, s, form)
      PROVE  NamesInv'
  <2>1. PICK what : /\ Calendar!Begin(r, what) /\ what.op \in {"create", "update"}
                    /\ what.form = form /\ Calendar!Valid(form)
    <3>1. CASE Calendar!CreateBegins(r, s, form)
      <4> DEFINE what == [op |-> "create", row |-> s, form |-> form]
      <4>1. Calendar!Begin(r, what) /\ Calendar!Valid(form)
        BY <3>1 DEF Calendar!CreateBegins
      <4>2. what.op = "create" /\ what.form = form
        OBVIOUS
      <4> QED BY <4>1, <4>2
    <3>2. CASE Calendar!UpdateBegins(r, s, form)
      <4> DEFINE what == [op |-> "update", row |-> s, form |-> form, seen |-> rows[s]]
      <4>1. Calendar!Begin(r, what) /\ Calendar!Valid(form)
        BY <3>2 DEF Calendar!UpdateBegins
      <4>2. what.op = "update" /\ what.form = form
        OBVIOUS
      <4> QED BY <4>1, <4>2
    <3> QED BY <1>1, <3>1, <3>2
  <2> QED BY <2>1, BeginNames
<1>2. ASSUME NEW r \in Requests, NEW s \in Schedules,
             Calendar!DeleteBegins(r, s) \/ Calendar!RunNowBegins(r, s)
      PROVE  NamesInv'
  <2>1. CASE Calendar!DeleteBegins(r, s)
    <3> DEFINE what == [op |-> "delete", row |-> s, seen |-> rows[s]]
    <3>1. Calendar!Begin(r, what) /\ what.op = "delete"
      BY <2>1 DEF Calendar!DeleteBegins
    <3> HIDE DEF what
    <3> QED BY <3>1, BeginNames
  <2>2. CASE Calendar!RunNowBegins(r, s)
    <3> DEFINE what == [op |-> "run", row |-> s]
    <3>1. Calendar!Begin(r, what) /\ what.op = "run"
      BY <2>2 DEF Calendar!RunNowBegins
    <3> HIDE DEF what
    <3> QED BY <3>1, BeginNames
  <2> QED BY <1>2, <2>1, <2>2
<1>3. ASSUME NEW r \in Requests, NEW p \in Calendar!Names, Calendar!DropBegins(r, p)
      PROVE  NamesInv'
  <2> DEFINE what == [op |-> "drop", preset |-> p]
  <2>1. Calendar!Begin(r, what) /\ ~Calendar!Uses(p) /\ what.op = "drop" /\ what.preset = p
    BY <1>3 DEF Calendar!DropBegins
  <2> HIDE DEF what
  <2> QED BY <2>1, BeginNames
<1>4. ASSUME NEW r \in Requests, NEW p \in Calendar!Names, Calendar!CreatePreset(r, p)
      PROVE  NamesInv'
  BY <1>4 DEF Calendar!CreatePreset, Calendar!historyVars, NamesInv, RowsNameExisting, SavesNameExisting,
              DropsUnused, Calendar!Saves, Calendar!Dropping, Calendar!Uses
<1>5. ASSUME NEW r \in Requests, Calendar!Delete(r) \/ Calendar!RunNow(r) \/ Calendar!RequestFails(r)
      PROVE  NamesInv'
  <2> DEFINE s == request[r].row
             seen == request[r].seen
  <2>1. CASE Calendar!Delete(r)
    <3> DEFINE enabled == IF seen.enabled THEN FALSE ELSE rows[s].enabled
               next == IF seen.next = NoTime THEN rows[s].next ELSE NoTime
               gone == TRUE
               new == [rows[s] EXCEPT !.deleted = gone, !.enabled = enabled, !.next = next]
    <3>1. rows' = [rows EXCEPT ![s] = new] /\ UNCHANGED <<presets, lost>> /\ Calendar!Ends(r)
      BY <2>1 DEF Calendar!Delete, Calendar!historyVars
    <3> HIDE DEF enabled, next, gone, s
    <3>2. ASSUME s \in DOMAIN rows
          PROVE  Whole(new) /\ Calendar!Refs(new) = Calendar!Refs(rows[s])
      <4>1. PICK x : x = rows[s] /\ Whole(x)
        BY <1>0, <3>2
      <4>2. new = [x EXCEPT !.deleted = gone, !.enabled = enabled, !.next = next]
        BY <4>1
      <4> HIDE DEF new
      <4>3. new = [enabled |-> enabled, deleted |-> gone, expr |-> x.expr, preset |-> x.preset,
                   notes |-> x.notes, last |-> x.last, next |-> next]
        BY <4>1, <4>2 DEF Whole
      <4>4. new.preset = x.preset /\ new.notes = x.notes
        BY <4>3
      <4> QED BY <4>1, <4>3, <4>4 DEF Whole, Calendar!Refs
    <3> HIDE DEF new
    <3> QED BY <3>1, <3>2, MarksNames
  <2>2. CASE Calendar!RunNow(r)
    <3> DEFINE next == IF rows[s].enabled THEN Calendar!NextRun(rows[s].expr, clock, clock, 0)
                       ELSE rows[s].next
               new == [rows[s] EXCEPT !.last = clock, !.next = next]
    <3>1. rows' = [rows EXCEPT ![s] = new] /\ UNCHANGED <<presets, lost>> /\ Calendar!Ends(r)
      BY <2>2 DEF Calendar!RunNow
    <3> HIDE DEF next, s
    <3>2. new = [rows[s] EXCEPT !.last = clock, !.next = next]
      OBVIOUS
    <3> HIDE DEF new
    <3>3. s \in DOMAIN rows => Whole(new) /\ Calendar!Refs(new) = Calendar!Refs(rows[s])
      BY <1>0, <3>2, RanWhole
    <3> QED BY <3>1, <3>3, MarksNames
  <2>3. CASE Calendar!RequestFails(r)
    <3>1. UNCHANGED <<rows, presets, lost>> /\ Calendar!Ends(r)
      BY <2>3 DEF Calendar!RequestFails, Calendar!scheduleVars, Calendar!historyVars
    <3> QED BY <1>0, <3>1, RowsKeepNames
  <2> QED BY <1>5, <2>1, <2>2, <2>3
<1>6. CASE Calendar!Record
  <2> DEFINE s == tick.cur
             next == Calendar!NextRun(rows[s].expr, tick.now, tick.now, Zone)
             new == [rows[s] EXCEPT !.last = tick.now, !.next = next]
  <2>1. rows' = [rows EXCEPT ![s] = new] /\ UNCHANGED <<presets, lost, request>>
    BY <1>6 DEF Calendar!Record
  <2> HIDE DEF next, s
  <2>2. new = [rows[s] EXCEPT !.last = tick.now, !.next = next]
    OBVIOUS
  <2> HIDE DEF new
  <2>3. s \in DOMAIN rows => Whole(new) /\ Calendar!Refs(new) = Calendar!Refs(rows[s])
    BY <1>0, <2>2, RanWhole
  <2> QED BY <2>1, <2>3, MarksNames
<1>7. CASE UNCHANGED <<rows, presets, lost, request>>
  BY <1>0, <1>7, RowsKeepNames
<1>8. CASE Calendar!Scheduler \/ Calendar!Crash \/ Calendar!Tick
  BY <1>6, <1>7, <1>8
  DEF Calendar!Scheduler, Calendar!TickBegins, Calendar!TickEnds, Calendar!TickSkips, Calendar!Enqueue,
      Calendar!Crash, Calendar!Tick, Calendar!scheduleVars, Calendar!historyVars
<1>9. CASE Calendar!Api
  BY <1>1, <1>2, <1>3, <1>4, <1>5, <1>9, CreateNames, UpdateNames, DropNames DEF Calendar!Api
<1> QED BY <1>8, <1>9 DEF Calendar!Next

LEMMA NamesRest == NamesInv /\ UNCHANGED calendarVars => NamesInv'
BY DEF calendarVars, NamesInv, RowsNameExisting, SavesNameExisting, DropsUnused, Calendar!Saves,
       Calendar!Dropping, Calendar!Uses, Calendar!Refs

(* What a schedule names exists, deleted schedules included: a preset is gone from   *)
(* under one only if its deletion overlapped a save of the schedule.             *)
THEOREM SchedulesNameExisting == Spec => []LivePresetsExist
<1>1. Init => NamesInv
  BY NamesInit DEF Init
<1>2. NamesInv /\ [Next]_vars => NamesInv'
  BY StepOfEach, NamesStep, NamesRest
<1>3. NamesInv => LivePresetsExist
  BY DEF NamesInv, RowsNameExisting, LivePresetsExist, Calendar!LivePresetsExist
<1> QED BY <1>1, <1>2, <1>3, PTL DEF Spec

-----------------------------------------------------------------------------
(* The calendar. Days and weeks are intervals of slots, whatever their lengths.   *)

LEMMA CalendarConstants ==
  /\ SlotsPerDay \in Nat /\ SlotsPerDay >= 1 /\ DaysPerWeek \in Nat /\ DaysPerWeek >= 1
  /\ Zone \in Nat /\ NoTime \notin Int
BY ServiceAssumption DEF Calendar!SchedulesAssumption

LEMMA Quotient ==
  ASSUME NEW a \in Int, NEW b \in Nat, b >= 1
  PROVE  /\ a \div b \in Int /\ a % b \in 0..(b - 1) /\ a = (a \div b) * b + (a % b)
OBVIOUS

LEMMA Larger ==
  ASSUME NEW p \in Int, NEW q \in Int, p < q, NEW b \in Nat, b >= 1
  PROVE  p * b + b <= q * b
<1>1. q = p + 1 + (q - p - 1) /\ q - p - 1 \in Nat
  OBVIOUS
<1> DEFINE k == q - p - 1
<1>2. q * b = p * b + b + k * b
  BY <1>1
<1>3. k * b >= 0
  BY <1>1
<1> QED BY <1>2, <1>3

LEMMA QuotientIs ==
  ASSUME NEW a \in Int, NEW b \in Nat, b >= 1, NEW q \in Int, NEW r \in 0..(b - 1), a = q * b + r
  PROVE  a \div b = q /\ a % b = r
<1> DEFINE p == a \div b
           s == a % b
<1>1. p \in Int /\ s \in 0..(b - 1) /\ a = p * b + s
  BY Quotient
<1> HIDE DEF p, s
<1>2. ~(p < q)
  <2>1. SUFFICES ASSUME p < q PROVE FALSE
    OBVIOUS
  <2>2. p * b + b <= q * b
    BY <1>1, <2>1, Larger
  <2>3. p * b \in Int /\ q * b \in Int
    BY <1>1
  <2> QED BY <1>1, <2>2, <2>3
<1>3. ~(q < p)
  <2>1. SUFFICES ASSUME q < p PROVE FALSE
    OBVIOUS
  <2>2. q * b + b <= p * b
    BY <1>1, <2>1, Larger
  <2>3. p * b \in Int /\ q * b \in Int
    BY <1>1
  <2> QED BY <1>1, <2>2, <2>3
<1>4. p = q
  BY <1>1, <1>2, <1>3
<1>5. r = s
  <2>1. q * b \in Int
    OBVIOUS
  <2> QED BY <1>1, <1>4, <2>1
<1> QED BY <1>4, <1>5 DEF p, s

\* The slots of a day.
LEMMA DayIs ==
  ASSUME NEW m \in Int, NEW d \in Int
  PROVE  /\ Calendar!Day(m, Zone) \in Int
         /\ Calendar!Day(m, Zone) = d <=>
              d * SlotsPerDay - Zone <= m /\ m < d * SlotsPerDay - Zone + SlotsPerDay
<1> DEFINE day == Calendar!Day(m, Zone)
           rest == (m + Zone) % SlotsPerDay
           begin == d * SlotsPerDay
<1>0. PICK a \in Int : a = m + Zone
  BY CalendarConstants
<1>1. day \in Int /\ rest \in 0..(SlotsPerDay - 1) /\ a = day * SlotsPerDay + rest
  <2>1. day = a \div SlotsPerDay /\ rest = a % SlotsPerDay
    BY <1>0 DEF Calendar!Day
  <2> QED BY <2>1, CalendarConstants, Quotient
<1>2. ASSUME begin - Zone <= m, m < begin - Zone + SlotsPerDay
      PROVE  day = d
  <2>1. begin \in Int
    BY CalendarConstants
  <2> HIDE DEF begin
  <2>2. PICK r \in 0..(SlotsPerDay - 1) : a = begin + r
    <3>1. a - begin \in 0..(SlotsPerDay - 1) /\ a = begin + (a - begin)
      BY <1>0, <1>2, <2>1, CalendarConstants
    <3> QED BY <3>1
  <2>3. a = d * SlotsPerDay + r
    BY <2>2 DEF begin
  <2>4. a \div SlotsPerDay = d
    BY <2>3, CalendarConstants, QuotientIs
  <2> QED BY <1>0, <2>4 DEF Calendar!Day
<1>3. ASSUME day = d
      PROVE  begin - Zone <= m /\ m < begin - Zone + SlotsPerDay
  <2>1. begin \in Int /\ m + Zone = begin + rest
    BY <1>0, <1>1, <1>3, CalendarConstants
  <2> HIDE DEF begin, rest, day
  <2> QED BY <1>1, <2>1, CalendarConstants
<1> QED BY <1>1, <1>2, <1>3

LEMMA DaysGrow ==
  ASSUME NEW m \in Int, NEW n \in Int, m <= n
  PROVE  Calendar!Day(m, Zone) <= Calendar!Day(n, Zone)
<1> DEFINE d == Calendar!Day(m, Zone)
           e == Calendar!Day(n, Zone)
<1>1. /\ d \in Int /\ d * SlotsPerDay - Zone <= m
      /\ e \in Int /\ n < e * SlotsPerDay - Zone + SlotsPerDay
  BY DayIs
<1> HIDE DEF d, e
<1>2. ~(e < d)
  <2>1. SUFFICES ASSUME e < d PROVE FALSE
    OBVIOUS
  <2>2. e * SlotsPerDay + SlotsPerDay <= d * SlotsPerDay
    BY <1>1, <2>1, CalendarConstants, Larger
  <2>3. e * SlotsPerDay \in Int /\ d * SlotsPerDay \in Int
    BY <1>1, CalendarConstants
  <2> QED BY <1>1, <2>2, <2>3, CalendarConstants
<1> QED BY <1>1, <1>2 DEF d, e

\* A moment of a day, at the time of the expression.
LEMMA MomentIs ==
  ASSUME NEW x \in Calendar!ExprSet, NEW d \in Int
  PROVE  /\ Calendar!On(d, x, Zone) \in Int
         /\ Calendar!On(d, x, Zone) = d * SlotsPerDay + Calendar!At(x) - Zone
         /\ Calendar!At(x) \in 0..(SlotsPerDay - 1)
         /\ Calendar!Day(Calendar!On(d, x, Zone), Zone) = d
<1>1. Calendar!At(x) \in 0..(SlotsPerDay - 1)
  BY CalendarConstants DEF Calendar!At, Calendar!ExprSet, Calendar!Midnight
<1>2. Calendar!On(d, x, Zone) = d * SlotsPerDay + Calendar!At(x) - Zone
  BY DEF Calendar!On
<1>3. d * SlotsPerDay \in Int
  BY CalendarConstants
<1>4. Calendar!On(d, x, Zone) \in Int
  BY <1>1, <1>2, <1>3, CalendarConstants
<1>5. /\ d * SlotsPerDay - Zone <= Calendar!On(d, x, Zone)
      /\ Calendar!On(d, x, Zone) < d * SlotsPerDay - Zone + SlotsPerDay
  BY <1>1, <1>2, <1>3, CalendarConstants
<1> QED BY <1>1, <1>2, <1>4, <1>5, DayIs

LEMMA DayBegins ==
  ASSUME NEW m \in Int, NEW d \in Int
  PROVE  d * SlotsPerDay - Zone \in Int /\ (d <= Calendar!Day(m, Zone) <=> d * SlotsPerDay - Zone <= m)
<1> DEFINE day == Calendar!Day(m, Zone)
           S == SlotsPerDay
<1>1. /\ day \in Int /\ day * S - Zone <= m /\ m < day * S - Zone + S
      /\ S \in Nat /\ S >= 1 /\ Zone \in Nat /\ day * S \in Int /\ d * S \in Int
  BY DayIs, CalendarConstants
<1> HIDE DEF day, S
<1>2. CASE d <= day
  <2>1. d * S <= day * S
    <3>1. d < day => d * S + S <= day * S
      BY <1>1, Larger
    <3>2. d = day => d * S = day * S
      OBVIOUS
    <3> QED BY <1>1, <1>2, <3>1, <3>2
  <2> QED BY <1>1, <1>2, <2>1 DEF day, S
<1>3. CASE ~(d <= day)
  <2>1. day * S + S <= d * S
    BY <1>1, <1>3, Larger
  <2>2. ~(d * S - Zone <= m)
    BY <1>1, <2>1
  <2> QED BY <1>1, <1>3, <2>2 DEF day, S
<1> QED BY <1>2, <1>3

\* A schedule is due only when a period has begun since its last run.
LEMMA DueBegins ==
  ASSUME NEW x \in Calendar!ExprSet, NEW last \in Int, NEW moment \in Int, Calendar!ShouldRun(x, last, moment)
  PROVE  \E n \in Int : last < n /\ n <= moment /\ Calendar!PeriodBegins(x, n)
<1> DEFINE d == Calendar!Day(moment, Zone)
<1>0. d \in Int /\ last # NoTime
  BY DayIs, CalendarConstants
<1>1. CASE x.kind = "daily" /\ x.at = NoTime
  <2>1. Calendar!Day(last, Zone) < d
    BY <1>0, <1>1 DEF Calendar!ShouldRun
  <2> DEFINE n == Calendar!On(d, x, Zone)
  <2>2. n = d * SlotsPerDay - Zone
    BY <1>0, <1>1, CalendarConstants DEF Calendar!On, Calendar!At, Calendar!Midnight
  <2>3. n \in Int /\ n <= moment /\ last < n
    <3>1. d * SlotsPerDay - Zone <= moment /\ d * SlotsPerDay - Zone \in Int
      BY <1>0, DayBegins
    <3>2. ~(d * SlotsPerDay - Zone <= last)
      <4>1. Calendar!Day(last, Zone) \in Int /\ ~(d <= Calendar!Day(last, Zone))
        BY <1>0, <2>1, DayIs
      <4> QED BY <1>0, <4>1, DayBegins
    <3> QED BY <2>2, <3>1, <3>2
  <2>4. Calendar!Day(n, Zone) = d
    BY <1>0, MomentIs
  <2>5. Calendar!PeriodBegins(x, n)
    BY <1>1, <2>4 DEF Calendar!PeriodBegins, Calendar!OnDay
  <2> QED BY <2>3, <2>5
<1>2. CASE x.kind # "daily" /\ x.days = {}
  <2> DEFINE then == Calendar!Day(last, Zone)
             w == d \div DaysPerWeek
             v == then \div DaysPerWeek
             first == w * DaysPerWeek
             n == first * SlotsPerDay - Zone
  <2>1. then \in Int
    BY DayIs
  <2>2. /\ w \in Int /\ v \in Int /\ v < w
        /\ d % DaysPerWeek \in 0..(DaysPerWeek - 1) /\ then % DaysPerWeek \in 0..(DaysPerWeek - 1)
        /\ d = w * DaysPerWeek + (d % DaysPerWeek) /\ then = v * DaysPerWeek + (then % DaysPerWeek)
    <3>1. v < w
      BY <1>0, <1>2 DEF Calendar!ShouldRun, Calendar!Week
    <3> QED BY <1>0, <2>1, <3>1, CalendarConstants, Quotient
  <2>3. first \in Int /\ first <= d /\ ~(first <= then)
    <3>1. first \in Int /\ v * DaysPerWeek \in Int /\ v * DaysPerWeek + DaysPerWeek <= first
      <4> HIDE DEF v, w
      <4>1. v * DaysPerWeek + DaysPerWeek <= w * DaysPerWeek
        BY <2>2, CalendarConstants, Larger
      <4>2. w * DaysPerWeek \in Int /\ v * DaysPerWeek \in Int
        BY <2>2, CalendarConstants
      <4> QED BY <4>1, <4>2
    <3> HIDE DEF first, then, d
    <3>2. d = first + (d % DaysPerWeek)
      BY <2>2 DEF first
    <3> HIDE DEF w, v
    <3> QED BY <2>1, <2>2, <1>0, <3>1, <3>2, CalendarConstants
  <2>4. n \in Int /\ n <= moment /\ last < n
    <3>1. n \in Int /\ n <= moment /\ ~(n <= last)
      BY <2>3, DayBegins
    <3> HIDE DEF n
    <3> QED BY <3>1
  <2>5. Calendar!Day(n, Zone) = first
    <3>1. n < first * SlotsPerDay - Zone + SlotsPerDay
      <4>1. n + SlotsPerDay > n
        BY <2>4, CalendarConstants
      <4> QED BY <4>1
    <3>2. first * SlotsPerDay - Zone <= n
      BY <2>4
    <3> HIDE DEF n, first
    <3> QED BY <2>3, <2>4, <3>1, <3>2, DayIs
  <2>6. Calendar!Weekday(first) = 0
    <3>1. first = w * DaysPerWeek + 0 /\ 0 \in 0..(DaysPerWeek - 1)
      BY <2>3, CalendarConstants
    <3> HIDE DEF first, w
    <3>2. first % DaysPerWeek = 0
      BY <2>2, <2>3, <3>1, CalendarConstants, QuotientIs
    <3> QED BY <3>2 DEF Calendar!Weekday
  <2>7. Calendar!PeriodBegins(x, n)
    <3> HIDE DEF first
    <3> QED BY <1>2, <2>5, <2>6 DEF Calendar!PeriodBegins
  <2> HIDE DEF n
  <2> QED BY <2>4, <2>7
<1>3. CASE ~(x.kind = "daily" /\ x.at = NoTime) /\ ~(x.kind # "daily" /\ x.days = {})
  <2> DEFINE n == Calendar!On(d, x, Zone)
  <2>1. Calendar!OnDay(x, d) /\ n <= moment /\ last < n
    BY <1>0, <1>3 DEF Calendar!ShouldRun
  <2>2. n \in Int /\ Calendar!Day(n, Zone) = d
    BY <1>0, MomentIs
  <2>3. Calendar!PeriodBegins(x, n)
    BY <1>3, <2>1, <2>2 DEF Calendar!PeriodBegins
  <2> QED BY <2>1, <2>2, <2>3
<1> QED BY <1>1, <1>2, <1>3

\* Who has run since a moment is due in another period only.
LEMMA DueAgain ==
  ASSUME NEW x \in Calendar!ExprSet, NEW last \in Int, NEW moment \in Int, Calendar!ShouldRun(x, last, moment),
         NEW m \in Int, m <= last
  PROVE  ~Calendar!SamePeriod(x, m, moment)
<1>1. PICK n \in Int : last < n /\ n <= moment /\ Calendar!PeriodBegins(x, n)
  BY DueBegins
<1>2. n \in (m + 1)..moment
  BY <1>1
<1> QED BY <1>1, <1>2 DEF Calendar!SamePeriod

\* Of a set of days after another the first one.
LEMMA LeastNat ==
  ASSUME NEW T, T \subseteq Nat, T # {}
  PROVE  \E k \in T : \A j \in T : k <= j
<1> DEFINE less == OpToRel(<, Nat)
<1>1. PICK k \in T : \A j \in T : ~(<<j, k>> \in less)
  BY NatLessThanWellFounded, WFMin, Zenon
<1>2. ASSUME NEW j \in T
      PROVE  ~(j < k)
  BY <1>1 DEF OpToRel
<1> QED BY <1>2

LEMMA MomentsGrow ==
  ASSUME NEW x \in Calendar!ExprSet, NEW d \in Int, NEW e \in Int
  PROVE  /\ d < e => Calendar!On(d, x, Zone) + SlotsPerDay <= Calendar!On(e, x, Zone)
         /\ Calendar!On(d, x, Zone) < Calendar!On(e, x, Zone) => d < e
         /\ d <= e => Calendar!On(d, x, Zone) <= Calendar!On(e, x, Zone)
<1> DEFINE S == SlotsPerDay
           f == Calendar!On(d, x, Zone)
           g == Calendar!On(e, x, Zone)
           a == Calendar!At(x)
<1>1. /\ f \in Int /\ g \in Int /\ f = d * S + a - Zone /\ g = e * S + a - Zone
      /\ a \in Int /\ S \in Nat /\ S >= 1 /\ Zone \in Nat /\ d * S \in Int /\ e * S \in Int
  BY MomentIs, CalendarConstants
<1> HIDE DEF f, g, a, S
<1>2. d < e => f + S <= g
  <2>1. d < e => d * S + S <= e * S
    BY <1>1, Larger
  <2> QED BY <1>1, <2>1
<1>3. e < d => g + S <= f
  <2>1. e < d => e * S + S <= d * S
    BY <1>1, Larger
  <2> QED BY <1>1, <2>1
<1>4. d = e => f = g
  BY <1>1
<1>5. (f < g => d < e) /\ (d <= e => f <= g)
  BY <1>1, <1>2, <1>3, <1>4
<1> QED BY <1>2, <1>5 DEF f, g, S

\* The moment of a day is on this day, after all moments of earlier days.
LEMMA MomentBounds ==
  ASSUME NEW x \in Calendar!ExprSet, NEW since \in Int, NEW e \in Int, since < Calendar!On(e, x, Zone)
  PROVE  Calendar!Day(since, Zone) <= e
<1> DEFINE g == Calendar!On(e, x, Zone)
<1>1. g \in Int /\ Calendar!Day(g, Zone) = e
  BY MomentIs
<1>2. since <= g
  BY <1>1
<1> HIDE DEF g
<1> QED BY <1>1, <1>2, DaysGrow

LEMMA TomorrowLater ==
  ASSUME NEW x \in Calendar!ExprSet, NEW since \in Int, NEW e \in Int, Calendar!Day(since, Zone) < e
  PROVE  since < Calendar!On(e, x, Zone)
<1> DEFINE g == Calendar!On(e, x, Zone)
           d == Calendar!Day(since, Zone)
<1>1. g \in Int /\ Calendar!Day(g, Zone) = e /\ d \in Int
  BY MomentIs, DayIs
<1>2. g <= since => e <= d
  <2> HIDE DEF g
  <2> QED BY <1>1, DaysGrow
<1> HIDE DEF g, d
<1>3. since < g
  BY <1>1, <1>2 DEF d
<1> QED BY <1>3 DEF g

\* One form of should_run_automation for all expressions that have days.
LEMMA DueForm ==
  ASSUME NEW x \in Calendar!ExprSet, x.kind = "daily" \/ x.days # {}, NEW since \in Int, NEW m \in Int
  PROVE  Calendar!ShouldRun(x, since, m) <=>
           /\ Calendar!OnDay(x, Calendar!Day(m, Zone))
           /\ Calendar!On(Calendar!Day(m, Zone), x, Zone) <= m
           /\ since < Calendar!On(Calendar!Day(m, Zone), x, Zone)
<1> DEFINE e == Calendar!Day(m, Zone)
           d == Calendar!Day(since, Zone)
           g == Calendar!On(e, x, Zone)
<1>0. since # NoTime /\ e \in Int /\ d \in Int
  BY CalendarConstants, DayIs
<1>1. CASE x.kind = "daily" /\ x.at = NoTime
  <2>1. Calendar!ShouldRun(x, since, m) <=> d < e
    BY <1>0, <1>1 DEF Calendar!ShouldRun
  <2>2. g = e * SlotsPerDay - Zone
    BY <1>0, <1>1, CalendarConstants DEF Calendar!On, Calendar!At, Calendar!Midnight
  <2>3. g \in Int /\ g <= m /\ (e <= d <=> g <= since)
    <3>1. e <= e
      BY <1>0
    <3> QED BY <1>0, <2>2, <3>1, DayBegins
  <2>4. d < e <=> since < g
    <3> HIDE DEF g, d, e
    <3> QED BY <1>0, <2>3
  <2>5. Calendar!OnDay(x, e)
    BY <1>1 DEF Calendar!OnDay
  <2> QED BY <2>1, <2>3, <2>4, <2>5
<1>2. CASE ~(x.kind = "daily" /\ x.at = NoTime)
  BY <1>0, <1>2 DEF Calendar!ShouldRun
<1> QED BY <1>1, <1>2

\* The first moment of the expression is when it is due for the first time.
LEMMA FirstIsDue ==
  ASSUME NEW x \in Calendar!ExprSet, x.kind = "daily" \/ x.days # {}, NEW since \in Int,
         NEW d \in Int, Calendar!OnDay(x, d), since < Calendar!On(d, x, Zone),
         \A e \in Int : Calendar!OnDay(x, e) /\ since < Calendar!On(e, x, Zone) => d <= e
  PROVE  /\ Calendar!On(d, x, Zone) \in Int /\ Calendar!ShouldRun(x, since, Calendar!On(d, x, Zone))
         /\ \A m \in (since + 1)..(Calendar!On(d, x, Zone) - 1) : ~Calendar!ShouldRun(x, since, m)
<1> DEFINE n == Calendar!On(d, x, Zone)
<1>1. n \in Int /\ Calendar!Day(n, Zone) = d
  BY MomentIs
<1>2. Calendar!ShouldRun(x, since, n)
  <2>1. Calendar!On(Calendar!Day(n, Zone), x, Zone) <= n
    BY <1>1
  <2> QED BY <1>1, <2>1, DueForm
<1>3. ASSUME NEW m \in (since + 1)..(n - 1), Calendar!ShouldRun(x, since, m)
      PROVE  FALSE
  <2> DEFINE e == Calendar!Day(m, Zone)
             g == Calendar!On(e, x, Zone)
  <2>0. m \in Int /\ m < n
    BY <1>1, <1>3
  <2>1. e \in Int /\ Calendar!OnDay(x, e) /\ g <= m /\ since < g
    BY <1>3, <2>0, DayIs, DueForm
  <2>2. d <= e
    BY <2>1
  <2>3. g \in Int /\ n <= g
    BY <2>1, <2>2, MomentIs, MomentsGrow
  <2> HIDE DEF n, g
  <2> QED BY <1>1, <2>0, <2>1, <2>3
<1> QED BY <1>1, <1>2, <1>3

\* The days of the expression, from tomorrow on, until a week from now.
LEMMA DayComes ==
  ASSUME NEW w \in 0..(DaysPerWeek - 1), NEW d \in Int
  PROVE  \E k \in 1..DaysPerWeek : Calendar!Weekday(d + k) = w
<1> DEFINE a == w - d - 1
           q == a \div DaysPerWeek
           r == a % DaysPerWeek
<1>1. a \in Int /\ w \in Int
  BY CalendarConstants
<1>2. q \in Int /\ r \in 0..(DaysPerWeek - 1) /\ a = q * DaysPerWeek + r
  <2> HIDE DEF a
  <2> QED BY <1>1, CalendarConstants, Quotient
<1>3. q * DaysPerWeek \in Int /\ (0 - q) * DaysPerWeek = 0 - (q * DaysPerWeek)
  <2> HIDE DEF q
  <2> QED BY <1>2, CalendarConstants
<1>4. d + (r + 1) = (0 - q) * DaysPerWeek + w
  <2>1. w - d - 1 = q * DaysPerWeek + r
    BY <1>2
  <2> HIDE DEF q, r, a
  <2> QED BY <1>1, <1>2, <1>3, <2>1
<1> HIDE DEF q, r, a
<1>5. (d + (r + 1)) % DaysPerWeek = w
  <2>1. d + (r + 1) \in Int /\ 0 - q \in Int
    BY <1>2, CalendarConstants
  <2> QED BY <1>4, <2>1, CalendarConstants, QuotientIs
<1>6. r + 1 \in 1..DaysPerWeek
  BY <1>2, CalendarConstants
<1> QED BY <1>5, <1>6 DEF Calendar!Weekday

\* The first day of the expression after a moment.
LEMMA FirstDay ==
  ASSUME NEW x \in Calendar!ExprSet, x.kind = "daily" \/ x.days # {}, NEW since \in Int
  PROVE  \E d \in Calendar!Day(since, Zone)..(Calendar!Day(since, Zone) + DaysPerWeek) :
           /\ Calendar!OnDay(x, d) /\ since < Calendar!On(d, x, Zone)
           /\ \A e \in Int : Calendar!OnDay(x, e) /\ since < Calendar!On(e, x, Zone) => d <= e
<1> DEFINE day == Calendar!Day(since, Zone)
           T == {k \in Nat : Calendar!OnDay(x, day + k) /\ since < Calendar!On(day + k, x, Zone)}
<1>1. day \in Int
  BY DayIs
<1>2. PICK k \in 1..DaysPerWeek : Calendar!OnDay(x, day + k)
  <2>1. CASE x.kind = "daily"
    <3>1. 1 \in 1..DaysPerWeek
      BY CalendarConstants
    <3> QED BY <2>1, <3>1 DEF Calendar!OnDay
  <2>2. CASE x.days # {}
    <3>1. PICK w \in x.days : w \in 0..(DaysPerWeek - 1)
      BY <2>2 DEF Calendar!ExprSet
    <3> HIDE DEF day
    <3>2. PICK k \in 1..DaysPerWeek : Calendar!Weekday(day + k) = w
      BY <1>1, <3>1, DayComes
    <3> QED BY <3>1, <3>2 DEF Calendar!OnDay
  <2> QED BY <2>1, <2>2
<1>3. k \in Nat /\ k <= DaysPerWeek /\ day + k \in Int /\ day < day + k
  BY <1>1, <1>2, CalendarConstants
<1>4. k \in T
  BY <1>2, <1>3, TomorrowLater
<1>5. PICK f \in T : \A j \in T : f <= j
  <2> HIDE DEF T
  <2>1. T \subseteq Nat
    BY DEF T
  <2> QED BY <1>4, <2>1, LeastNat
<1>6. f \in Nat /\ f <= k /\ day + f \in day..(day + DaysPerWeek)
  <2>1. f \in Nat /\ f <= k
    BY <1>4, <1>5
  <2> HIDE DEF day, T
  <2> QED BY <1>1, <1>3, <2>1, CalendarConstants
<1>7. ASSUME NEW e \in Int, Calendar!OnDay(x, e), since < Calendar!On(e, x, Zone)
      PROVE  day + f <= e
  <2>1. day <= e
    BY <1>7, MomentBounds
  <2> HIDE DEF day
  <2>2. e - day \in Nat /\ day + (e - day) = e
    BY <1>1, <2>1
  <2>3. e - day \in T
    BY <1>7, <2>2
  <2>4. f <= e - day
    BY <1>5, <2>3
  <2> HIDE DEF T
  <2> QED BY <1>1, <1>6, <2>2, <2>4
<1>8. Calendar!OnDay(x, day + f) /\ since < Calendar!On(day + f, x, Zone)
  BY <1>5
<1> HIDE DEF T
<1> QED BY <1>6, <1>7, <1>8

\* _compute_next_run after a run finds that day.
LEMMA NextIsFirst ==
  ASSUME NEW x \in Calendar!ExprSet, x.valid, x.kind = "daily" \/ x.days # {}, NEW since \in Int,
         NEW d \in Calendar!Day(since, Zone)..(Calendar!Day(since, Zone) + DaysPerWeek),
         Calendar!OnDay(x, d), since < Calendar!On(d, x, Zone),
         \A e \in Int : Calendar!OnDay(x, e) /\ since < Calendar!On(e, x, Zone) => d <= e
  PROVE  Calendar!NextRun(x, since, since, Zone) = Calendar!On(d, x, Zone)
<1> DEFINE day == Calendar!Day(since, Zone)
           today == Calendar!On(day, x, Zone)
           n == Calendar!On(d, x, Zone)
<1>0. day \in Int /\ d \in Int /\ today \in Int /\ n \in Int /\ day <= d
  <2>1. day \in Int
    BY DayIs
  <2>2. d \in Int /\ day <= d
    <3> HIDE DEF day
    <3> QED BY <2>1 DEF day
  <2> QED BY <2>1, <2>2, MomentIs
<1>1. Calendar!Before(since, n) /\ (Calendar!Before(since, today) <=> since < today)
  BY <1>0, CalendarConstants DEF Calendar!Before
<1>2. CASE x.kind = "daily"
  <2>0. \A e \in Int : Calendar!OnDay(x, e)
    BY <1>2 DEF Calendar!OnDay
  <2>1. Calendar!NextRun(x, since, since, Zone) = IF since < today THEN today ELSE today + SlotsPerDay
    BY <1>1, <1>2 DEF Calendar!NextRun
  <2>2. CASE since < today
    <3>1. d <= day
      BY <1>0, <2>0, <2>2
    <3>2. d = day
      BY <1>0, <3>1
    <3> QED BY <2>1, <2>2, <3>2
  <2>3. CASE ~(since < today)
    <3>1. day + 1 \in Int /\ day < day + 1
      BY <1>0
    <3>2. since < Calendar!On(day + 1, x, Zone)
      BY <3>1, TomorrowLater
    <3>3. d <= day + 1
      BY <2>0, <3>1, <3>2
    <3>4. d # day
      BY <2>3
    <3>5. d = day + 1
      BY <1>0, <3>3, <3>4
    <3>6. n = today + SlotsPerDay
      <4>1. n = (day + 1) * SlotsPerDay + Calendar!At(x) - Zone /\ today = day * SlotsPerDay + Calendar!At(x) - Zone
            /\ Calendar!At(x) \in Int
        BY <1>0, <3>5, MomentIs, CalendarConstants
      <4>2. (day + 1) * SlotsPerDay = day * SlotsPerDay + SlotsPerDay /\ day * SlotsPerDay \in Int
        BY <1>0, CalendarConstants
      <4> HIDE DEF n, today, day
      <4> QED BY <4>1, <4>2, CalendarConstants
    <3> QED BY <2>1, <2>3, <3>6
  <2> QED BY <2>2, <2>3
<1>3. CASE x.kind # "daily"
  <2> DEFINE U == Calendar!Upcoming(x, since, since, Zone)
  <2>1. n \in U
    <3>1. d \in day..(day + 2 * DaysPerWeek)
      <4>1. d \in day..(day + DaysPerWeek)
        OBVIOUS
      <4> HIDE DEF day
      <4> QED BY <1>0, <4>1, CalendarConstants
    <3>2. Calendar!Weekday(d) \in x.days /\ Calendar!Day(n, Zone) = d
      BY <1>0, <1>3, MomentIs DEF Calendar!OnDay
    <3>3. n > since
      BY <1>0
    <3> QED BY <1>1, <3>1, <3>2, <3>3 DEF Calendar!Upcoming
  <2>2. ASSUME NEW m \in U
        PROVE  m \in Int /\ n <= m
    <3>1. PICK e \in day..(day + 2 * DaysPerWeek) : m = Calendar!On(e, x, Zone)
      BY DEF Calendar!Upcoming
    <3>2. m > since /\ Calendar!Weekday(Calendar!Day(m, Zone)) \in x.days
      BY DEF Calendar!Upcoming
    <3>3. e \in Int
      <4> HIDE DEF day
      <4> QED BY <1>0, <3>1
    <3>4. m \in Int /\ Calendar!Day(m, Zone) = e
      BY <3>1, <3>3, MomentIs
    <3>5. Calendar!OnDay(x, e)
      BY <3>2, <3>4 DEF Calendar!OnDay
    <3>6. since < m
      BY <3>2, <3>4
    <3>7. d <= e
      BY <3>1, <3>3, <3>5, <3>6
    <3> QED BY <1>0, <3>1, <3>3, <3>4, <3>7, MomentsGrow
  <2>3. Calendar!NextRun(x, since, since, Zone) = Calendar!First(U)
    <3>1. U # {}
      BY <2>1
    <3> QED BY <1>3, <3>1 DEF Calendar!NextRun
  <2> HIDE DEF U
  <2>4. Calendar!First(U) = n
    <3> DEFINE m == CHOOSE m \in U : \A o \in U : m <= o
    <3>1. m \in U /\ \A o \in U : m <= o
      BY <2>1, <2>2
    <3>2. m \in Int /\ m <= n /\ n <= m
      <4> HIDE DEF m
      <4> QED BY <2>1, <2>2, <3>1
    <3>3. m = n
      <4> HIDE DEF m, n
      <4> QED BY <1>0, <3>2
    <3> QED BY <3>3 DEF Calendar!First
  <2> QED BY <2>3, <2>4
<1> QED BY <1>2, <1>3

\* What is shown after a run at that moment is kept.
LEMMA NextKeeps ==
  ASSUME NEW x \in Calendar!ExprSet, x.valid, x.kind = "daily" \/ x.days # {}, NEW since \in Int,
         NEW n, n = Calendar!NextRun(x, since, since, Zone)
  PROVE  /\ n \in Int /\ n > since /\ Calendar!ShouldRun(x, since, n)
         /\ \A m \in (since + 1)..(n - 1) : ~Calendar!ShouldRun(x, since, m)
<1>1. PICK d \in Calendar!Day(since, Zone)..(Calendar!Day(since, Zone) + DaysPerWeek) :
           /\ Calendar!OnDay(x, d) /\ since < Calendar!On(d, x, Zone)
           /\ \A e \in Int : Calendar!OnDay(x, e) /\ since < Calendar!On(e, x, Zone) => d <= e
  BY FirstDay
<1>2. n = Calendar!On(d, x, Zone)
  BY <1>1, NextIsFirst
<1>3. d \in Int
  <2>1. Calendar!Day(since, Zone) \in Int
    BY DayIs
  <2> QED BY <2>1, CalendarConstants
<1>4. n \in Int /\ Calendar!ShouldRun(x, since, n)
      /\ \A m \in (since + 1)..(n - 1) : ~Calendar!ShouldRun(x, since, m)
  BY <1>1, <1>2, <1>3, FirstIsDue
<1> QED BY <1>1, <1>2, <1>4

-----------------------------------------------------------------------------
(* Runs of schedules. The last run of a row is at or after every tick that         *)
(* enqueued it, but for the one that has just been enqueued and is not recorded;   *)
(* the same of the row as the tick has read it, while it is still to be looked at. *)
(* What is shown after a tick is computed from the row that is recorded.         *)

RunRowTyped(x) == x.expr \in Calendar!ExprSet /\ x.last \in Int \cup {NoTime}
RunRowsTyped == \A s \in DOMAIN rows : s \in Schedules /\ RunRowTyped(rows[s])
TickTyped ==
  /\ clock \in Nat /\ tick.now \in Nat /\ tick.now <= clock
  /\ tick = [at |-> tick.at, now |-> tick.now, left |-> tick.left, seen |-> tick.seen, cur |-> tick.cur]
  /\ tick.left \subseteq DOMAIN rows
  /\ tick.at = "queued" => tick.cur \in DOMAIN rows /\ DOMAIN tick.seen = {}
  /\ \A s \in DOMAIN tick.seen : RunRowTyped(tick.seen[s])
CreatesNew ==
  /\ DOMAIN request = Requests
  /\ \A r \in Requests : request[r].op = "create" =>
       /\ request[r].row \in Schedules /\ request[r].row \notin DOMAIN rows
       /\ \A q \in Requests : request[q].op = "create" /\ request[q].row = request[r].row => q = r

Ran(x, m) == x.last \in Int /\ m <= x.last
Recorded ==
  /\ DOMAIN auto = Schedules
  /\ \A s \in Schedules : \A m \in auto[s] :
       /\ m \in Int /\ m <= tick.now /\ s \in DOMAIN rows
       /\ (tick.at = "queued" /\ tick.cur = s) \/ Ran(rows[s], m)
       /\ tick.at = "loop" /\ s \in tick.left /\ s \in DOMAIN tick.seen => Ran(tick.seen[s], m)
Shows(x) == ~x.deleted /\ x.enabled =>
  x.last \in Int /\ x.next = Calendar!NextRun(x.expr, x.last, x.last, Zone)
Shown ==
  /\ DOMAIN by = Schedules
  /\ \A s \in Schedules : by[s] = "tick" => s \in DOMAIN rows /\ Shows(rows[s])

RunsInv == RunRowsTyped /\ TickTyped /\ CreatesNew /\ Recorded /\ Shown /\ again = {}

LEMMA RunsInit == Calendar!Init => RunsInv
<1> SUFFICES ASSUME Calendar!Init PROVE RunsInv
  OBVIOUS
<1>1. RunRowsTyped
  BY ServiceAssumption DEF Calendar!Init, Calendar!SchedulesAssumption, RunRowsTyped, RunRowTyped, Calendar!RowSet
<1>2. TickTyped
  BY DEF Calendar!Init, TickTyped
<1>3. CreatesNew
  BY DEF Calendar!Init, CreatesNew, Calendar!Idle
<1>4. Recorded /\ Shown /\ again = {}
  BY DEF Calendar!Init, Recorded, Shown
<1> QED BY <1>1, <1>2, <1>3, <1>4 DEF RunsInv

\* Requests that end, or begin no creation.
LEMMA CreatesKeep ==
  ASSUME CreatesNew, DOMAIN rows' = DOMAIN rows, DOMAIN request' = Requests,
         \A r \in Requests : request'[r] = request[r] \/ request'[r].op # "create"
  PROVE  CreatesNew'
BY DEF CreatesNew

LEMMA EndKeeps ==
  ASSUME CreatesNew, NEW r, Calendar!Ends(r)
  PROVE  /\ DOMAIN request' = Requests
         /\ \A q \in Requests : request'[q] = request[q] \/ request'[q].op # "create"
BY DEF CreatesNew, Calendar!Ends, Calendar!Idle

\* A request that changes rows, but not which of them there are.
LEMMA EditsKeep ==
  ASSUME RunsInv, UNCHANGED <<clock, tick, again>>, CreatesNew', DOMAIN rows' = DOMAIN rows,
         DOMAIN auto' = Schedules, \A s \in Schedules : auto'[s] \subseteq auto[s],
         DOMAIN by' = Schedules, \A s \in Schedules : by'[s] = "tick" => by[s] = "tick",
         \A s \in DOMAIN rows :
           /\ rows'[s].expr \in Calendar!ExprSet
           /\ rows'[s].last = rows[s].last \/ rows'[s].last = clock
           /\ by'[s] = "tick" => (Shows(rows[s]) => Shows(rows'[s]))
  PROVE  RunsInv'
<1> USE DEF RunsInv
<1>1. clock \in Int /\ \A s \in Schedules : \A m \in auto[s] : m \in Int /\ m <= clock
  BY DEF TickTyped, Recorded
<1>2. RunRowsTyped'
  BY <1>1 DEF RunRowsTyped, RunRowTyped
<1>3. TickTyped'
  BY DEF TickTyped, RunRowTyped
<1>4. ASSUME NEW s \in Schedules, NEW m \in auto[s], s \in DOMAIN rows, Ran(rows[s], m)
      PROVE  Ran(rows'[s], m)
  BY <1>1, <1>4 DEF Ran
<1>5. Recorded'
  BY <1>4 DEF Recorded, Ran
<1>6. Shown'
  BY DEF Shown, RunRowsTyped
<1> QED BY <1>2, <1>3, <1>5, <1>6

LEMMA CreateRuns ==
  ASSUME RunsInv, NamesInv, NEW r \in Requests, Calendar!Create(r)
  PROVE  RunsInv'
<1> USE DEF RunsInv
<1> DEFINE s == request[r].row
           form == request[r].form
           new == [enabled |-> form.enabled, deleted |-> FALSE, expr |-> form.expr,
                   preset |-> form.preset, notes |-> form.notes, last |-> NoTime,
                   next |-> IF form.enabled THEN Calendar!NextRun(form.expr, NoTime, clock, Zone) ELSE NoTime]
<1>1. /\ rows' = [q \in DOMAIN rows \cup {s} |-> IF q # s THEN rows[q] ELSE new]
      /\ Calendar!Saves(r) /\ request[r].op = "create" /\ Calendar!Ends(r)
      /\ UNCHANGED <<clock, tick, auto, again, by>>
  BY DEF Calendar!Create, Calendar!Saves
<1>2. form.expr \in Calendar!ExprSet
  <2>1. form \in Forms
    BY <1>1 DEF NamesInv, SavesNameExisting
  <2> QED BY <2>1, ServiceAssumption DEF Calendar!SchedulesAssumption, Calendar!FormSet
<1>3. new.expr = form.expr /\ new.last = NoTime
  OBVIOUS
<1>4. s \in Schedules /\ s \notin DOMAIN rows
  BY <1>1 DEF CreatesNew
<1> HIDE DEF new, form
<1>5. DOMAIN rows' = DOMAIN rows \cup {s} /\ \A q \in DOMAIN rows : rows'[q] = rows[q]
  BY <1>1, <1>4
<1>6. rows'[s] = new
  BY <1>1
<1>7. RunRowsTyped'
  BY <1>2, <1>3, <1>4, <1>5, <1>6 DEF RunRowsTyped, RunRowTyped
<1>8. TickTyped'
  BY <1>1, <1>5 DEF TickTyped, RunRowTyped
<1>9. CreatesNew'
  <2>1. DOMAIN request' = Requests /\ \A q \in Requests : request'[q] = IF q = r THEN Calendar!Idle ELSE request[q]
    BY <1>1 DEF Calendar!Ends, CreatesNew
  <2>2. Calendar!Idle.op # "create"
    BY DEF Calendar!Idle
  <2> QED BY <1>1, <1>5, <2>1, <2>2 DEF CreatesNew
<1>10. Recorded'
  BY <1>1, <1>5 DEF Recorded, Ran
<1>11. Shown'
  BY <1>1, <1>5 DEF Shown, Shows
<1> QED BY <1>1, <1>7, <1>8, <1>9, <1>10, <1>11

\* A change of one row.
LEMMA OneRow ==
  ASSUME RunsInv, NamesInv, NEW s, NEW new, rows' = [rows EXCEPT ![s] = new],
         UNCHANGED <<clock, tick, again>>, NEW r, Calendar!Ends(r),
         DOMAIN auto' = Schedules, \A q \in Schedules : auto'[q] \subseteq auto[q],
         DOMAIN by' = Schedules, \A q \in Schedules : by'[q] = "tick" => by[q] = "tick",
         s \in DOMAIN rows =>
           /\ new.expr \in Calendar!ExprSet /\ (new.last = rows[s].last \/ new.last = clock)
           /\ by'[s] = "tick" => new.deleted
  PROVE  RunsInv'
<1>1. DOMAIN rows' = DOMAIN rows /\ CreatesNew'
  BY EndKeeps, CreatesKeep DEF RunsInv
<1>2. ASSUME NEW q \in DOMAIN rows
      PROVE  /\ rows'[q].expr \in Calendar!ExprSet
             /\ rows'[q].last = rows[q].last \/ rows'[q].last = clock
             /\ by'[q] = "tick" => (Shows(rows[q]) => Shows(rows'[q]))
  <2>1. CASE q # s
    BY <2>1 DEF RunsInv, RunRowsTyped, RunRowTyped
  <2>2. CASE q = s
    BY <2>2 DEF Shows
  <2> QED BY <2>1, <2>2
<1> QED BY <1>1, <1>2, EditsKeep

LEMMA UpdateRuns ==
  ASSUME RunsInv, NamesInv, NEW r \in Requests, Calendar!Update(r)
  PROVE  RunsInv'
<1> DEFINE s == request[r].row
           form == request[r].form
           seen == request[r].seen
           Written(fresh, read, old) == IF fresh # read THEN fresh ELSE old
           enabled == Written(form.enabled, seen.enabled, rows[s].enabled)
           expr == Written(form.expr, seen.expr, rows[s].expr)
           name == Written(form.preset, seen.preset, rows[s].preset)
           notes == (rows[s].notes \ (seen.notes \ form.notes)) \cup (form.notes \ seen.notes)
           next == Written(IF form.enabled THEN Calendar!NextRun(form.expr, seen.last, clock, Zone) ELSE NoTime,
                           seen.next, rows[s].next)
           new == [rows[s] EXCEPT !.enabled = enabled, !.expr = expr, !.preset = name,
                                  !.notes = notes, !.next = next]
<1>1. /\ rows' = [rows EXCEPT ![s] = new] /\ Calendar!Saves(r) /\ Calendar!Ends(r)
      /\ auto' = IF rows'[s].expr = rows[s].expr THEN auto ELSE [auto EXCEPT ![s] = {}]
      /\ by' = [by EXCEPT ![s] = "edit"] /\ UNCHANGED <<clock, tick, again>>
  BY DEF Calendar!Update, Calendar!Saves
<1>2. form.expr \in Calendar!ExprSet
  <2>1. form \in Forms
    BY <1>1 DEF NamesInv, SavesNameExisting
  <2> QED BY <2>1, ServiceAssumption DEF Calendar!SchedulesAssumption, Calendar!FormSet
<1>3. expr \in {form.expr, rows[s].expr}
  OBVIOUS
<1> HIDE DEF enabled, expr, name, notes, next, Written, seen, form, s
<1>4. ASSUME s \in DOMAIN rows
      PROVE  new.expr \in Calendar!ExprSet /\ new.last = rows[s].last
  <2>1. PICK x : x = rows[s] /\ Whole(x) /\ x.expr \in Calendar!ExprSet
    BY <1>4 DEF NamesInv, RowsNameExisting, RunsInv, RunRowsTyped, RunRowTyped
  <2>2. new = [x EXCEPT !.enabled = enabled, !.expr = expr, !.preset = name, !.notes = notes, !.next = next]
    BY <2>1
  <2> HIDE DEF new
  <2>3. new = [enabled |-> enabled, deleted |-> x.deleted, expr |-> expr, preset |-> name,
               notes |-> notes, last |-> x.last, next |-> next]
    BY <2>1, <2>2 DEF Whole
  <2>4. new.expr = expr /\ new.last = x.last
    BY <2>3
  <2> QED BY <1>2, <1>3, <2>1, <2>4
<1> HIDE DEF new
<1>5. DOMAIN auto' = Schedules /\ \A q \in Schedules : auto'[q] \subseteq auto[q]
  BY <1>1 DEF RunsInv, Recorded
<1>6. /\ DOMAIN by' = Schedules /\ \A q \in Schedules : by'[q] = "tick" => by[q] = "tick"
      /\ s \in DOMAIN rows => by'[s] # "tick"
  BY <1>1 DEF RunsInv, Shown, RunRowsTyped
<1> QED BY <1>1, <1>4, <1>5, <1>6, OneRow

LEMMA DeleteRuns ==
  ASSUME RunsInv, NamesInv, NEW r \in Requests, Calendar!Delete(r)
  PROVE  RunsInv'
<1> DEFINE s == request[r].row
           seen == request[r].seen
           enabled == IF seen.enabled THEN FALSE ELSE rows[s].enabled
           next == IF seen.next = NoTime THEN rows[s].next ELSE NoTime
           gone == TRUE
           new == [rows[s] EXCEPT !.deleted = gone, !.enabled = enabled, !.next = next]
<1>1. /\ rows' = [rows EXCEPT ![s] = new] /\ Calendar!Ends(r)
      /\ UNCHANGED <<clock, tick, auto, again, by>>
  BY DEF Calendar!Delete, Calendar!historyVars
<1>2. gone
  OBVIOUS
<1> HIDE DEF enabled, next, gone, s
<1>3. ASSUME s \in DOMAIN rows
      PROVE  new.expr \in Calendar!ExprSet /\ new.last = rows[s].last /\ new.deleted
  <2>1. PICK x : x = rows[s] /\ Whole(x) /\ x.expr \in Calendar!ExprSet
    BY <1>3 DEF NamesInv, RowsNameExisting, RunsInv, RunRowsTyped, RunRowTyped
  <2>2. new = [x EXCEPT !.deleted = gone, !.enabled = enabled, !.next = next]
    BY <2>1
  <2> HIDE DEF new
  <2>3. new = [enabled |-> enabled, deleted |-> gone, expr |-> x.expr, preset |-> x.preset,
               notes |-> x.notes, last |-> x.last, next |-> next]
    BY <2>1, <2>2 DEF Whole
  <2>4. new.expr = x.expr /\ new.last = x.last /\ (new.deleted <=> gone)
    BY <2>3
  <2> QED BY <1>2, <2>1, <2>4
<1> HIDE DEF new
<1>4. DOMAIN auto' = Schedules /\ DOMAIN by' = Schedules
  BY <1>1 DEF RunsInv, Recorded, Shown
<1> QED BY <1>1, <1>3, <1>4, OneRow

LEMMA RunNowRuns ==
  ASSUME RunsInv, NamesInv, NEW r \in Requests, Calendar!RunNow(r)
  PROVE  RunsInv'
<1> DEFINE s == request[r].row
           next == IF rows[s].enabled THEN Calendar!NextRun(rows[s].expr, clock, clock, 0) ELSE rows[s].next
           new == [rows[s] EXCEPT !.last = clock, !.next = next]
<1>1. /\ rows' = [rows EXCEPT ![s] = new] /\ Calendar!Ends(r)
      /\ by' = [by EXCEPT ![s] = IF rows[s].enabled THEN "run-now" ELSE "edit"]
      /\ UNCHANGED <<clock, tick, auto, again>>
  BY DEF Calendar!RunNow
<1> HIDE DEF next, s
<1>2. ASSUME s \in DOMAIN rows
      PROVE  new.expr \in Calendar!ExprSet /\ new.last = clock
  <2>1. PICK x : x = rows[s] /\ Whole(x) /\ x.expr \in Calendar!ExprSet
    BY <1>2 DEF NamesInv, RowsNameExisting, RunsInv, RunRowsTyped, RunRowTyped
  <2>2. new = [x EXCEPT !.last = clock, !.next = next]
    BY <2>1
  <2> HIDE DEF new
  <2>3. new = [enabled |-> x.enabled, deleted |-> x.deleted, expr |-> x.expr, preset |-> x.preset,
               notes |-> x.notes, last |-> clock, next |-> next]
    BY <2>1, <2>2 DEF Whole
  <2> QED BY <2>1, <2>3
<1> HIDE DEF new
<1>3. PICK how \in {"run-now", "edit"} : by' = [by EXCEPT ![s] = how]
  BY <1>1
<1>4. /\ DOMAIN by' = Schedules /\ \A q \in Schedules : by'[q] = "tick" => by[q] = "tick"
      /\ s \in DOMAIN rows => by'[s] # "tick"
  BY <1>3 DEF RunsInv, Shown, RunRowsTyped
<1>5. DOMAIN auto' = Schedules
  BY <1>1 DEF RunsInv, Recorded
<1> QED BY <1>1, <1>2, <1>4, <1>5, OneRow

LEMMA DropRuns ==
  ASSUME RunsInv, NamesInv, NEW r \in Requests, Calendar!Drop(r)
  PROVE  RunsInv'
<1> DEFINE p == request[r].preset
<1>1. /\ rows' = IF p \notin Notifications THEN rows
                 ELSE [s \in DOMAIN rows |-> [rows[s] EXCEPT !.notes = @ \ {p}]]
      /\ Calendar!Ends(r) /\ UNCHANGED <<clock, tick, auto, again, by>>
  BY DEF Calendar!Drop
<1> HIDE DEF p
<1>2. ASSUME NEW s \in DOMAIN rows
      PROVE  /\ rows'[s].expr = rows[s].expr /\ rows'[s].last = rows[s].last /\ rows'[s].next = rows[s].next
             /\ (rows'[s].deleted <=> rows[s].deleted) /\ (rows'[s].enabled <=> rows[s].enabled)
  <2>1. CASE p \notin Notifications
    BY <1>1, <2>1
  <2>2. CASE p \in Notifications
    <3>1. Whole(rows[s])
      BY DEF NamesInv, RowsNameExisting
    <3>2. rows'[s] = [enabled |-> rows[s].enabled, deleted |-> rows[s].deleted, expr |-> rows[s].expr,
                      preset |-> rows[s].preset, notes |-> rows[s].notes \ {p}, last |-> rows[s].last,
                      next |-> rows[s].next]
      BY <1>1, <2>2, <3>1 DEF Whole
    <3> QED BY <3>2
  <2> QED BY <2>1, <2>2
<1>3. DOMAIN rows' = DOMAIN rows
  BY <1>1
<1>4. CreatesNew'
  BY <1>1, <1>3, EndKeeps, CreatesKeep DEF RunsInv
<1>5. DOMAIN auto' = Schedules /\ DOMAIN by' = Schedules
  BY <1>1 DEF RunsInv, Recorded, Shown
<1>6. \A s \in DOMAIN rows : rows'[s].expr \in Calendar!ExprSet /\ (Shows(rows[s]) => Shows(rows'[s]))
  BY <1>2 DEF Shows, RunsInv, RunRowsTyped, RunRowTyped
<1> QED BY <1>1, <1>2, <1>3, <1>4, <1>5, <1>6, EditsKeep

LEMMA StillRuns ==
  ASSUME RunsInv, UNCHANGED <<clock, rows, tick, auto, again, by>>, CreatesNew'
  PROVE  RunsInv'
BY DEF RunsInv, RunRowsTyped, RunRowTyped, TickTyped, Recorded, Ran, Shown, Shows

LEMMA BeginRuns ==
  ASSUME RunsInv, NEW r \in Requests, NEW what, Calendar!Begin(r, what),
         \/ what.op # "create"
         \/ /\ what.row \in Schedules /\ what.row \notin DOMAIN rows
            /\ \A q \in Requests : request[q].op = "create" => request[q].row # what.row
  PROVE  RunsInv'
<1>1. /\ UNCHANGED <<clock, rows, tick, auto, again, by>>
      /\ request' = [request EXCEPT ![r] = what] /\ CreatesNew
  BY DEF Calendar!Begin, Calendar!scheduleVars, Calendar!historyVars, RunsInv
<1>2. DOMAIN request' = Requests /\ \A q \in Requests : request'[q] = IF q = r THEN what ELSE request[q]
  BY <1>1 DEF CreatesNew
<1>3. CreatesNew'
  BY <1>1, <1>2 DEF CreatesNew
<1> QED BY <1>1, <1>3, StillRuns

LEMMA ApiRuns ==
  ASSUME RunsInv, NamesInv, Calendar!Api
  PROVE  RunsInv'
<1>1. ASSUME NEW r \in Requests, NEW s \in Schedules, NEW form \in Forms, Calendar!CreateBegins(r, s, form)
      PROVE  RunsInv'
  <2> DEFINE what == [op |-> "create", row |-> s, form |-> form]
  <2>1. /\ Calendar!Begin(r, what) /\ s \notin DOMAIN rows
        /\ \A q \in Requests : request[q].op = "create" => request[q].row # s
    BY <1>1 DEF Calendar!CreateBegins
  <2>2. what.row = s
    OBVIOUS
  <2> HIDE DEF what
  <2> QED BY <2>1, <2>2, BeginRuns
<1>2. ASSUME NEW r \in Requests, NEW s \in Schedules, NEW form \in Forms, Calendar!UpdateBegins(r, s, form)
      PROVE  RunsInv'
  <2> DEFINE what == [op |-> "update", row |-> s, form |-> form, seen |-> rows[s]]
  <2>1. Calendar!Begin(r, what) /\ what.op # "create"
    BY <1>2 DEF Calendar!UpdateBegins
  <2> HIDE DEF what
  <2> QED BY <2>1, BeginRuns
<1>3. ASSUME NEW r \in Requests, NEW s \in Schedules,
             Calendar!DeleteBegins(r, s) \/ Calendar!RunNowBegins(r, s)
      PROVE  RunsInv'
  <2>1. \E what : Calendar!Begin(r, what) /\ what.op # "create"
    <3> DEFINE deletes == [op |-> "delete", row |-> s, seen |-> rows[s]]
               runs == [op |-> "run", row |-> s]
    <3>1. deletes.op # "create" /\ runs.op # "create"
      OBVIOUS
    <3>2. Calendar!Begin(r, deletes) \/ Calendar!Begin(r, runs)
      BY <1>3 DEF Calendar!DeleteBegins, Calendar!RunNowBegins
    <3> HIDE DEF deletes, runs
    <3> QED BY <3>1, <3>2
  <2> QED BY <2>1, BeginRuns
<1>4. ASSUME NEW r \in Requests, NEW p \in Calendar!Names, Calendar!DropBegins(r, p)
      PROVE  RunsInv'
  <2> DEFINE what == [op |-> "drop", preset |-> p]
  <2>1. Calendar!Begin(r, what) /\ what.op # "create"
    BY <1>4 DEF Calendar!DropBegins
  <2> HIDE DEF what
  <2> QED BY <2>1, BeginRuns
<1>5. ASSUME NEW r \in Requests, NEW p \in Calendar!Names, Calendar!CreatePreset(r, p)
      PROVE  RunsInv'
  <2>1. UNCHANGED <<clock, rows, request, tick, auto, again, by>>
    BY <1>5 DEF Calendar!CreatePreset, Calendar!historyVars
  <2> QED BY <2>1, StillRuns DEF RunsInv, CreatesNew
<1>6. ASSUME NEW r \in Requests, Calendar!RequestFails(r)
      PROVE  RunsInv'
  <2>1. UNCHANGED <<clock, rows, tick, auto, again, by>> /\ Calendar!Ends(r)
    BY <1>6 DEF Calendar!RequestFails, Calendar!scheduleVars, Calendar!historyVars
  <2> QED BY <2>1, EndKeeps, CreatesKeep, StillRuns DEF RunsInv
<1> QED BY <1>1, <1>2, <1>3, <1>4, <1>5, <1>6, CreateRuns, UpdateRuns, DeleteRuns, RunNowRuns, DropRuns
        DEF Calendar!Api

\* The tick finds a schedule due in a period in which it was not enqueued.
LEMMA EnqueueRuns ==
  ASSUME RunsInv, NEW s \in Schedules, Calendar!Enqueue(s)
  PROVE  RunsInv'
<1> USE DEF RunsInv
<1> DEFINE x == Calendar!Seen(s)
<1>1. /\ tick.at = "loop" /\ s \in tick.left /\ Calendar!Due(s)
      /\ tick' = [tick EXCEPT !.at = "queued", !.cur = s, !.left = @ \ {s}, !.seen = [q \in {} |-> Calendar!Idle]]
      /\ again' = IF \E m \in auto[s] : Calendar!SamePeriod(x.expr, m, tick.now)
                  THEN again \cup {s} ELSE again
      /\ auto' = [auto EXCEPT ![s] = @ \cup {tick.now}]
      /\ UNCHANGED <<clock, rows, request, by>>
  BY DEF Calendar!Enqueue, Calendar!Ready, Calendar!scheduleVars
<1>2. RunRowTyped(x)
  BY <1>1 DEF Calendar!Seen, TickTyped, RunRowsTyped
<1>3. ASSUME NEW m \in auto[s]
      PROVE  Ran(x, m) /\ m \in Int
  BY <1>1, <1>3 DEF Calendar!Seen, Recorded
<1>4. again' = {}
  <2>1. ASSUME NEW m \in auto[s]
        PROVE  ~Calendar!SamePeriod(x.expr, m, tick.now)
    <3>1. Calendar!ShouldRun(x.expr, x.last, tick.now)
      BY <1>1 DEF Calendar!Due
    <3>2. x.expr \in Calendar!ExprSet /\ x.last \in Int /\ m \in Int /\ m <= x.last /\ tick.now \in Int
      BY <1>2, <1>3 DEF RunRowTyped, Ran, TickTyped
    <3> HIDE DEF x
    <3> QED BY <3>1, <3>2, DueAgain
  <2> QED BY <1>1, <2>1
<1>5. tick' = [at |-> "queued", now |-> tick.now, left |-> tick.left \ {s},
               seen |-> [q \in {} |-> Calendar!Idle], cur |-> s]
  BY <1>1 DEF TickTyped
<1>6. /\ tick'.at = "queued" /\ tick'.now = tick.now /\ tick'.left = tick.left \ {s} /\ tick'.cur = s
      /\ DOMAIN tick'.seen = {}
  BY <1>5
<1>7. s \in DOMAIN rows
  BY <1>1 DEF TickTyped
<1>8. TickTyped'
  BY <1>1, <1>5, <1>6, <1>7 DEF TickTyped, RunRowTyped
<1>9. Recorded'
  <2>1. DOMAIN auto' = Schedules
        /\ \A q \in Schedules : \A m \in auto'[q] : m \in auto[q] \/ (q = s /\ m = tick.now)
    BY <1>1 DEF Recorded
  <2>2. tick.now \in Int /\ tick.now <= tick.now
    BY DEF TickTyped
  <2>3. ASSUME NEW q \in Schedules, NEW m \in auto'[q]
        PROVE  m \in Int /\ m <= tick'.now /\ q \in DOMAIN rows /\ (q = s \/ Ran(rows[q], m))
    BY <1>1, <1>6, <1>7, <2>1, <2>2 DEF Recorded
  <2> QED BY <1>1, <1>6, <2>1, <2>3 DEF Recorded, Ran
<1>10. RunRowsTyped' /\ CreatesNew' /\ Shown'
  BY <1>1 DEF RunRowsTyped, RunRowTyped, CreatesNew, Shown, Shows
<1> QED BY <1>4, <1>8, <1>9, <1>10

LEMMA RecordRuns ==
  ASSUME RunsInv, NamesInv, Calendar!Record
  PROVE  RunsInv'
<1> USE DEF RunsInv
<1> DEFINE s == tick.cur
           next == Calendar!NextRun(rows[s].expr, tick.now, tick.now, Zone)
           new == [rows[s] EXCEPT !.last = tick.now, !.next = next]
<1>1. /\ tick.at = "queued" /\ tick' = [tick EXCEPT !.at = "loop", !.cur = Nobody]
      /\ rows' = [rows EXCEPT ![s] = new] /\ by' = [by EXCEPT ![s] = "tick"]
      /\ UNCHANGED <<clock, request, auto, again>>
  BY DEF Calendar!Record
<1>2. s \in DOMAIN rows
  BY <1>1 DEF TickTyped
<1>3. tick.now \in Int
  BY DEF TickTyped
<1>4. PICK x : x = rows[s] /\ Whole(x) /\ x.expr \in Calendar!ExprSet
  BY <1>2 DEF NamesInv, RowsNameExisting, RunRowsTyped, RunRowTyped
<1> HIDE DEF next
<1>5. new.expr = x.expr /\ new.last = tick.now /\ new.next = next
  <2>1. new = [x EXCEPT !.last = tick.now, !.next = next]
    BY <1>4
  <2> HIDE DEF new
  <2>2. new = [enabled |-> x.enabled, deleted |-> x.deleted, expr |-> x.expr, preset |-> x.preset,
               notes |-> x.notes, last |-> tick.now, next |-> next]
    BY <1>4, <2>1 DEF Whole
  <2> QED BY <2>2
<1>6. Shows(new)
  BY <1>3, <1>4, <1>5 DEF Shows, next
<1> HIDE DEF new
<1>7. DOMAIN rows' = DOMAIN rows /\ \A q \in DOMAIN rows : rows'[q] = IF q = s THEN new ELSE rows[q]
  BY <1>1
<1>8. RunRowsTyped'
  BY <1>3, <1>4, <1>5, <1>7 DEF RunRowsTyped, RunRowTyped
<1>9. tick' = [at |-> "loop", now |-> tick.now, left |-> tick.left, seen |-> tick.seen, cur |-> Nobody]
  BY <1>1 DEF TickTyped
<1>10. /\ tick'.at = "loop" /\ tick'.now = tick.now /\ tick'.left = tick.left /\ tick'.seen = tick.seen
  BY <1>9
<1>11. TickTyped'
  BY <1>1, <1>7, <1>9, <1>10 DEF TickTyped, RunRowTyped
<1>12. CreatesNew'
  BY <1>1, <1>7 DEF CreatesNew
<1>13. Recorded'
  <2>1. ASSUME NEW q \in Schedules, NEW m \in auto[q]
        PROVE  Ran(rows'[q], m)
    <3>1. m \in Int /\ m <= tick.now /\ q \in DOMAIN rows /\ (q = s \/ Ran(rows[q], m))
      BY DEF Recorded
    <3> QED BY <1>3, <1>5, <1>7, <3>1 DEF Ran
  <2>2. DOMAIN tick'.seen = {}
    BY <1>1, <1>10 DEF TickTyped
  <2>3. ASSUME NEW q \in Schedules, NEW m \in auto'[q]
        PROVE  m \in auto[q] /\ m \in Int /\ m <= tick'.now /\ q \in DOMAIN rows' /\ Ran(rows'[q], m)
    BY <1>1, <1>7, <1>10, <2>1 DEF Recorded
  <2>4. DOMAIN auto' = Schedules
    BY <1>1 DEF Recorded
  <2> QED BY <1>10, <2>2, <2>3, <2>4 DEF Recorded, Ran
<1>14. Shown'
  BY <1>1, <1>2, <1>6, <1>7 DEF Shown, RunRowsTyped
<1> QED BY <1>1, <1>8, <1>11, <1>12, <1>13, <1>14

\* The other steps of the scheduler, and of time.
LEMMA TickBeginsRuns ==
  ASSUME RunsInv, Calendar!TickBegins
  PROVE  RunsInv'
<1> USE DEF RunsInv
<1> DEFINE due == {s \in DOMAIN rows : Calendar!Live(s) /\ rows[s].enabled}
<1>1. /\ tick.at = "idle"
      /\ tick' = [tick EXCEPT !.at = "loop", !.now = clock, !.left = due, !.seen = [s \in due |-> rows[s]]]
      /\ UNCHANGED <<clock, rows, request, auto, again, by>>
  BY DEF Calendar!TickBegins, Calendar!scheduleVars, Calendar!historyVars
<1>2. due \subseteq DOMAIN rows
  OBVIOUS
<1> HIDE DEF due
<1>3. tick' = [at |-> "loop", now |-> clock, left |-> due, seen |-> [s \in due |-> rows[s]], cur |-> tick.cur]
  BY <1>1 DEF TickTyped
<1>4. /\ tick'.at = "loop" /\ tick'.now = clock /\ tick'.left = due /\ DOMAIN tick'.seen = due
      /\ \A s \in due : tick'.seen[s] = rows[s]
  BY <1>3
<1>5. clock \in Nat /\ clock <= clock
  BY DEF TickTyped
<1>6. TickTyped'
  BY <1>1, <1>2, <1>3, <1>4, <1>5 DEF TickTyped, RunRowsTyped, RunRowTyped
<1>7. Recorded'
  <2>1. ASSUME NEW s \in Schedules, NEW m \in auto[s]
        PROVE  m \in Int /\ m <= clock /\ s \in DOMAIN rows /\ Ran(rows[s], m)
    <3>1. m \in Int /\ m <= tick.now /\ s \in DOMAIN rows /\ Ran(rows[s], m)
      BY <1>1 DEF Recorded
    <3>2. tick.now \in Int /\ clock \in Int /\ tick.now <= clock
      BY DEF TickTyped
    <3> QED BY <3>1, <3>2
  <2> QED BY <1>1, <1>4, <2>1 DEF Recorded, Ran
<1>8. RunRowsTyped' /\ CreatesNew' /\ Shown' /\ again' = {}
  BY <1>1 DEF RunRowsTyped, RunRowTyped, CreatesNew, Shown, Shows
<1> QED BY <1>6, <1>7, <1>8

LEMMA TickSkipsRuns ==
  ASSUME RunsInv, NEW s \in Schedules, Calendar!TickSkips(s)
  PROVE  RunsInv'
<1> USE DEF RunsInv
<1>1. /\ tick.at = "loop" /\ tick' = [tick EXCEPT !.left = @ \ {s}]
      /\ UNCHANGED <<clock, rows, request, auto, again, by>>
  BY DEF Calendar!TickSkips, Calendar!scheduleVars, Calendar!historyVars
<1>2. tick' = [at |-> tick.at, now |-> tick.now, left |-> tick.left \ {s}, seen |-> tick.seen, cur |-> tick.cur]
  BY <1>1 DEF TickTyped
<1>3. /\ tick'.at = tick.at /\ tick'.now = tick.now /\ tick'.left = tick.left \ {s}
      /\ tick'.seen = tick.seen /\ tick'.cur = tick.cur
  BY <1>2
<1>4. TickTyped'
  BY <1>1, <1>2, <1>3 DEF TickTyped, RunRowTyped
<1>5. Recorded'
  BY <1>1, <1>3 DEF Recorded, Ran
<1>6. RunRowsTyped' /\ CreatesNew' /\ Shown' /\ again' = {}
  BY <1>1 DEF RunRowsTyped, RunRowTyped, CreatesNew, Shown, Shows
<1> QED BY <1>4, <1>5, <1>6

\* The end of a tick, or of the scheduler.
LEMMA TickEndsRuns ==
  ASSUME RunsInv, Calendar!TickEnds \/ Calendar!Crash
  PROVE  RunsInv'
<1> USE DEF RunsInv
<1>1. /\ tick' = [tick EXCEPT !.at = "idle", !.left = {}, !.cur = Nobody, !.seen = [s \in {} |-> Calendar!Idle]]
      /\ UNCHANGED <<clock, rows, request, again, by>>
      /\ (auto' = auto /\ tick.at # "queued") \/ auto' = [auto EXCEPT ![tick.cur] = {}]
  BY DEF Calendar!TickEnds, Calendar!Crash, Calendar!Runs, Calendar!scheduleVars, Calendar!historyVars
<1>2. tick' = [at |-> "idle", now |-> tick.now, left |-> {}, seen |-> [s \in {} |-> Calendar!Idle], cur |-> Nobody]
  BY <1>1 DEF TickTyped
<1>3. tick'.at = "idle" /\ tick'.now = tick.now /\ tick'.left = {} /\ DOMAIN tick'.seen = {}
  BY <1>2
<1>4. TickTyped'
  BY <1>1, <1>2, <1>3 DEF TickTyped, RunRowTyped
<1>5. Recorded'
  <2>1. DOMAIN auto' = Schedules
    BY <1>1 DEF Recorded
  <2>2. ASSUME NEW s \in Schedules, NEW m \in auto'[s]
        PROVE  m \in auto[s] /\ (tick.at # "queued" \/ tick.cur # s)
    BY <1>1, <2>2 DEF Recorded
  <2> QED BY <1>1, <1>3, <2>1, <2>2 DEF Recorded, Ran
<1>6. RunRowsTyped' /\ CreatesNew' /\ Shown' /\ again' = {}
  BY <1>1 DEF RunRowsTyped, RunRowTyped, CreatesNew, Shown, Shows
<1> QED BY <1>4, <1>5, <1>6

LEMMA ClockRuns ==
  ASSUME RunsInv, Calendar!Tick
  PROVE  RunsInv'
<1> USE DEF RunsInv
<1>1. clock' = clock + 1 /\ UNCHANGED <<rows, request, tick, auto, again, by>>
  BY DEF Calendar!Tick, Calendar!scheduleVars, Calendar!historyVars
<1>2. clock' \in Nat /\ tick.now <= clock'
  <2>1. clock \in Nat /\ tick.now \in Nat /\ tick.now <= clock
    BY DEF TickTyped
  <2> QED BY <1>1, <2>1
<1>3. TickTyped'
  BY <1>1, <1>2 DEF TickTyped, RunRowTyped
<1>4. RunRowsTyped' /\ CreatesNew' /\ Recorded' /\ Shown' /\ again' = {}
  BY <1>1 DEF RunRowsTyped, RunRowTyped, CreatesNew, Recorded, Ran, Shown, Shows
<1> QED BY <1>3, <1>4

LEMMA RunsStep == RunsInv /\ NamesInv /\ Calendar!Next => RunsInv'
BY ApiRuns, EnqueueRuns, RecordRuns, TickBeginsRuns, TickSkipsRuns, TickEndsRuns, ClockRuns
DEF Calendar!Next, Calendar!Scheduler

LEMMA RunsRest == RunsInv /\ UNCHANGED calendarVars => RunsInv'
<1> SUFFICES ASSUME RunsInv, UNCHANGED calendarVars PROVE RunsInv'
  OBVIOUS
<1>1. UNCHANGED <<clock, rows, request, tick, auto, again, by>>
  BY DEF calendarVars
<1> QED BY <1>1, StillRuns DEF RunsInv, CreatesNew

LEMMA RunsSafe == Spec => [](NamesInv /\ RunsInv)
<1>1. Init => NamesInv /\ RunsInv
  BY NamesInit, RunsInit DEF Init
<1>2. NamesInv /\ RunsInv /\ [Next]_vars => (NamesInv /\ RunsInv)'
  BY StepOfEach, NamesStep, NamesRest, RunsStep, RunsRest
<1> QED BY <1>1, <1>2, PTL DEF Spec

(* A schedule is enqueued once in a period, for all lengths of days and weeks,      *)
(* expressions and times of the day: a tick that finds it due finds that a period  *)
(* has begun since every run, though it decides by a row that it has read earlier. *)
THEOREM EnqueuedOnce == Spec => []OncePerPeriod
<1>1. RunsInv => OncePerPeriod
  BY DEF RunsInv, OncePerPeriod, Calendar!OncePerPeriod
<1> QED BY <1>1, RunsSafe, PTL

(* What is shown as the next run after a tick is the first moment after it that      *)
(* should_run_automation calls due.                                          *)
THEOREM ShownRunIsNext == Spec => []NextRunKept
<1>1. ASSUME RunsInv PROVE NextRunKept
  <2> SUFFICES ASSUME NEW s \in DOMAIN rows, Calendar!Live(s), rows[s].enabled, by[s] = "tick",
                      rows[s].expr.kind = "daily" \/ rows[s].expr.days # {}, rows[s].expr.valid
               PROVE  /\ rows[s].next # NoTime /\ rows[s].next > rows[s].last
                      /\ Calendar!ShouldRun(rows[s].expr, rows[s].last, rows[s].next)
                      /\ \A m \in (rows[s].last + 1)..(rows[s].next - 1) :
                           ~Calendar!ShouldRun(rows[s].expr, rows[s].last, m)
    BY DEF NextRunKept, Calendar!NextRunKept, Calendar!Keeps
  <2>1. s \in Schedules /\ rows[s].expr \in Calendar!ExprSet
    BY <1>1 DEF RunsInv, RunRowsTyped, RunRowTyped
  <2>2. /\ rows[s].last \in Int
        /\ rows[s].next = Calendar!NextRun(rows[s].expr, rows[s].last, rows[s].last, Zone)
    BY <1>1, <2>1 DEF RunsInv, Shown, Shows, Calendar!Live
  <2>3. /\ rows[s].next \in Int /\ rows[s].next > rows[s].last
        /\ Calendar!ShouldRun(rows[s].expr, rows[s].last, rows[s].next)
        /\ \A m \in (rows[s].last + 1)..(rows[s].next - 1) :
             ~Calendar!ShouldRun(rows[s].expr, rows[s].last, m)
    BY <2>1, <2>2, NextKeeps
  <2> QED BY <2>3, CalendarConstants
<1> QED BY <1>1, RunsSafe, PTL

-----------------------------------------------------------------------------
(* Effects, and the presets that name them. What the registry knows, what a save   *)
(* or a building of the registry has read and what the presets name exists, or     *)
(* its deletion overlapped: the registry may know an effect longer, until the      *)
(* request that deleted it has told, and a deletion begins for an effect that no  *)
(* preset names.                                                            *)

Kept == DOMAIN effects \cup missed
Released(e) == \E r \in Requests : job[r].op = "delete" /\ job[r].at = "committed" /\ job[r].id = e

ShopShape == DOMAIN job = Requests /\ DOMAIN groups = Bundles
PresetsKnow == \A b \in Bundles : groups[b] \subseteq Kept
RegistryKnows == registry.known => \A e \in registry.ids : e \in Kept \/ Released(e)
JobsKnow == \A r \in Requests : job[r].op \in {"save", "build"} => job[r].ids \subseteq Kept
DeletesUnused ==
  \A r \in Requests :
    job[r].op = "delete" /\ job[r].at = "read" /\ Shop!InUse(job[r].id) => job[r].id \in missed

KeptInv == ShopShape /\ PresetsKnow /\ RegistryKnows /\ JobsKnow /\ DeletesUnused

LEMMA KeptInit == Shop!Init => KeptInv
BY DEF Shop!Init, Shop!Unknown, Shop!Rest, KeptInv, ShopShape, PresetsKnow, RegistryKnows, JobsKnow,
       DeletesUnused

\* Nothing but the rows of effects, of which there are more.
LEMMA KeptGrows ==
  ASSUME KeptInv, DOMAIN effects \subseteq DOMAIN effects', missed \subseteq missed',
         UNCHANGED <<groups, job>>, registry' \in {registry, Shop!Unknown}
  PROVE  KeptInv'
BY DEF KeptInv, ShopShape, PresetsKnow, RegistryKnows, JobsKnow, DeletesUnused, Kept, Released,
       Shop!InUse, Shop!Unknown

\* A request that begins or is over.
LEMMA JobKept ==
  ASSUME KeptInv, NEW r \in Requests, NEW what, job' = [job EXCEPT ![r] = what],
         job[r].op = "delete" /\ job[r].at = "committed" => ~registry'.known,
         what.op \in {"save", "build"} => what.ids \subseteq Kept',
         what.op = "delete" /\ what.at = "read" => ~Shop!InUse(what.id),
         UNCHANGED <<effects, groups>>, missed \subseteq missed',
         \/ ~registry'.known
         \/ UNCHANGED registry
         \/ registry'.ids \subseteq Kept
  PROVE  KeptInv'
<1> USE DEF KeptInv
<1>1. job'[r] = what /\ \A q \in Requests : q # r => job'[q] = job[q]
  BY DEF ShopShape
<1>2. ShopShape' /\ PresetsKnow'
  BY DEF ShopShape, PresetsKnow, Kept
<1>3. RegistryKnows'
  BY <1>1 DEF RegistryKnows, Kept, Released
<1>4. JobsKnow'
  BY <1>1 DEF JobsKnow, Kept
<1>5. DeletesUnused'
  BY <1>1 DEF DeletesUnused, Shop!InUse
<1> QED BY <1>2, <1>3, <1>4, <1>5

LEMMA CommitKept ==
  ASSUME KeptInv, NEW r \in Requests, Shop!Commit(r)
  PROVE  KeptInv'
<1> USE DEF KeptInv
<1> DEFINE e == job[r].id
           deletes == job[r].op = "delete"
<1>1. /\ job[r].op \in {"insert", "update", "delete"} /\ job[r].at = "read"
      /\ job' = [job EXCEPT ![r] = [@ EXCEPT !.at = "committed"]]
      /\ DOMAIN effects' = IF deletes THEN DOMAIN effects \ {e} ELSE DOMAIN effects \cup {e}
      /\ missed' = IF deletes /\ (Shop!Taking(e) \/ Shop!Building(e)) THEN missed \cup {e} ELSE missed
      /\ UNCHANGED <<groups, registry>>
  BY DEF Shop!Commit
<1>2. /\ job'[r].op = job[r].op /\ job'[r].id = e /\ job'[r].at = "committed"
      /\ \A q \in Requests : q # r => job'[q] = job[q]
  BY <1>1 DEF ShopShape
<1>3. \A q \in Requests : job'[q].op = job[q].op
  BY <1>2
<1>4. missed \subseteq missed' /\ \A f \in Kept : f \in Kept' \/ (f = e /\ deletes)
  BY <1>1 DEF Kept
<1>5. ShopShape'
  BY <1>1 DEF ShopShape
<1>6. PresetsKnow'
  <2> SUFFICES ASSUME NEW b \in Bundles, NEW f \in groups[b] PROVE f \in Kept'
    BY <1>1 DEF PresetsKnow
  <2>1. CASE f = e /\ deletes
    BY <1>1, <1>4, <2>1 DEF DeletesUnused, Shop!InUse, Kept
  <2> QED BY <1>4, <2>1 DEF PresetsKnow
<1>7. RegistryKnows'
  <2> SUFFICES ASSUME registry.known, NEW f \in registry.ids PROVE f \in Kept' \/ Released(f)'
    BY <1>1 DEF RegistryKnows
  <2>1. Released(f) => Released(f)'
    BY <1>1, <1>2 DEF Released
  <2>2. CASE f = e /\ deletes
    BY <1>2, <2>2 DEF Released
  <2> QED BY <1>4, <2>1, <2>2 DEF RegistryKnows
<1>8. JobsKnow'
  <2> SUFFICES ASSUME NEW q \in Requests, job[q].op \in {"save", "build"}, NEW f \in job[q].ids
               PROVE  q # r /\ f \in Kept'
    BY <1>1, <1>2, <1>3 DEF JobsKnow
  <2>1. CASE f = e /\ deletes
    BY <1>1, <2>1 DEF Shop!Taking, Shop!Building, Kept
  <2> QED BY <1>1, <1>4, <2>1 DEF JobsKnow
<1>9. DeletesUnused'
  BY <1>1, <1>2, <1>4 DEF DeletesUnused, Shop!InUse
<1> QED BY <1>5, <1>6, <1>7, <1>8, <1>9

LEMMA SaveKept ==
  ASSUME KeptInv, NEW r \in Requests, Shop!Save(r)
  PROVE  KeptInv'
<1> USE DEF KeptInv
<1> DEFINE b == job[r].preset
<1>1. /\ job[r].op = "save" /\ job' = [job EXCEPT ![r] = Shop!Rest]
      /\ groups' = [groups EXCEPT ![b] = job[r].ids]
      /\ missed' = missed \cup {e \in job[r].ids : Shop!Deleting(e)}
      /\ UNCHANGED <<effects, registry>>
  BY DEF Shop!Save
<1> HIDE DEF b
<1>2. job'[r] = Shop!Rest /\ \A q \in Requests : q # r => job'[q] = job[q]
  BY <1>1 DEF ShopShape
<1>3. ShopShape' /\ PresetsKnow'
  BY <1>1 DEF ShopShape, PresetsKnow, JobsKnow, Kept
<1>4. RegistryKnows' /\ JobsKnow'
  BY <1>1, <1>2 DEF RegistryKnows, JobsKnow, Kept, Released, Shop!Rest
<1>5. DeletesUnused'
  <2> SUFFICES ASSUME NEW q \in Requests, job[q].op = "delete", job[q].at = "read",
                      Shop!InUse(job[q].id)'
               PROVE  job[q].id \in missed'
    BY <1>2 DEF DeletesUnused, Shop!Rest
  <2> DEFINE e == job[q].id
  <2>1. Shop!InUse(e) \/ e \in job[r].ids
    BY <1>1 DEF Shop!InUse, ShopShape
  <2>2. Shop!Deleting(e)
    BY DEF Shop!Deleting
  <2> QED BY <1>1, <2>1, <2>2 DEF DeletesUnused
<1> QED BY <1>3, <1>4, <1>5

\* The requests for effects begin by reading: none deletes what a preset names.
LEMMA EditKept ==
  ASSUME KeptInv, NEW r \in Requests, NEW op, NEW e, NEW new, NEW marks,
         Shop!Begin(r, Shop!Edit(op, e, new, marks)), op \in {"insert", "update", "delete"},
         op = "delete" => ~Shop!InUse(e)
  PROVE  KeptInv'
<1> DEFINE what == Shop!Edit(op, e, new, marks)
<1>1. what.op = op /\ what.id = e
  BY DEF Shop!Edit
<1>2. /\ job' = [job EXCEPT ![r] = what] /\ job[r] = Shop!Rest
      /\ UNCHANGED <<effects, groups, registry, missed>>
  BY DEF Shop!Begin, Shop!Takes, Shop!historyVars
<1>3. job[r].op = "none"
  BY <1>2 DEF Shop!Rest
<1> HIDE DEF what
<1> QED BY <1>1, <1>2, <1>3, JobKept

LEMMA KeptStep == KeptInv /\ Shop!Next => KeptInv'
<1> SUFFICES ASSUME KeptInv, Shop!Next PROVE KeptInv'
  OBVIOUS
<1>1. ASSUME NEW p \in Shop!Processes, Shop!Start(p) PROVE KeptInv'
  BY <1>1, KeptGrows DEF Shop!Start, Shop!Reads, Shop!Writes, Shop!Conflict, Shop!Vanished, Shop!historyVars
<1>2. ASSUME NEW r \in Requests, NEW e \in Ids,
             \/ \E body \in Bodies : Shop!CreateBegins(r, e, body) \/ Shop!UpdateBegins(r, e, body)
             \/ \E item \in Items : Shop!ImportBegins(r, e, item)
             \/ \E f \in Ids : Shop!DuplicateBegins(r, f, e)
             \/ Shop!ResetBegins(r, e)
      PROVE  KeptInv'
  <2>1. \E op \in {"insert", "update"} : \E new, marks : Shop!Begin(r, Shop!Edit(op, e, new, marks))
    BY <1>2 DEF Shop!CreateBegins, Shop!UpdateBegins, Shop!ImportBegins, Shop!DuplicateBegins,
                Shop!ResetBegins, Shop!Insert
  <2> QED BY <2>1, EditKept
<1>3. ASSUME NEW r \in Requests, NEW e \in Ids, Shop!DeleteBegins(r, e) PROVE KeptInv'
  BY <1>3, EditKept DEF Shop!DeleteBegins
<1>4. ASSUME NEW r \in Requests, Shop!CommitFails(r) PROVE KeptInv'
  BY <1>4, JobKept DEF Shop!CommitFails, Shop!Rest, Shop!historyVars
<1>5. ASSUME NEW r \in Requests, Shop!Invalidate(r) PROVE KeptInv'
  BY <1>5, JobKept DEF Shop!Invalidate, Shop!Rest, Shop!Unknown, Shop!historyVars
<1>6. ASSUME NEW r \in Requests, Shop!BuildBegins(r) PROVE KeptInv'
  <2> DEFINE what == [op |-> "build", ids |-> DOMAIN effects]
  <2>1. /\ job' = [job EXCEPT ![r] = what] /\ job[r] = Shop!Rest
        /\ UNCHANGED <<effects, groups, registry, missed>>
    BY <1>6 DEF Shop!BuildBegins, Shop!Takes, Shop!historyVars
  <2>2. what.op = "build" /\ what.ids \subseteq Kept'
    BY <2>1 DEF Kept
  <2>3. job[r].op = "none"
    BY <2>1 DEF Shop!Rest
  <2> HIDE DEF what
  <2> QED BY <2>1, <2>2, <2>3, JobKept
<1>7. ASSUME NEW r \in Requests, Shop!Build(r) PROVE KeptInv'
  <2>1. job[r].ids \subseteq Kept
    BY <1>7 DEF KeptInv, JobsKnow, Shop!Build
  <2> QED BY <1>7, <2>1, JobKept DEF Shop!Build, Shop!Rest, Shop!Holding, Shop!historyVars
<1>8. ASSUME NEW r \in Requests, NEW b \in Bundles, NEW ids \in SUBSET Ids, Shop!SaveBegins(r, b, ids)
      PROVE  KeptInv'
  <2> DEFINE what == [op |-> "save", preset |-> b, ids |-> ids]
  <2>1. /\ registry.known /\ ids \subseteq registry.ids
        /\ job' = [job EXCEPT ![r] = what] /\ job[r] = Shop!Rest
        /\ missed' = missed \cup {e \in ids : Shop!Deleting(e)}
        /\ UNCHANGED <<effects, groups, registry>>
    BY <1>8 DEF Shop!SaveBegins, Shop!Takes
  <2>2. what.op = "save" /\ what.ids \subseteq Kept'
    BY <2>1 DEF KeptInv, RegistryKnows, Released, Shop!Deleting, Kept
  <2>3. job[r].op = "none"
    BY <2>1 DEF Shop!Rest
  <2> HIDE DEF what
  <2> QED BY <2>1, <2>2, <2>3, JobKept
<1>9. ASSUME NEW b \in Bundles, Shop!Discard(b) PROVE KeptInv'
  BY <1>9 DEF Shop!Discard, Shop!historyVars, KeptInv, ShopShape, PresetsKnow, RegistryKnows, JobsKnow,
              DeletesUnused, Kept, Released, Shop!InUse
<1>10. CASE Shop!Restart
  BY <1>10 DEF Shop!Restart, Shop!Rest, Shop!Unknown, Shop!historyVars, KeptInv, ShopShape, PresetsKnow,
               RegistryKnows, JobsKnow, DeletesUnused, Kept
<1> QED
  BY <1>1, <1>2, <1>3, <1>4, <1>5, <1>6, <1>7, <1>8, <1>9, <1>10, CommitKept, SaveKept
  DEF Shop!Next, Shop!Serve

LEMMA KeptRests == KeptInv /\ UNCHANGED shopVars => KeptInv'
BY DEF shopVars, KeptInv, ShopShape, PresetsKnow, RegistryKnows, JobsKnow, DeletesUnused, Kept, Released,
       Shop!InUse

(* A preset names effects that exist; one that is gone was deleted while a save of   *)
(* a preset that names it, or a building of the registry, was under way.          *)
THEOREM PresetsNameExisting == Spec => []PresetEffectsExist
<1>1. Init => KeptInv
  BY KeptInit DEF Init
<1>2. KeptInv /\ [Next]_vars => KeptInv'
  BY StepOfEach, KeptStep, KeptRests
<1>3. KeptInv => PresetEffectsExist
  BY DEF KeptInv, PresetsKnow, Kept, PresetEffectsExist, Shop!PresetEffectsExist
<1> QED BY <1>1, <1>2, <1>3, PTL DEF Spec

-----------------------------------------------------------------------------
(* The texts of effects. A synchronization writes only the texts that it has read  *)
(* of built-ins without a mark, and those nobody wrote: a request that changes the  *)
(* text of a built-in marks it (or resets it to the text of the release). What a   *)
(* request has read of source and mark is still there when it commits, or another  *)
(* one has saved the effect meanwhile: the columns it leaves out are its own.      *)

\* What a save does with a text, where it leaves a built-in without a mark: nothing, or
\* it takes the text of the release.
Plan(j) ==
  /\ j.seen \in Shop!RowSet /\ (j.marks => j.row.edited)
  /\ (j.row.source = "builtin" /\ ~j.row.edited /\ ~j.seen.edited) =>
       j.seen.source = "builtin" /\ j.row.text \in {j.seen.text, "seed"}
Planned(j) == j.id \in Ids /\ j.row \in Shop!RowSet /\ (j.op = "update" => Plan(j))

RowsTyped ==
  /\ DOMAIN effects \subseteq Ids /\ \A e \in DOMAIN effects : effects[e] \in Shop!RowSet
  /\ DOMAIN wrote = Ids /\ DOMAIN job = Requests /\ DOMAIN sync = Shop!Processes
JobsPlanned == \A r \in Requests : job[r].op \in {"insert", "update", "delete"} => Planned(job[r])
JobsSaw ==
  \A r \in Requests :
    job[r].op = "update" /\ job[r].at = "read" /\ job[r].id \notin touched =>
      /\ Shop!Exists(job[r].id)
      /\ effects[job[r].id].source = job[r].seen.source
      /\ effects[job[r].id].edited <=> job[r].seen.edited
SyncsSaw ==
  \A p \in Shop!Processes : sync[p].at = "read" =>
    \A e \in Shop!Outdated(p) \ touched : wrote[e] = "none"
UnmarkedUnwritten ==
  /\ \A e \in Ids \ DOMAIN effects : wrote[e] = "none"
  /\ \A e \in DOMAIN effects \ touched :
       effects[e].source = "builtin" /\ ~effects[e].edited => wrote[e] \in {"none", "seed"}

TextInv ==
  /\ RowsTyped /\ JobsPlanned /\ JobsSaw /\ SyncsSaw /\ UnmarkedUnwritten /\ Shop!EditedTextKept

LEMMA TextInit == Shop!Init => TextInv
<1> SUFFICES ASSUME Shop!Init PROVE TextInv
  OBVIOUS
<1> USE DEF Shop!Init
<1>1. RowsTyped
  BY ServiceAssumption DEF RowsTyped, Shop!EffectsAssumption
<1>2. JobsPlanned /\ JobsSaw /\ SyncsSaw
  BY DEF JobsPlanned, JobsSaw, SyncsSaw, Shop!Rest, Shop!Waiting
<1>3. UnmarkedUnwritten
  BY <1>1 DEF UnmarkedUnwritten, RowsTyped, Shop!Exists, Shop!Owned
<1>4. Shop!EditedTextKept
  BY <1>1 DEF Shop!EditedTextKept, RowsTyped, Shop!Exists, Shop!Owned
<1> QED BY <1>1, <1>2, <1>3, <1>4 DEF TextInv

\* A commit: of the effect it saves, and of the others.
LEMMA CommitTexts ==
  ASSUME TextInv, NEW r \in Requests, Shop!Commit(r)
  PROVE  TextInv'
<1> USE DEF TextInv
<1> DEFINE e == job[r].id  new == job[r].row  seen == job[r].seen  op == job[r].op
<1>1. /\ op \in {"insert", "update", "delete"} /\ job[r].at = "read"
      /\ (op = "insert") <=> e \notin DOMAIN effects
      /\ job' = [job EXCEPT ![r] = [@ EXCEPT !.at = "committed"]]
      /\ UNCHANGED sync /\ touched' = IF Shop!Syncing \/ Shop!Contended(r) THEN touched \cup {e} ELSE touched
  BY DEF Shop!Commit, Shop!Exists
<1>2. Planned(job[r]) /\ e \in Ids
  BY <1>1 DEF JobsPlanned, Planned
<1>3. /\ DOMAIN effects' = IF op = "delete" THEN DOMAIN effects \ {e} ELSE DOMAIN effects \cup {e}
      /\ \A f \in DOMAIN effects' : f # e => effects'[f] = effects[f]
      /\ op = "insert" => effects'[e] = new
      /\ op = "update" => effects'[e] = Shop!Merged(e, new, seen, job[r].marks)
  BY <1>1 DEF Shop!Commit
<1>4. /\ DOMAIN wrote' = Ids /\ \A f \in Ids : f # e => wrote'[f] = wrote[f]
      /\ op = "insert" => wrote'[e] = IF new.source = "builtin" THEN "none" ELSE new.text
      /\ op = "delete" => wrote'[e] = "none"
      /\ op = "update" =>
           wrote'[e] = IF ~new.edited /\ new.source = "builtin" /\ seen.edited THEN "none"
                       ELSE IF new.text # seen.text THEN new.text ELSE wrote[e]
  BY <1>1, <1>2 DEF Shop!Commit, RowsTyped
<1>5. /\ DOMAIN job' = Requests /\ \A q \in Requests : q # r => job'[q] = job[q]
      /\ job'[r].op = op /\ job'[r].at = "committed" /\ job'[r].id = e /\ job'[r].row = new
      /\ job'[r].seen = seen /\ job'[r].marks = job[r].marks
  BY <1>1 DEF RowsTyped
<1>6. ASSUME op = "update"
      PROVE  /\ effects'[e] \in Shop!RowSet
             /\ effects'[e].text = IF new.text # seen.text THEN new.text ELSE effects[e].text
             /\ effects[e].source = seen.source => effects'[e].source = new.source
             /\ (effects[e].edited <=> seen.edited) => (effects'[e].edited <=> new.edited)
  <2> DEFINE m == effects'[e]  marks == job[r].marks
  <2>1. new \in Shop!RowSet /\ seen \in Shop!RowSet /\ (marks => new.edited)
    BY <1>2, <1>6 DEF Planned, Plan
  <2>2. effects[e] \in Shop!RowSet
    BY <1>1, <1>6 DEF RowsTyped
  <2>3. m = Shop!Merged(e, new, seen, marks)
    BY <1>3, <1>6
  <2> HIDE DEF e, new, seen, m, marks
  <2>4. DOMAIN new = {"source", "text", "enabled", "edited"}
    BY <2>1 DEF Shop!RowSet
  <2>5. /\ m = [c \in {"source", "text", "enabled", "edited"} |-> m[c]]
        /\ \A c \in {"source", "text", "enabled", "edited"} :
             m[c] = IF new[c] # seen[c] \/ (marks /\ c = "edited") THEN new[c] ELSE effects[e][c]
    BY <2>3, <2>4 DEF Shop!Merged
  <2>6. /\ m["source"] \in {new.source, effects[e].source} /\ m["text"] \in {new.text, effects[e].text}
        /\ m["enabled"] \in {new.enabled, effects[e].enabled}
        /\ m["edited"] \in {new.edited, effects[e].edited}
    BY <2>5
  <2>7. m \in Shop!RowSet
    BY <2>1, <2>2, <2>5, <2>6 DEF Shop!RowSet
  <2>8. m.text = IF new.text # seen.text THEN new.text ELSE effects[e].text
    BY <2>5
  <2>9. effects[e].source = seen.source => m.source = new.source
    BY <2>5
  <2>10. (effects[e].edited <=> seen.edited) => (m.edited <=> new.edited)
    BY <2>1, <2>2, <2>5 DEF Shop!RowSet
  <2> QED BY <2>7, <2>8, <2>9, <2>10 DEF m
<1>7. RowsTyped'
  <2> SUFFICES ASSUME NEW f \in DOMAIN effects' PROVE f \in Ids /\ effects'[f] \in Shop!RowSet
    BY <1>1, <1>4, <1>5 DEF RowsTyped
  <2>1. CASE f # e
    BY <1>3, <2>1 DEF RowsTyped
  <2>2. CASE f = e
    BY <1>1, <1>2, <1>3, <1>6, <2>2 DEF Planned
  <2> QED BY <2>1, <2>2
<1>8. JobsPlanned'
  BY <1>2, <1>5 DEF JobsPlanned, Planned, Plan
<1>9. JobsSaw'
  <2> SUFFICES ASSUME NEW q \in Requests, job'[q].op = "update", job'[q].at = "read", job'[q].id \notin touched'
               PROVE  /\ job'[q].id \in DOMAIN effects'
                      /\ effects'[job'[q].id].source = job'[q].seen.source
                      /\ effects'[job'[q].id].edited <=> job'[q].seen.edited
    BY DEF JobsSaw, Shop!Exists
  <2>1. q # r /\ job'[q] = job[q]
    BY <1>5
  <2>2. job[q].id # e
    BY <1>1, <2>1 DEF Shop!Contended
  <2> QED BY <1>1, <1>3, <2>1, <2>2 DEF JobsSaw, Shop!Exists
<1>10. SyncsSaw'
  <2> SUFFICES ASSUME NEW p \in Shop!Processes, sync[p].at = "read",
                      NEW f \in Shop!Outdated(p), f \notin touched'
               PROVE  wrote'[f] = "none"
    BY <1>1 DEF SyncsSaw, Shop!Outdated
  <2>1. f # e /\ f \notin touched
    BY <1>1 DEF Shop!Syncing
  <2>2. wrote[f] = "none" /\ f \in Ids
    BY <2>1, ServiceAssumption DEF SyncsSaw, Shop!Outdated, Shop!EffectsAssumption
  <2> QED BY <1>4, <2>1, <2>2
<1>11. \A f \in Ids \ DOMAIN effects' : wrote'[f] = "none"
  BY <1>1, <1>3, <1>4 DEF UnmarkedUnwritten
<1>12. ASSUME NEW f \in DOMAIN effects', f \notin touched'
       PROVE  /\ effects'[f].source = "builtin" /\ ~effects'[f].edited => wrote'[f] \in {"none", "seed"}
              /\ wrote'[f] # "none" => effects'[f].text = wrote'[f]
  <2> DEFINE Goal == /\ effects'[f].source = "builtin" /\ ~effects'[f].edited => wrote'[f] \in {"none", "seed"}
                     /\ wrote'[f] # "none" => effects'[f].text = wrote'[f]
  <2>1. CASE f # e
    BY <1>1, <1>3, <1>4, <1>12, <2>1 DEF UnmarkedUnwritten, Shop!EditedTextKept, RowsTyped
  <2>2. CASE f = e /\ op = "insert"
    BY <1>3, <1>4, <2>2
  <2>3. CASE f = e /\ op = "update"
    <3>1. f \in DOMAIN effects /\ f \notin touched
      BY <1>1, <1>12, <2>3
    <3>2. effects[e].source = seen.source /\ (effects[e].edited <=> seen.edited)
      BY <1>1, <2>3, <3>1 DEF JobsSaw
    <3>3. effects'[e].source = new.source /\ (effects'[e].edited <=> new.edited)
      BY <1>6, <2>3, <3>2
    <3>4. wrote[e] # "none" => effects[e].text = wrote[e]
      BY <2>3, <3>1 DEF Shop!EditedTextKept
    <3>5. wrote'[e] # "none" => effects'[e].text = wrote'[e]
      BY <1>4, <1>6, <2>3, <3>4
    <3>6. ASSUME new.source = "builtin", ~new.edited
          PROVE  wrote'[e] \in {"none", "seed"}
      <4>1. CASE seen.edited
        BY <1>4, <2>3, <3>6, <4>1
      <4>2. CASE ~seen.edited
        <5>1. seen.source = "builtin" /\ new.text \in {seen.text, "seed"}
          BY <1>2, <2>3, <3>6, <4>2 DEF Planned, Plan
        <5>2. wrote[e] \in {"none", "seed"}
          BY <2>3, <3>1, <3>2, <4>2, <5>1 DEF UnmarkedUnwritten
        <5> QED BY <1>4, <2>3, <5>1, <5>2
      <4> QED BY <4>1, <4>2
    <3> QED BY <2>3, <3>3, <3>5, <3>6
  <2>4. CASE f = e /\ op = "delete"
    BY <1>3, <2>4
  <2> QED BY <1>1, <2>1, <2>2, <2>3, <2>4
<1> QED BY <1>7, <1>8, <1>9, <1>10, <1>11, <1>12 DEF UnmarkedUnwritten, Shop!EditedTextKept

\* A request for effects that has read.
LEMMA EditTexts ==
  ASSUME TextInv, NEW r \in Requests, NEW op \in {"insert", "update", "delete"}, NEW e \in Ids,
         NEW new \in Shop!RowSet, NEW marks, Shop!Begin(r, Shop!Edit(op, e, new, marks)),
         op = "update" => Plan(Shop!Edit(op, e, new, marks)) /\ e \in DOMAIN effects
  PROVE  TextInv'
<1> USE DEF TextInv
<1> DEFINE what == Shop!Edit(op, e, new, marks)
<1>1. /\ job' = [job EXCEPT ![r] = what]
      /\ UNCHANGED <<effects, sync, wrote, touched>>
  BY DEF Shop!Begin, Shop!Takes, Shop!historyVars
<1>2. /\ what.op = op /\ what.id = e /\ what.row = new
      /\ what.seen = IF e \in DOMAIN effects THEN effects[e] ELSE new
  BY DEF Shop!Edit, Shop!Exists
<1>3. op = "update" => Plan(what) /\ e \in DOMAIN effects
  OBVIOUS
<1> HIDE DEF what
<1>4. job'[r] = what /\ \A q \in Requests : q # r => job'[q] = job[q]
  BY <1>1 DEF RowsTyped
<1>5. RowsTyped' /\ SyncsSaw' /\ UnmarkedUnwritten' /\ Shop!EditedTextKept'
  BY <1>1 DEF RowsTyped, SyncsSaw, Shop!Outdated, UnmarkedUnwritten, Shop!EditedTextKept
<1>6. JobsPlanned'
  BY <1>2, <1>3, <1>4 DEF JobsPlanned, Planned
<1>7. JobsSaw'
  BY <1>1, <1>2, <1>3, <1>4 DEF JobsSaw, Shop!Exists
<1> QED BY <1>5, <1>6, <1>7

\* A request for something else, or one that is over.
LEMMA JobsTexts ==
  ASSUME TextInv, UNCHANGED <<effects, sync, wrote, touched>>, DOMAIN job' = Requests,
         \A r \in Requests : job'[r] = job[r] \/ job'[r].op \notin {"insert", "update", "delete"}
  PROVE  TextInv'
<1> USE DEF TextInv
<1>1. RowsTyped' /\ SyncsSaw' /\ UnmarkedUnwritten' /\ Shop!EditedTextKept'
  BY DEF RowsTyped, SyncsSaw, Shop!Outdated, UnmarkedUnwritten, Shop!EditedTextKept
<1>2. JobsPlanned' /\ JobsSaw'
  BY DEF JobsPlanned, Planned, Plan, JobsSaw, Shop!Exists
<1> QED BY <1>1, <1>2

\* A process that starts.
LEMMA ReadsTexts ==
  ASSUME TextInv, NEW p \in Shop!Processes, Shop!Reads(p)
  PROVE  TextInv'
<1> USE DEF TextInv
<1>1. /\ sync' = [sync EXCEPT ![p] = [@ EXCEPT !.at = "read", !.read = effects]]
      /\ UNCHANGED <<effects, job, wrote, touched>>
  BY DEF Shop!Reads, Shop!historyVars
<1>2. RowsTyped' /\ JobsPlanned' /\ JobsSaw' /\ UnmarkedUnwritten' /\ Shop!EditedTextKept'
  BY <1>1 DEF RowsTyped, JobsPlanned, JobsSaw, Shop!Exists, UnmarkedUnwritten, Shop!EditedTextKept
<1>3. SyncsSaw'
  <2> SUFFICES ASSUME NEW q \in Shop!Processes, sync'[q].at = "read", NEW e \in Shop!Outdated(q)', e \notin touched
               PROVE  wrote[e] = "none"
    BY <1>1 DEF SyncsSaw
  <2>1. CASE q # p
    BY <1>1, <2>1 DEF SyncsSaw, Shop!Outdated, RowsTyped
  <2>2. CASE q = p
    <3>1. sync'[p].read = effects
      BY <1>1 DEF RowsTyped
    <3>2. /\ e \in DOMAIN effects /\ effects[e].source = "builtin" /\ ~effects[e].edited
          /\ effects[e].text # "seed"
      BY <2>2, <3>1 DEF Shop!Outdated
    <3> QED BY <3>2 DEF UnmarkedUnwritten, Shop!EditedTextKept
  <2> QED BY <2>1, <2>2
<1> QED BY <1>2, <1>3

LEMMA WritesTexts ==
  ASSUME TextInv, NEW p \in Shop!Processes, Shop!Writes(p)
  PROVE  TextInv'
<1> USE DEF TextInv
<1> DEFINE new == Shop!Missing(p)  old == Shop!Outdated(p)
<1>1. /\ sync[p].at = "read" /\ new \cap DOMAIN effects = {} /\ old \subseteq DOMAIN effects
      /\ DOMAIN effects' = DOMAIN effects \cup new
      /\ \A e \in new : effects'[e] = Shop!Shipped
      /\ \A e \in DOMAIN effects \ old : effects'[e] = effects[e]
      /\ \A e \in old : effects'[e] = [effects[e] EXCEPT !.text = "seed"]
      /\ DOMAIN sync' = Shop!Processes /\ sync'[p].at = "done"
      /\ \A q \in Shop!Processes : q # p => sync'[q] = sync[q]
      /\ UNCHANGED <<job, wrote, touched>>
  BY DEF Shop!Writes, Shop!historyVars, RowsTyped, Shop!Waiting
<1>2. new \subseteq Ids /\ \A e \in old \ touched : wrote[e] = "none"
  BY <1>1, ServiceAssumption DEF Shop!Missing, Shop!EffectsAssumption, SyncsSaw
<1> HIDE DEF new, old
<1>3. ASSUME NEW e \in old
      PROVE  /\ effects'[e] \in Shop!RowSet /\ effects'[e].text = "seed"
             /\ effects'[e].source = effects[e].source /\ (effects'[e].edited <=> effects[e].edited)
  <2>1. effects[e] \in Shop!RowSet
    BY <1>1, <1>3 DEF RowsTyped
  <2>2. effects'[e] = [source |-> effects[e].source, text |-> "seed", enabled |-> effects[e].enabled,
                       edited |-> effects[e].edited]
    BY <1>1, <1>3, <2>1 DEF Shop!RowSet
  <2> QED BY <2>1, <2>2 DEF Shop!RowSet, Shop!Texts
<1>4. RowsTyped'
  <2> SUFFICES ASSUME NEW e \in DOMAIN effects' PROVE e \in Ids /\ effects'[e] \in Shop!RowSet
    BY <1>1 DEF RowsTyped
  <2>1. Shop!Shipped \in Shop!RowSet
    BY DEF Shop!Shipped, Shop!RowSet, Shop!Sources, Shop!Texts
  <2> QED BY <1>1, <1>2, <1>3, <2>1 DEF RowsTyped
<1>5. JobsPlanned'
  BY <1>1 DEF JobsPlanned
<1>6. JobsSaw'
  <2> SUFFICES ASSUME NEW r \in Requests, job[r].op = "update", job[r].at = "read", job[r].id \notin touched
               PROVE  /\ job[r].id \in DOMAIN effects'
                      /\ effects'[job[r].id].source = job[r].seen.source
                      /\ effects'[job[r].id].edited <=> job[r].seen.edited
    BY <1>1 DEF JobsSaw, Shop!Exists
  <2>1. /\ job[r].id \in DOMAIN effects
        /\ effects[job[r].id].source = job[r].seen.source
        /\ effects[job[r].id].edited <=> job[r].seen.edited
    BY DEF JobsSaw, Shop!Exists
  <2>2. CASE job[r].id \in old
    BY <1>1, <1>3, <2>1, <2>2
  <2>3. CASE job[r].id \notin old
    BY <1>1, <2>1, <2>3
  <2> QED BY <2>2, <2>3
<1>7. SyncsSaw'
  BY <1>1 DEF SyncsSaw, Shop!Outdated
<1>8. UnmarkedUnwritten'
  <2>1. \A e \in Ids \ DOMAIN effects' : wrote'[e] = "none"
    BY <1>1 DEF UnmarkedUnwritten
  <2>2. ASSUME NEW e \in DOMAIN effects' \ touched, effects'[e].source = "builtin", ~effects'[e].edited
        PROVE  wrote[e] \in {"none", "seed"}
    <3>1. CASE e \in old
      BY <1>2, <2>2, <3>1
    <3>2. CASE e \in new
      BY <1>1, <1>2, <3>2 DEF UnmarkedUnwritten
    <3>3. CASE e \in DOMAIN effects \ old
      BY <1>1, <2>2, <3>3 DEF UnmarkedUnwritten
    <3> QED BY <1>1, <3>1, <3>2, <3>3
  <2> QED BY <1>1, <2>1, <2>2 DEF UnmarkedUnwritten
<1>9. Shop!EditedTextKept'
  <2> SUFFICES ASSUME NEW e \in DOMAIN effects', wrote[e] # "none", e \notin touched
               PROVE  effects'[e].text = wrote[e]
    BY <1>1 DEF Shop!EditedTextKept
  <2>1. e \notin old
    BY <1>2
  <2>2. e \notin new
    BY <1>1, <1>2 DEF UnmarkedUnwritten
  <2> QED BY <1>1, <2>1, <2>2 DEF Shop!EditedTextKept
<1> QED BY <1>4, <1>5, <1>6, <1>7, <1>8, <1>9

LEMMA TextStep == TextInv /\ Shop!Next => TextInv'
<1> SUFFICES ASSUME TextInv, Shop!Next PROVE TextInv'
  OBVIOUS
<1>0. /\ \A e \in DOMAIN effects : e \in Ids /\ effects[e] \in Shop!RowSet
      /\ DOMAIN job = Requests /\ DOMAIN sync = Shop!Processes
  BY DEF TextInv, RowsTyped
<1>1. ASSUME NEW p \in Shop!Processes, Shop!Conflict(p) \/ Shop!Vanished(p) PROVE TextInv'
  <2>1. PICK what : sync' = [sync EXCEPT ![p] = what] /\ what.at \in {"idle", "failed"}
    <3>1. CASE Shop!Conflict(p)
      <4> DEFINE state == IF sync[p].again THEN "failed" ELSE "idle"
                 what == [Shop!Waiting EXCEPT !.at = state, !.again = TRUE]
      <4>1. sync' = [sync EXCEPT ![p] = what]
        BY <3>1 DEF Shop!Conflict
      <4>2. what.at = state
        BY DEF Shop!Waiting
      <4> HIDE DEF what
      <4> QED BY <4>1, <4>2
    <3>2. CASE Shop!Vanished(p)
      <4> DEFINE what == [Shop!Waiting EXCEPT !.at = "failed"]
      <4>1. sync' = [sync EXCEPT ![p] = what]
        BY <3>2 DEF Shop!Vanished
      <4>2. what.at = "failed"
        BY DEF Shop!Waiting
      <4> HIDE DEF what
      <4> QED BY <4>1, <4>2
    <3> QED BY <1>1, <3>1, <3>2
  <2>2. UNCHANGED <<effects, job, wrote, touched>>
    BY <1>1 DEF Shop!Conflict, Shop!Vanished, Shop!historyVars
  <2>3. /\ DOMAIN sync' = Shop!Processes /\ sync'[p].at \in {"idle", "failed"}
        /\ \A q \in Shop!Processes : q # p => sync'[q] = sync[q]
    BY <1>0, <2>1
  <2>4. SyncsSaw'
    BY <2>2, <2>3 DEF TextInv, SyncsSaw, Shop!Outdated
  <2> QED BY <2>2, <2>3, <2>4 DEF TextInv, RowsTyped, JobsPlanned, JobsSaw, Shop!Exists, UnmarkedUnwritten,
                            Shop!EditedTextKept
<1>2. CASE Shop!Restart
  <2>1. /\ sync' = [p \in Shop!Processes |-> Shop!Waiting] /\ job' = [r \in Requests |-> Shop!Rest]
        /\ UNCHANGED <<effects, wrote, touched>>
    BY <1>2 DEF Shop!Restart, Shop!historyVars
  <2>2. JobsPlanned' /\ JobsSaw' /\ SyncsSaw'
    BY <2>1 DEF JobsPlanned, JobsSaw, SyncsSaw, Shop!Rest, Shop!Waiting
  <2> QED BY <2>1, <2>2 DEF TextInv, RowsTyped, UnmarkedUnwritten, Shop!EditedTextKept
<1>3. ASSUME NEW r \in Requests, NEW e \in Ids, NEW body \in Bodies, Shop!CreateBegins(r, e, body)
      PROVE  TextInv'
  <2>1. Shop!Own(body) \in Shop!RowSet
    BY ServiceAssumption DEF Shop!EffectsAssumption, Shop!Own, Shop!RowSet, Shop!Sources
  <2> QED BY <1>3, <2>1, EditTexts DEF Shop!CreateBegins, Shop!Insert
<1>4. ASSUME NEW r \in Requests, NEW e \in Ids, NEW f \in Ids, Shop!DuplicateBegins(r, e, f)
      PROVE  TextInv'
  <2>1. Shop!Own(effects[e]) \in Shop!RowSet
    BY <1>0, <1>4 DEF Shop!DuplicateBegins, Shop!Exists, Shop!Own, Shop!RowSet, Shop!Sources
  <2> QED BY <1>4, <2>1, EditTexts DEF Shop!DuplicateBegins, Shop!Insert
<1>5. ASSUME NEW r \in Requests, NEW e \in Ids, NEW body \in Bodies, Shop!UpdateBegins(r, e, body)
      PROVE  TextInv'
  <2> DEFINE marks == effects[e].source = "builtin" /\ body.text # effects[e].text
             new == [effects[e] EXCEPT !.text = body.text, !.enabled = body.enabled, !.edited = @ \/ marks]
  <2>1. e \in DOMAIN effects /\ Shop!Begin(r, Shop!Edit("update", e, new, marks))
    BY <1>5 DEF Shop!UpdateBegins, Shop!Exists
  <2>2. effects[e] \in Shop!RowSet /\ body.text \in Shop!Texts /\ body.enabled \in BOOLEAN
    BY <1>0, <2>1, ServiceAssumption DEF Shop!EffectsAssumption
  <2>3. new = [source |-> effects[e].source, text |-> body.text, enabled |-> body.enabled,
               edited |-> effects[e].edited \/ marks]
    <3>1. PICK x \in Shop!RowSet : x = effects[e]
      BY <2>2
    <3>2. PICK edited : edited = (x.edited \/ marks)
      OBVIOUS
    <3>3. new = [x EXCEPT !.text = body.text, !.enabled = body.enabled, !.edited = edited]
      BY <3>1, <3>2
    <3> HIDE DEF new, marks
    <3>4. new = [source |-> x.source, text |-> body.text, enabled |-> body.enabled, edited |-> edited]
      BY <3>1, <3>3 DEF Shop!RowSet
    <3> QED BY <3>1, <3>2, <3>4
  <2> HIDE DEF new
  <2>4. new \in Shop!RowSet
    BY <2>2, <2>3 DEF Shop!RowSet
  <2>5. /\ new.source = effects[e].source /\ new.text = body.text
        /\ new.edited <=> (effects[e].edited \/ marks)
    BY <2>3
  <2>6. Plan(Shop!Edit("update", e, new, marks))
    BY <2>1, <2>2, <2>5 DEF Plan, Shop!Edit, Shop!Exists
  <2> HIDE DEF marks
  <2> QED BY <2>1, <2>4, <2>6, EditTexts
<1>6. ASSUME NEW r \in Requests, NEW e \in Ids, Shop!ResetBegins(r, e)
      PROVE  TextInv'
  <2> DEFINE new == [effects[e] EXCEPT !.text = "seed", !.edited = FALSE]
  <2>1. /\ e \in DOMAIN effects /\ effects[e].source = "builtin"
        /\ Shop!Begin(r, Shop!Edit("update", e, new, FALSE))
    BY <1>6 DEF Shop!ResetBegins, Shop!Exists
  <2>2. effects[e] \in Shop!RowSet
    BY <1>0, <2>1
  <2>3. new = [source |-> effects[e].source, text |-> "seed", enabled |-> effects[e].enabled,
               edited |-> FALSE]
    <3>1. PICK x \in Shop!RowSet : x = effects[e]
      BY <2>2
    <3>2. new = [x EXCEPT !.text = "seed", !.edited = FALSE]
      BY <3>1
    <3> HIDE DEF new
    <3>3. new = [source |-> x.source, text |-> "seed", enabled |-> x.enabled, edited |-> FALSE]
      BY <3>1, <3>2 DEF Shop!RowSet
    <3> QED BY <3>1, <3>3
  <2> HIDE DEF new
  <2>4. new \in Shop!RowSet
    BY <2>2, <2>3 DEF Shop!RowSet, Shop!Texts
  <2>5. new.source = effects[e].source /\ new.text = "seed"
    BY <2>3
  <2>6. Plan(Shop!Edit("update", e, new, FALSE))
    BY <2>1, <2>2, <2>5 DEF Plan, Shop!Edit, Shop!Exists
  <2> QED BY <2>1, <2>4, <2>6, EditTexts
<1>7. ASSUME NEW r \in Requests, NEW e \in Ids, NEW item \in Items, Shop!ImportBegins(r, e, item)
      PROVE  TextInv'
  <2> DEFINE marks == Shop!Marks(e, item)
             new == [source |-> Shop!SourceOf(e, item), text |-> item.text, enabled |-> item.enabled,
                     edited |-> marks]
             op == IF e \in DOMAIN effects THEN "update" ELSE "insert"
  <2>1. Shop!Begin(r, Shop!Edit(op, e, new, marks))
    BY <1>7 DEF Shop!ImportBegins, Shop!Exists
  <2>2. /\ item.text \in Shop!Texts /\ item.enabled \in BOOLEAN
        /\ item.source \in Shop!Sources \cup {Shop!Unnamed}
    BY ServiceAssumption DEF Shop!EffectsAssumption
  <2>3. Shop!SourceOf(e, item) \in Shop!Sources
    BY <1>0, <2>2 DEF Shop!SourceOf, Shop!Exists, Shop!RowSet, Shop!Sources
  <2>4. marks \in BOOLEAN
    BY DEF Shop!Marks
  <2>5. new \in Shop!RowSet
    BY <2>2, <2>3, <2>4 DEF Shop!RowSet
  <2>6. new.source = Shop!SourceOf(e, item) /\ (new.edited <=> marks)
    OBVIOUS
  <2> HIDE DEF new
  <2>7. ASSUME e \in DOMAIN effects
        PROVE  Plan(Shop!Edit(op, e, new, marks))
    BY <1>0, <2>6, <2>7 DEF Plan, Shop!Edit, Shop!Exists, Shop!Marks
  <2>8. op \in {"insert", "update", "delete"} /\ (op = "update" => e \in DOMAIN effects)
    OBVIOUS
  <2> HIDE DEF marks, op
  <2> QED BY <2>1, <2>5, <2>7, <2>8, EditTexts
<1>8. ASSUME NEW r \in Requests, NEW e \in Ids, Shop!DeleteBegins(r, e)
      PROVE  TextInv'
  <2> DEFINE off == [effects[e] EXCEPT !.enabled = FALSE]
  <2>1. e \in DOMAIN effects /\ effects[e] \in Shop!RowSet
    BY <1>0, <1>8 DEF Shop!DeleteBegins, Shop!Exists
  <2>2. CASE Shop!Begin(r, Shop!Edit("delete", e, effects[e], FALSE))
    BY <2>1, <2>2, EditTexts
  <2>3. CASE Shop!Begin(r, Shop!Edit("update", e, off, FALSE))
    <3>1. off = [source |-> effects[e].source, text |-> effects[e].text, enabled |-> FALSE,
                 edited |-> effects[e].edited]
      <4>1. PICK x \in Shop!RowSet : x = effects[e]
        BY <2>1
      <4>2. off = [x EXCEPT !.enabled = FALSE]
        BY <4>1
      <4> HIDE DEF off
      <4>3. off = [source |-> x.source, text |-> x.text, enabled |-> FALSE, edited |-> x.edited]
        BY <4>1, <4>2 DEF Shop!RowSet
      <4> QED BY <4>1, <4>3
    <3> HIDE DEF off
    <3>2. off \in Shop!RowSet
      BY <2>1, <3>1 DEF Shop!RowSet
    <3>3. off.source = effects[e].source /\ off.text = effects[e].text
      BY <3>1
    <3>4. Plan(Shop!Edit("update", e, off, FALSE))
      BY <2>1, <3>3 DEF Plan, Shop!Edit, Shop!Exists
    <3> QED BY <2>1, <2>3, <3>2, <3>4, EditTexts
  <2> QED BY <1>8, <2>2, <2>3 DEF Shop!DeleteBegins
<1>9. ASSUME NEW r \in Requests,
             \/ Shop!CommitFails(r) \/ Shop!Invalidate(r) \/ Shop!BuildBegins(r) \/ Shop!Build(r)
             \/ (\E b \in Bundles, ids \in SUBSET Ids : Shop!SaveBegins(r, b, ids)) \/ Shop!Save(r)
      PROVE  TextInv'
  <2>1. UNCHANGED <<effects, sync, wrote, touched>>
    BY <1>9 DEF Shop!CommitFails, Shop!Invalidate, Shop!BuildBegins, Shop!Build, Shop!SaveBegins, Shop!Save,
                Shop!historyVars
  <2>2. \E what : job' = [job EXCEPT ![r] = what] /\ what.op \in {"none", "build", "save"}
    BY <1>9 DEF Shop!CommitFails, Shop!Invalidate, Shop!BuildBegins, Shop!Build, Shop!SaveBegins, Shop!Save,
                Shop!Takes, Shop!Rest
  <2>3. /\ DOMAIN job' = Requests
        /\ \A q \in Requests : job'[q] = job[q] \/ job'[q].op \notin {"insert", "update", "delete"}
    BY <1>0, <2>2
  <2> QED BY <2>1, <2>3, JobsTexts
<1>10. ASSUME NEW b \in Bundles, Shop!Discard(b) PROVE TextInv'
  BY <1>0, <1>10, JobsTexts DEF Shop!Discard, Shop!historyVars
<1> QED
  BY <1>1, <1>2, <1>3, <1>4, <1>5, <1>6, <1>7, <1>8, <1>9, <1>10, ReadsTexts, WritesTexts, CommitTexts
  DEF Shop!Next, Shop!Serve, Shop!Start

LEMMA TextRests == TextInv /\ UNCHANGED shopVars => TextInv'
BY DEF shopVars, TextInv, RowsTyped, JobsPlanned, JobsSaw, SyncsSaw, UnmarkedUnwritten, Shop!EditedTextKept,
       Shop!Exists, Shop!Outdated

(* A text that a user wrote is kept by releases and by the requests of others, unless *)
(* they have read the effect before it was saved and write it after.              *)
THEOREM WrittenTextsStay == Spec => []EditedTextKept
<1>1. Init => TextInv
  BY TextInit DEF Init
<1>2. TextInv /\ [Next]_vars => TextInv'
  BY StepOfEach, TextStep, TextRests
<1>3. TextInv => EditedTextKept
  BY DEF TextInv, EditedTextKept
<1> QED BY <1>1, <1>2, <1>3, PTL DEF Spec

-----------------------------------------------------------------------------
(* Pages of a search. The places of the photos that match are 1, 2, 3, ... up to    *)
(* their number, so a page is full unless it is the last one.                    *)

LEMMA ClientCardinality == \A S : Client!Cardinality(S) = Cardinality(S)
BY DEF Client!Cardinality, Cardinality

LEMMA MatchingFinite ==
  ASSUME NEW s
  PROVE  /\ Client!Matching(s) \subseteq Photos /\ Client!Matching(s) \subseteq Nat
         /\ IsFiniteSet(Client!Matching(s)) /\ Cardinality(Client!Matching(s)) \in Nat
<1>1. IsFiniteSet(Photos) /\ Photos \subseteq Nat
  BY ServiceAssumption DEF Client!ClientAssumption, Client!IsFiniteSet, IsFiniteSet
<1>2. Client!Matching(s) \subseteq Photos
  BY DEF Client!Matching
<1> QED BY <1>1, <1>2, FS_Subset, FS_CardinalityType

LEMMA PlaceType ==
  ASSUME NEW s, NEW p \in Client!Matching(s)
  PROVE  Client!Place(p, s) \in 1..Cardinality(Client!Matching(s))
<1> DEFINE upto == {o \in Client!Matching(s) : o <= p}
<1>1. p \in upto /\ upto \subseteq Client!Matching(s)
  BY MatchingFinite
<1>2. IsFiniteSet(upto) /\ Cardinality(upto) \in Nat /\ Cardinality(upto) <= Cardinality(Client!Matching(s))
  BY <1>1, MatchingFinite, FS_Subset, FS_CardinalityType
<1>3. Cardinality(upto) # 0
  BY <1>1, <1>2, FS_EmptySet
<1>4. Client!Place(p, s) = Cardinality(upto)
  BY ClientCardinality DEF Client!Place
<1> QED BY <1>2, <1>3, <1>4, MatchingFinite

LEMMA PlacesDiffer ==
  ASSUME NEW s, NEW p \in Client!Matching(s), NEW q \in Client!Matching(s), p # q
  PROVE  Client!Place(p, s) # Client!Place(q, s)
<1>1. ASSUME NEW x \in Client!Matching(s), NEW y \in Client!Matching(s), x < y
      PROVE  Client!Place(x, s) # Client!Place(y, s)
  <2> DEFINE X == {o \in Client!Matching(s) : o <= x}
             Y == {o \in Client!Matching(s) : o <= y}
  <2>1. X \subseteq Y /\ y \in Y /\ y \notin X
    BY <1>1, MatchingFinite
  <2>2. IsFiniteSet(Y)
    BY MatchingFinite, FS_Subset
  <2>3. Client!Place(x, s) = Cardinality(X) /\ Client!Place(y, s) = Cardinality(Y)
    BY ClientCardinality DEF Client!Place
  <2> HIDE DEF X, Y
  <2> QED BY <2>1, <2>2, <2>3, FS_Subset
<1>2. p \in Nat /\ q \in Nat
  BY MatchingFinite
<1> QED BY <1>1, <1>2

LEMMA EveryPlace ==
  ASSUME NEW s, NEW k \in 1..Cardinality(Client!Matching(s))
  PROVE  \E p \in Client!Matching(s) : Client!Place(p, s) = k
<1> DEFINE M == Client!Matching(s)
           n == Cardinality(M)
           f == [p \in M |-> Client!Place(p, s)]
<1>1. n \in Nat /\ IsFiniteSet(1..n) /\ Cardinality(1..n) = n
  <2>1. n \in Nat
    BY MatchingFinite
  <2> HIDE DEF n
  <2> QED BY <2>1, FS_Interval
<1>2. f \in [M -> 1..n]
  BY PlaceType
<1>3. \A p, q \in M : f[p] = f[q] => p = q
  BY PlacesDiffer
<1> HIDE DEF f
<1>4. f \in Injection(M, 1..n)
  BY <1>2, <1>3 DEF Injection, IsInjective
<1>5. f \in Surjection(M, 1..n)
  BY <1>1, <1>4, FS_Injection
<1> QED BY <1>5 DEF Surjection, f

\* A photo after the page: the page is full.
LEMMA PageFull ==
  ASSUME NEW s, NEW k \in Nat, k >= 1, NEW p \in Client!Matching(s), Client!Place(p, s) > k * Size
  PROVE  Cardinality(Client!Page(s, k)) >= Size /\ Client!Page(s, k) # {}
<1> DEFINE from == (k - 1) * Size  to == k * Size
           n == Cardinality(Client!Matching(s))
           g == [i \in (from + 1)..to |-> CHOOSE q \in Client!Matching(s) : Client!Place(q, s) = i]
<1>1. Size \in Nat /\ Size >= 1
  BY ServiceAssumption DEF Client!ClientAssumption
<1>2. from \in Nat /\ to \in Nat /\ to = from + Size /\ Client!Place(p, s) > to
  BY <1>1
<1>3. n \in Nat /\ to <= n
  <2>1. Client!Place(p, s) \in 1..n /\ n \in Nat
    BY PlaceType, MatchingFinite
  <2> HIDE DEF n, to, from
  <2> QED BY <1>2, <2>1
<1>4. ASSUME NEW i \in (from + 1)..to
      PROVE  g[i] \in Client!Matching(s) /\ Client!Place(g[i], s) = i
  <2>1. i \in 1..n
    <3> HIDE DEF n, to, from
    <3> QED BY <1>2, <1>3, <1>4
  <2> QED BY <2>1, EveryPlace
<1>5. \A i \in (from + 1)..to : g[i] \in Client!Page(s, k)
  BY <1>2, <1>4 DEF Client!Page
<1>6. g \in Injection((from + 1)..to, Client!Page(s, k))
  <2>1. g \in [(from + 1)..to -> Client!Page(s, k)]
    BY <1>5
  <2>2. \A i, j \in (from + 1)..to : g[i] = g[j] => i = j
    BY <1>4
  <2> HIDE DEF g, from, to
  <2> QED BY <2>1, <2>2 DEF Injection, IsInjective
<1>7. IsFiniteSet(Client!Page(s, k))
  BY MatchingFinite, FS_Subset DEF Client!Page
<1>8. Cardinality((from + 1)..to) = Size
  <2> HIDE DEF from, to
  <2> QED BY <1>1, <1>2, FS_Interval
<1>9. from + 1 \in (from + 1)..to
  BY <1>1, <1>2
<1>10. Cardinality((from + 1)..to) <= Cardinality(Client!Page(s, k))
  BY <1>6, <1>7, FS_Injection
<1> QED BY <1>1, <1>5, <1>7, <1>8, <1>9, <1>10, FS_CardinalityType

-----------------------------------------------------------------------------
(* The calls of the client, while they are made.                            *)

DownloadCalls == [op : {"download", "thumbnail"}, at : {"preview", "original", "last resort"},
                  endpoint : 1..4, tries : 1..Tries, refused : BOOLEAN]
WayOps == Client!Writing \cup {"probe", "version", "exif"}
WayCalls == [op : WayOps, at : {"ways"}, way : Nat]
SearchCalls == [op : {"search"}, at : {"metadata", "random", "fallback"}, query : Queries,
                set : SUBSET Client!People, left : SUBSET SUBSET Client!People,
                from : 1..2, page : Nat, tries : Nat]
PeopleCalls == [op : {"people"}, at : {"pages", "statistics"}, missing : SUBSET Client!People,
                stats : SUBSET Client!People]
Calls == DownloadCalls \cup WayCalls \cup SearchCalls \cup PeopleCalls

CallTyped ==
  /\ call = Client!NoCall \/ Client!Ended \/ call \in Calls
  /\ faults \in Nat /\ written \in Nat

Returns == \E value : Client!Return(value)

\* What a call is while it is made, by its kind.
LEMMA CallKinds ==
  ASSUME CallTyped
  PROVE  /\ call.op = "search" /\ ~Client!Ended => call \in SearchCalls
         /\ call.op \in {"download", "thumbnail"} /\ ~Client!Ended => call \in DownloadCalls
         /\ call.op \in WayOps /\ ~Client!Ended => call \in WayCalls
         /\ call.op = "people" /\ ~Client!Ended => call \in PeopleCalls
         /\ call \in Calls => ~Client!Ended /\ call # Client!NoCall
<1> USE DEF Calls, DownloadCalls, WayCalls, SearchCalls, PeopleCalls, WayOps, Client!Writing
<1>1. call = Client!NoCall => call.op = "none"
  BY DEF Client!NoCall
<1>2. call \in Calls => ~Client!Ended /\ call.op # "none"
  BY DEF Client!Ended
<1>3. call.op # "none" /\ ~Client!Ended => call \in Calls
  BY <1>1 DEF CallTyped
<1> QED BY <1>1, <1>2, <1>3

LEMMA ReturnEnds ==
  ASSUME CallTyped, call \in Calls, Returns
  PROVE  /\ Client!Ended' /\ call'.op = call.op /\ call'.made = call
         /\ call' \notin Calls' /\ call' # Client!NoCall
<1> PICK value : call' = [op |-> call.op, at |-> "ended", value |-> value, made |-> call]
  BY DEF Returns, Client!Return
<1>1. call'.op = call.op /\ call'.at = "ended" /\ call'.made = call
  OBVIOUS
<1>2. call.op # "none"
  BY DEF Calls, DownloadCalls, WayCalls, SearchCalls, PeopleCalls, WayOps, Client!Writing
<1>3. call' \notin Calls'
  BY <1>1 DEF Calls, DownloadCalls, WayCalls, SearchCalls, PeopleCalls
<1> QED BY <1>1, <1>2, <1>3 DEF Client!Ended, Client!NoCall

LEMMA AnswerCounts ==
  ASSUME CallTyped, NEW answer, Client!Reads(answer)
  PROVE  faults' \in Nat /\ UNCHANGED <<library, offered, totals, written>>
BY DEF CallTyped, Client!Reads, Client!Count, Client!server

LEMMA RequestSetsType ==
  ASSUME NEW q \in Queries
  PROVE  Client!RequestSets(q) \subseteq SUBSET Client!People
BY ServiceAssumption DEF Client!ClientAssumption, Client!QuerySet, Client!RequestSets

\* A search goes on, or returns.
SearchGoesOn ==
  \/ Client!NextSet
  \/ call' = [call EXCEPT !.page = @ + 1, !.tries = @ + 1]
  \/ call' = [call EXCEPT !.at = "fallback"]
  \/ call' = [call EXCEPT !.tries = @ + 1]
LEMMA SearchGoes ==
  ASSUME call \in SearchCalls, SearchGoesOn
  PROVE  call' \in SearchCalls \/ Returns
<1> USE DEF SearchCalls
<1>0. call = [op |-> "search", at |-> call.at, query |-> call.query, set |-> call.set, left |-> call.left,
              from |-> call.from, page |-> call.page, tries |-> call.tries]
  OBVIOUS
<1>1. CASE Client!NextSet
  <2>1. CASE call.left = {}
    BY <1>1, <2>1 DEF Client!NextSet, Returns
  <2>2. CASE call.left # {}
    <3>1. PICK s \in call.left :
            call' = [call EXCEPT !.set = s, !.left = @ \ {s}, !.page = call.from, !.tries = 1,
                                 !.at = IF @ = "fallback" THEN "metadata" ELSE @]
      BY <1>1, <2>2 DEF Client!NextSet, Client!Nexts
    <3>2. PICK at2 : at2 = IF call.at = "fallback" THEN "metadata" ELSE call.at
      OBVIOUS
    <3>3. call' = [op |-> "search", at |-> at2, query |-> call.query, set |-> s, left |-> call.left \ {s},
                   from |-> call.from, page |-> call.from, tries |-> 1]
      BY <1>0, <3>1, <3>2
    <3>4. at2 \in {"metadata", "random", "fallback"} /\ s \in SUBSET Client!People
          /\ call.left \ {s} \in SUBSET SUBSET Client!People
      BY <3>1, <3>2
    <3> QED BY <3>3, <3>4
  <2> QED BY <2>1, <2>2
<1>2. call.page + 1 \in Nat /\ call.tries + 1 \in Nat
  OBVIOUS
<1>3. CASE call' = [call EXCEPT !.page = @ + 1, !.tries = @ + 1]
  BY <1>2, <1>3
<1>4. CASE call' = [call EXCEPT !.at = "fallback"] \/ call' = [call EXCEPT !.tries = @ + 1]
  BY <1>2, <1>4
<1> QED BY <1>1, <1>3, <1>4 DEF SearchGoesOn

Searches ==
  Client!SearchPage \/ Client!SearchFallback \/ Client!SearchSample \/ Client!SearchTimesOut
LEMMA SearchCallSteps ==
  ASSUME CallTyped, Searches
  PROVE  /\ call \in SearchCalls /\ (call' \in SearchCalls \/ Returns)
         /\ faults' \in Nat /\ UNCHANGED <<library, offered, totals, written>>
<1>1. call \in SearchCalls
  <2>1. call.op = "search" /\ ~Client!Ended
    BY DEF Searches, Client!SearchPage, Client!SearchFallback, Client!SearchSample, Client!SearchTimesOut,
           Client!Ended
  <2> QED BY <2>1, CallKinds
<1>2. faults' \in Nat /\ UNCHANGED <<library, offered, totals, written>>
  <2>1. \E answer : Client!Reads(answer)
    BY DEF Searches, Client!SearchPage, Client!SearchFallback, Client!SearchSample, Client!SearchTimesOut
  <2> QED BY <2>1, AnswerCounts
<1>3. ASSUME Searches PROVE SearchGoesOn \/ Returns
  <2>1. CASE Client!SearchPage
    BY <2>1 DEF Client!SearchPage, Client!SearchGets, Client!Raise, SearchGoesOn, Returns
  <2>2. CASE Client!SearchFallback
    BY <2>2 DEF Client!SearchFallback, Client!SearchGets, Client!Raise, SearchGoesOn, Returns
  <2>3. CASE Client!SearchSample
    BY <2>3 DEF Client!SearchSample, Client!Raise, SearchGoesOn, Returns
  <2>4. CASE Client!SearchTimesOut
    BY <2>4 DEF Client!SearchTimesOut, Client!Raise, Returns
  <2> QED BY <1>3, <2>1, <2>2, <2>3, <2>4 DEF Searches
<1> QED BY <1>1, <1>2, <1>3, SearchGoes

\* A download tries once more, or goes on.
LEMMA TryAgain ==
  ASSUME call \in DownloadCalls, call.tries < Tries, call' = [call EXCEPT !.tries = @ + 1]
  PROVE  /\ call' \in DownloadCalls /\ call'.tries = call.tries + 1
         /\ call'.at = call.at /\ call'.endpoint = call.endpoint /\ (call'.refused <=> call.refused)
<1>1. call.tries + 1 \in 1..Tries
  <2>1. Tries \in Nat /\ Tries >= 1
    BY ServiceAssumption DEF Client!ClientAssumption
  <2>2. call.tries \in 1..Tries
    BY DEF DownloadCalls
  <2> QED BY <2>1, <2>2
<1> QED BY <1>1 DEF DownloadCalls

LEMMA GoOn ==
  ASSUME call \in DownloadCalls, NEW refused \in BOOLEAN, Client!NextOriginal(refused)
  PROVE  /\ call' \in DownloadCalls /\ (call'.refused <=> (call.refused \/ refused))
         /\ \/ call.endpoint < 4 /\ call'.at = call.at /\ call'.endpoint = call.endpoint + 1 /\ call'.tries = 1
            \/ call.endpoint = 4 /\ call'.at = "last resort"
<1>1. 1 \in 1..Tries /\ call.endpoint \in 1..4 /\ (call.refused \/ refused) \in BOOLEAN
  <2>1. 1 \in 1..Tries
    <3>1. Tries \in Nat /\ Tries >= 1
      BY ServiceAssumption DEF Client!ClientAssumption
    <3> QED BY <3>1
  <2> QED BY <2>1 DEF DownloadCalls
<1>2. PICK any \in BOOLEAN : any = (call.refused \/ refused)
  BY <1>1
<1>3. CASE call.endpoint < 4
  <2>1. call' = [call EXCEPT !.endpoint = @ + 1, !.tries = 1, !.refused = any]
    BY <1>2, <1>3 DEF Client!NextOriginal
  <2>2. call.endpoint + 1 \in 1..4
    BY <1>1, <1>3
  <2> QED BY <1>1, <1>2, <1>3, <2>1, <2>2 DEF DownloadCalls
<1>4. CASE ~(call.endpoint < 4)
  <2>1. call' = [call EXCEPT !.at = "last resort", !.refused = any]
    BY <1>2, <1>4 DEF Client!NextOriginal
  <2>2. call.endpoint = 4
    BY <1>1, <1>4
  <2> QED BY <1>2, <2>1, <2>2 DEF DownloadCalls
<1> QED BY <1>3, <1>4

Downloads == Client!Download \/ Client!Preview \/ Client!LastResort
LEMMA DownloadCallSteps ==
  ASSUME CallTyped, Downloads
  PROVE  /\ call \in DownloadCalls /\ (call' \in DownloadCalls \/ Returns)
         /\ faults' \in Nat /\ UNCHANGED <<library, offered, totals, written>>
<1>1. call \in DownloadCalls
  <2>1. call.op \in {"download", "thumbnail"} /\ ~Client!Ended
    BY DEF Downloads, Client!Download, Client!Preview, Client!LastResort, Client!Ended
  <2> QED BY <2>1, CallKinds
<1>2. faults' \in Nat /\ UNCHANGED <<library, offered, totals, written>>
  <2>1. \E answer : Client!Reads(answer)
    BY DEF Downloads, Client!Download, Client!Preview, Client!LastResort
  <2> QED BY <2>1, AnswerCounts
<1>4. CASE Client!Download
  <2>1. \/ Returns
        \/ call.tries < Tries /\ call' = [call EXCEPT !.tries = @ + 1]
        \/ \E refused \in BOOLEAN : Client!NextOriginal(refused)
    BY <1>4 DEF Client!Download, Client!TriesLeft, Client!Raise, Returns
  <2> QED BY <1>1, <1>2, <2>1, TryAgain, GoOn
<1>5. CASE Client!Preview
  BY <1>1, <1>2, <1>5 DEF Client!Preview, DownloadCalls, Returns
<1>6. CASE Client!LastResort
  BY <1>1, <1>2, <1>6 DEF Client!LastResort, Client!NoPreview, Client!Raise, Returns
<1> QED BY <1>4, <1>5, <1>6 DEF Downloads

LEMMA WayCallSteps ==
  ASSUME CallTyped, Client!Way
  PROVE  /\ call \in WayCalls /\ (call' \in WayCalls \/ Returns)
         /\ faults' \in Nat /\ written' \in Nat /\ UNCHANGED <<library, offered, totals>>
<1>1. call \in WayCalls
  BY CallKinds DEF Client!Way, Client!Trying, WayOps
<1>2. faults' \in Nat /\ UNCHANGED <<library, offered, totals>>
  BY DEF Client!Way, Client!Count, Client!server, CallTyped
<1>3. written' \in Nat
  <2>1. \E does \in {0, 1} : written' = written + does
    BY DEF Client!Way
  <2> QED BY <2>1 DEF CallTyped
<1>4. Returns \/ call' = [call EXCEPT !.way = @ + 1]
  BY DEF Client!Way, Client!Exhausted, Client!Raise, Returns
<1> QED BY <1>1, <1>2, <1>3, <1>4 DEF WayCalls

PeopleSteps == Client!PeoplePage \/ Client!Statistics
LEMMA PeopleCallSteps ==
  ASSUME CallTyped, PeopleSteps
  PROVE  /\ call \in PeopleCalls /\ (call' \in PeopleCalls \/ Returns)
         /\ faults' \in Nat /\ UNCHANGED <<library, offered, totals, written>>
<1>1. call \in PeopleCalls
  <2>1. call.op = "people" /\ ~Client!Ended
    BY DEF PeopleSteps, Client!PeoplePage, Client!Statistics, Client!Ended
  <2> QED BY <2>1, CallKinds
<1>2. faults' \in Nat /\ UNCHANGED <<library, offered, totals, written>>
  <2>1. \E answer : Client!Reads(answer)
    BY DEF PeopleSteps, Client!PeoplePage, Client!Statistics
  <2> QED BY <2>1, AnswerCounts
<1>3. CASE Client!PeoplePage
  BY <1>1, <1>2, <1>3 DEF Client!PeoplePage, Client!Raise, Returns, PeopleCalls
<1>4. CASE Client!Statistics
  BY <1>1, <1>2, <1>4 DEF Client!Statistics, Client!Raise, Returns, PeopleCalls
<1> QED BY <1>3, <1>4 DEF PeopleSteps

\* A call begins, or the caller has its answer.
Starts ==
  /\ call = Client!NoCall /\ call' \in Calls
  /\ faults' = 0 /\ written' = 0 /\ UNCHANGED <<library, offered, totals>>

LEMMA ClientKinds ==
  ASSUME Client!Next
  PROVE  \/ Client!SearchBegins \/ Client!DownloadBegins
         \/ Starts /\ call' \in WayCalls \cup PeopleCalls
         \/ Client!Finish \/ Searches \/ Downloads \/ Client!Way \/ PeopleSteps
<1>1. CASE Client!WaysBegin
  <2>1. PICK op \in WayOps : Client!Begin([op |-> op, at |-> "ways", way |-> 1])
    BY <1>1 DEF Client!WaysBegin, WayOps
  <2>2. call' \in WayCalls
    BY <2>1 DEF Client!Begin, WayCalls
  <2> QED BY <2>1, <2>2 DEF Client!Begin, Client!server, Starts, Calls
<1>2. CASE Client!PeopleBegins
  BY <1>2 DEF Client!PeopleBegins, Client!Begin, Client!server, Starts, Calls, PeopleCalls
<1> QED BY <1>1, <1>2 DEF Client!Next, Client!Step, Searches, Downloads, PeopleSteps

\* What a search begins with.
LEMMA SearchStarts ==
  ASSUME Client!SearchBegins
  PROVE  /\ Starts /\ call' \in SearchCalls /\ call'.at \in {"metadata", "random"}
         /\ call'.set \in Client!RequestSets(call'.query)
         /\ call'.left = Client!RequestSets(call'.query) \ {call'.set}
         /\ call'.page = call'.from /\ call'.tries = 1
<1>0. PICK q \in Queries, from \in 1..2, begin \in {"metadata", "random"} :
        \E s \in Client!RequestSets(q) :
          Client!Begin([op |-> "search", at |-> begin, query |-> q, set |-> s,
                        left |-> Client!RequestSets(q) \ {s}, from |-> from, page |-> from, tries |-> 1])
  BY DEF Client!SearchBegins, Client!Nexts
<1>1. PICK s \in Client!RequestSets(q) :
        Client!Begin([op |-> "search", at |-> begin, query |-> q, set |-> s,
                      left |-> Client!RequestSets(q) \ {s}, from |-> from, page |-> from, tries |-> 1])
  BY <1>0
<1>2. call' = [op |-> "search", at |-> begin, query |-> q, set |-> s,
               left |-> Client!RequestSets(q) \ {s}, from |-> from, page |-> from, tries |-> 1]
  BY <1>1 DEF Client!Begin
<1>3. s \in SUBSET Client!People /\ Client!RequestSets(q) \ {s} \in SUBSET SUBSET Client!People
  BY RequestSetsType
<1>4. call' \in SearchCalls
  BY <1>2, <1>3 DEF SearchCalls
<1>5. Starts
  BY <1>1, <1>4 DEF Client!Begin, Client!server, Starts, Calls
<1> QED BY <1>2, <1>4, <1>5

LEMMA DownloadStarts ==
  ASSUME Client!DownloadBegins
  PROVE  /\ Starts /\ call' \in DownloadCalls /\ call'.at \in {"preview", "original"}
         /\ call'.endpoint = 1 /\ call'.tries = 1
<1>1. PICK op \in {"download", "thumbnail"} :
        Client!Begin([op |-> op, at |-> IF op = "download" THEN "original" ELSE "preview",
                      endpoint |-> 1, tries |-> 1, refused |-> FALSE])
  BY DEF Client!DownloadBegins
<1>2. call' = [op |-> op, at |-> IF op = "download" THEN "original" ELSE "preview",
               endpoint |-> 1, tries |-> 1, refused |-> FALSE]
  BY <1>1 DEF Client!Begin
<1>3. 1 \in 1..Tries
  <2>1. Tries \in Nat /\ Tries >= 1
    BY ServiceAssumption DEF Client!ClientAssumption
  <2> QED BY <2>1
<1>4. call' \in DownloadCalls
  BY <1>2, <1>3 DEF DownloadCalls
<1> QED BY <1>1, <1>2, <1>4 DEF Client!Begin, Client!server, Starts, Calls

LEMMA CallTypes == CallTyped /\ Client!Next => CallTyped'
<1> SUFFICES ASSUME CallTyped, Client!Next PROVE CallTyped'
  OBVIOUS
<1>1. CASE Starts
  BY <1>1 DEF Starts, CallTyped, Calls, DownloadCalls, WayCalls, SearchCalls, PeopleCalls
<1>2. CASE Client!Finish
  BY <1>2 DEF Client!Finish, CallTyped
<1>3. ASSUME call \in Calls, call' \in Calls' \/ Returns, faults' \in Nat, written' \in Nat
      PROVE  CallTyped'
  BY <1>3, ReturnEnds DEF CallTyped
<1>4. CASE Searches \/ Downloads \/ Client!Way \/ PeopleSteps
  <2>1. /\ call \in Calls /\ (call' \in Calls' \/ Returns)
        /\ faults' \in Nat /\ written' \in Nat
    BY <1>4, SearchCallSteps, DownloadCallSteps, WayCallSteps, PeopleCallSteps
    DEF CallTyped, Calls, DownloadCalls, WayCalls, SearchCalls, PeopleCalls
  <2> QED BY <1>3, <2>1
<1> QED BY <1>1, <1>2, <1>4, ClientKinds, SearchStarts, DownloadStarts

-----------------------------------------------------------------------------
(* Faults. A download leaves an endpoint that the server has only when the tries  *)
(* are used up, or when it is refused. A call that writes goes on while nothing is *)
(* written: only after the answer that the server does not know the way.        *)

Lists(n, ways) == \E i \in 1..n : Client!Originals[i] \in ways
DownloadFaults ==
  call \in DownloadCalls =>
    /\ call.at = "preview" => call.endpoint = 1 /\ call.tries = 1
    /\ call.at = "original" =>
         faults >= call.tries - 1 /\ (Lists(call.endpoint - 1, offered) /\ ~call.refused => faults >= Tries)
    /\ call.at = "last resort" /\ Lists(4, offered) /\ ~call.refused => faults >= Tries
WroteOnce == written <= 1 /\ (call \in Calls => written = 0)

FaultInv == CallTyped /\ DownloadFaults /\ WroteOnce /\ Client!FaultsHarmless

LEMMA DownloadKeepsCount ==
  ASSUME FaultInv, Downloads
  PROVE  DownloadFaults' /\ (call' \notin DownloadCalls /\ call.op = "download" /\ call'.value # "original"
                               /\ ~call.refused /\ Lists(4, offered) => faults' >= Tries)
<1>1. call \in DownloadCalls /\ (call' \in DownloadCalls \/ Returns) /\ UNCHANGED offered
  BY DownloadCallSteps DEF FaultInv
<1>2. /\ Tries \in Nat /\ Tries >= 1 /\ faults \in Nat
      /\ call.endpoint \in 1..4 /\ call.tries \in 1..Tries
      /\ call.at \in {"preview", "original", "last resort"} /\ call.refused \in BOOLEAN
  <2>1. Tries \in Nat /\ Tries >= 1
    BY ServiceAssumption DEF Client!ClientAssumption
  <2>2. faults \in Nat
    BY DEF FaultInv, CallTyped
  <2> QED BY <1>1, <2>1, <2>2 DEF DownloadCalls
<1>3. ASSUME NEW e, NEW answer \in Client!Answers(e), Client!Reads(answer)
      PROVE  /\ faults' = IF answer \in Client!Faults THEN faults + 1 ELSE faults
             /\ answer \in Client!Faults \cup {"ok", "missing"}
             /\ answer = "missing" => e \notin offered
  BY <1>3 DEF Client!Answers, Client!Reads, Client!Count, Client!Faults
<1>4. Returns => call' \notin DownloadCalls
  BY <1>1, ReturnEnds DEF FaultInv, Calls
<1>5. CASE Client!Download
  <2> DEFINE k == call.endpoint
  <2>1. PICK answer \in Client!Answers(Client!Originals[k]) :
          /\ Client!Reads(answer)
          /\ \/ answer \in {"ok", "odd"} /\ (Client!Return("original") \/ (call.op = "thumbnail" /\ Client!Raise))
             \/ answer \in {"connection", "empty"} /\ call.tries < Tries /\ call' = [call EXCEPT !.tries = @ + 1]
             \/ answer \in {"connection", "empty"} /\ ~(call.tries < Tries) /\ Client!NextOriginal(FALSE)
             \/ answer \notin {"ok", "odd", "connection", "empty"} /\ Client!NextOriginal(answer # "missing")
    BY <1>5 DEF Client!Download, Client!TriesLeft
  <2>2. /\ faults' = IF answer \in Client!Faults THEN faults + 1 ELSE faults
        /\ answer \in Client!Faults \cup {"ok", "missing"}
        /\ answer = "missing" => Client!Originals[k] \notin offered
    BY <1>3, <2>1
  <2>3. call.at = "original" /\ faults >= call.tries - 1 /\ (Lists(k - 1, offered) /\ ~call.refused => faults >= Tries)
    BY <1>1, <1>5 DEF FaultInv, DownloadFaults, Client!Download
  <2> DEFINE Goal == /\ DownloadFaults'
                     /\ call' \notin DownloadCalls /\ call.op = "download" /\ call'.value # "original"
                          /\ ~call.refused /\ Lists(4, offered) => faults' >= Tries
  <2> HIDE DEF k
  <2>4. CASE Client!Return("original") \/ (call.op = "thumbnail" /\ Client!Raise)
    <3>1. call'.value = "original" \/ call.op = "thumbnail"
      BY <2>4 DEF Client!Return
    <3>2. call' \notin DownloadCalls
      BY <1>4, <2>4 DEF Client!Raise, Returns
    <3> QED BY <3>1, <3>2 DEF DownloadFaults
  <2>5. CASE answer \in {"connection", "empty"} /\ call.tries < Tries /\ call' = [call EXCEPT !.tries = @ + 1]
    <3>1. /\ call' \in DownloadCalls /\ call'.tries = call.tries + 1
          /\ call'.at = call.at /\ call'.endpoint = call.endpoint /\ (call'.refused <=> call.refused)
      BY <1>1, <2>5, TryAgain
    <3>2. faults' = faults + 1
      BY <2>2, <2>5 DEF Client!Faults
    <3>3. Lists(call'.endpoint - 1, offered') <=> Lists(k - 1, offered)
      BY <1>1, <3>1 DEF k
    <3>4. faults' >= call'.tries - 1 /\ (faults >= Tries => faults' >= Tries)
      BY <1>2, <2>3, <3>1, <3>2
    <3>5. call'.at = "original"
      BY <2>3, <3>1
    <3> QED BY <2>3, <3>1, <3>3, <3>4, <3>5 DEF DownloadFaults
  <2>6. ASSUME NEW refused \in BOOLEAN, Client!NextOriginal(refused),
               \/ answer \in {"connection", "empty"} /\ ~(call.tries < Tries)
               \/ ~refused => answer = "missing"
        PROVE  Goal
    <3>1. /\ call' \in DownloadCalls /\ (call'.refused <=> (call.refused \/ refused))
          /\ \/ k < 4 /\ call'.at = call.at /\ call'.endpoint = k + 1 /\ call'.tries = 1
             \/ k = 4 /\ call'.at = "last resort"
      BY <1>1, <2>6, GoOn DEF k
    <3>2. faults' >= faults /\ faults' \in Nat
      <4>1. faults \in Nat
        BY <1>2
      <4> QED BY <2>2, <4>1
    <3>3. Lists(k, offered) /\ ~(call.refused \/ refused) => faults' >= Tries
      <4>1. CASE answer \in {"connection", "empty"} /\ ~(call.tries < Tries)
        <5>1. faults' = faults + 1
          BY <2>2, <4>1 DEF Client!Faults
        <5> QED BY <1>2, <2>3, <4>1, <5>1
      <4>2. CASE ~refused => answer = "missing"
        <5>1. ~refused /\ Lists(k, offered) => Lists(k - 1, offered)
          <6>1. k \in 1..4
            BY <1>2 DEF k
          <6>2. ASSUME NEW i \in 1..k, i # k PROVE i \in 1..(k - 1)
            BY <6>1, <6>2
          <6> QED BY <2>2, <4>2, <6>2 DEF Lists
        <5> QED BY <1>2, <2>3, <3>2, <5>1
      <4> QED BY <2>6, <4>1, <4>2
    <3>4. CASE call'.at = call.at /\ call'.endpoint = k + 1 /\ call'.tries = 1
      <4>1. Lists(call'.endpoint - 1, offered') <=> Lists(k, offered)
        <5>1. k \in 1..4
          BY <1>2 DEF k
        <5>2. call'.endpoint - 1 = k
          BY <3>4, <5>1
        <5> QED BY <1>1, <5>2
      <4>2. faults' >= call'.tries - 1
        BY <3>2, <3>4
      <4>3. call'.at = "original"
        BY <2>3, <3>4
      <4> QED BY <3>1, <3>3, <4>1, <4>2, <4>3 DEF DownloadFaults
    <3>5. CASE k = 4 /\ call'.at = "last resort"
      <4>1. Lists(4, offered') <=> Lists(k, offered)
        BY <1>1, <3>5 DEF Lists
      <4> QED BY <3>1, <3>3, <3>5, <4>1 DEF DownloadFaults
    <3> QED BY <3>1, <3>4, <3>5
  <2>7. CASE \E refused \in BOOLEAN :
               /\ Client!NextOriginal(refused)
               /\ \/ answer \in {"connection", "empty"} /\ ~(call.tries < Tries)
                  \/ ~refused => answer = "missing"
    BY <2>6, <2>7
  <2> QED BY <2>1, <2>4, <2>5, <2>7
<1>6. CASE Client!Preview
  <2>1. call.op = "thumbnail"
    BY <1>6 DEF Client!Preview
  <2>2. CASE call' = [call EXCEPT !.at = "original"]
    <3>1. call'.at = "original" /\ call'.endpoint = 1 /\ call'.tries = 1
      BY <1>1, <1>6, <2>2 DEF FaultInv, DownloadFaults, Client!Preview, DownloadCalls
    <3>2. ~Lists(call'.endpoint - 1, offered')
      <4>1. 1..(call'.endpoint - 1) = {}
        BY <3>1
      <4> QED BY <4>1 DEF Lists
    <3>3. faults' >= call'.tries - 1
      <4>1. faults' \in Nat
        BY DownloadCallSteps DEF FaultInv
      <4> QED BY <3>1, <4>1
    <3> QED BY <2>1, <3>1, <3>2, <3>3 DEF DownloadFaults
  <2>3. CASE Returns
    BY <1>4, <2>1, <2>3 DEF DownloadFaults
  <2> QED BY <1>6, <2>2, <2>3 DEF Client!Preview, Returns
<1>7. CASE Client!LastResort
  <2>1. Returns /\ faults' >= faults /\ faults' \in Nat /\ call.at = "last resort"
    <3>1. PICK answer \in Client!Answers(Client!Previews) : Client!Reads(answer)
      BY <1>7 DEF Client!LastResort
    <3>2. faults \in Nat /\ (faults' = faults + 1 \/ faults' = faults)
      BY <1>2, <1>3, <3>1
    <3>3. faults' >= faults /\ faults' \in Nat
      BY <3>2
    <3> QED BY <1>7, <3>3 DEF Client!LastResort, Client!NoPreview, Client!Raise, Returns
  <2>2. Lists(4, offered) /\ ~call.refused => faults >= Tries
    BY <1>1, <2>1 DEF FaultInv, DownloadFaults
  <2>3. faults >= Tries => faults' >= Tries
    <3>1. faults \in Nat /\ Tries \in Nat
      BY <1>2
    <3>2. faults' \in Nat /\ faults' >= faults
      BY <2>1
    <3> QED BY <3>1, <3>2
  <2> QED BY <1>4, <2>1, <2>2, <2>3 DEF DownloadFaults
<1> QED BY <1>5, <1>6, <1>7 DEF Downloads

LEMMA NoCallIsNone == Client!NoCall \notin Calls /\ Client!NoCall.op = "none"
<1>1. Client!NoCall.op = "none"
  BY DEF Client!NoCall
<1>2. \A c \in Calls : c.op # "none"
  BY DEF Calls, DownloadCalls, WayCalls, SearchCalls, PeopleCalls, WayOps, Client!Writing
<1> QED BY <1>1, <1>2

LEMMA FaultInit == Client!Init => FaultInv
<1> SUFFICES ASSUME Client!Init PROVE FaultInv
  OBVIOUS
<1>1. call = Client!NoCall /\ faults = 0 /\ written = 0
  BY DEF Client!Init
<1>2. call \notin Calls /\ ~Client!Ended
  BY <1>1, NoCallIsNone DEF Client!Ended
<1>3. call \notin DownloadCalls
  BY <1>2 DEF Calls
<1>4. faults \in Nat /\ written \in Nat /\ written <= 1
  BY <1>1
<1> QED BY <1>1, <1>2, <1>3, <1>4 DEF FaultInv, CallTyped, DownloadFaults, WroteOnce, Client!FaultsHarmless

LEMMA FaultStep == FaultInv /\ Client!Next => FaultInv'
<1> SUFFICES ASSUME FaultInv, Client!Next PROVE FaultInv'
  OBVIOUS
<1>0. CallTyped /\ CallTyped' /\ written <= 1
  BY CallTypes DEF FaultInv, WroteOnce
<1>1. ASSUME call \in Calls
      PROVE  written = 0 /\ call # Client!NoCall /\ ~Client!Ended
  BY <1>0, <1>1, CallKinds DEF FaultInv, WroteOnce
<1>2. ASSUME call' \in Calls, call' \notin DownloadCalls, written' = 0
      PROVE  FaultInv'
  <2>1. ~Client!Ended'
    BY <1>2 DEF Calls, DownloadCalls, WayCalls, SearchCalls, PeopleCalls, Client!Ended
  <2>2. written' <= 1
    BY <1>2
  <2> QED BY <1>0, <1>2, <2>1, <2>2 DEF FaultInv, DownloadFaults, WroteOnce, Client!FaultsHarmless
<1>3. ASSUME call \in Calls, Returns, call.op # "download", written' <= 1
      PROVE  FaultInv'
  <2>1. call' \notin Calls' /\ call'.op # "download"
    BY <1>0, <1>3, ReturnEnds
  <2> QED BY <1>0, <1>3, <2>1 DEF FaultInv, DownloadFaults, WroteOnce, Client!FaultsHarmless, Calls
<1>4. SearchCalls \cap DownloadCalls = {} /\ WayCalls \cap DownloadCalls = {}
      /\ PeopleCalls \cap DownloadCalls = {}
  BY DEF SearchCalls, DownloadCalls, WayCalls, PeopleCalls
<1>5. CASE Client!SearchBegins \/ (Starts /\ call' \in WayCalls \cup PeopleCalls)
  BY <1>2, <1>4, <1>5, SearchStarts DEF Starts, Calls
<1>6. CASE Client!DownloadBegins
  <2>1. /\ call' \in DownloadCalls /\ call'.at \in {"preview", "original"}
        /\ call'.endpoint = 1 /\ call'.tries = 1 /\ faults' = 0 /\ written' = 0
    BY <1>6, DownloadStarts DEF Starts
  <2>2. ~Lists(call'.endpoint - 1, offered')
    <3>1. 1..(call'.endpoint - 1) = {}
      BY <2>1
    <3> QED BY <3>1 DEF Lists
  <2>3. DownloadFaults'
    <3>1. faults' = 0 /\ call'.tries = 1
      BY <2>1
    <3>2. faults' >= call'.tries - 1
      BY <3>1
    <3>3. call'.at # "last resort"
      BY <2>1
    <3> QED BY <2>1, <2>2, <3>2, <3>3 DEF DownloadFaults
  <2>4. ~Client!Ended' /\ written' <= 1
    BY <2>1 DEF Client!Ended
  <2> QED BY <1>0, <2>1, <2>3, <2>4 DEF FaultInv, WroteOnce, Client!FaultsHarmless
<1>7. CASE Client!Finish
  <2>1. call' = Client!NoCall /\ written' = written
    BY <1>7 DEF Client!Finish
  <2>2. call' \notin Calls /\ ~Client!Ended'
    BY <2>1, NoCallIsNone DEF Client!Ended
  <2> QED BY <1>0, <2>1, <2>2 DEF FaultInv, DownloadFaults, WroteOnce, Client!FaultsHarmless, Calls
<1>8. CASE Searches
  <2>1. /\ call \in SearchCalls /\ (call' \in SearchCalls \/ Returns)
        /\ written' = written
    BY <1>0, <1>8, SearchCallSteps
  <2>2. call \in Calls /\ call.op # "download" /\ written' = 0 /\ written' <= 1
    BY <1>1, <2>1 DEF Calls, SearchCalls
  <2> QED BY <1>2, <1>3, <1>4, <2>1, <2>2 DEF Calls
<1>9. CASE PeopleSteps
  <2>1. /\ call \in PeopleCalls /\ (call' \in PeopleCalls \/ Returns)
        /\ written' = written
    BY <1>0, <1>9, PeopleCallSteps
  <2>2. call \in Calls /\ call.op # "download" /\ written' = 0 /\ written' <= 1
    BY <1>1, <2>1 DEF Calls, PeopleCalls
  <2> QED BY <1>2, <1>3, <1>4, <2>1, <2>2 DEF Calls
<1>10. CASE Downloads
  <2>1. /\ call \in DownloadCalls /\ (call' \in DownloadCalls \/ Returns)
        /\ written' = written
    BY <1>0, <1>10, DownloadCallSteps
  <2>2. call \in Calls /\ written' = 0 /\ written' <= 1
    BY <1>1, <2>1 DEF Calls
  <2>3. DownloadFaults'
    BY <1>10, DownloadKeepsCount
  <2>4. CASE call' \in DownloadCalls
    <3>1. ~Client!Ended'
      BY <2>4 DEF DownloadCalls, Client!Ended
    <3> QED BY <1>0, <2>2, <2>3, <3>1 DEF FaultInv, WroteOnce, Client!FaultsHarmless
  <2>5. CASE Returns
    <3>1. call'.op = call.op /\ call'.made = call /\ call' \notin DownloadCalls
      BY <1>0, <2>2, <2>5, ReturnEnds DEF Calls
    <3>2. UNCHANGED offered
      BY <1>0, <1>10, DownloadCallSteps
    <3>3. call.op = "download" /\ call'.value # "original" /\ ~call.refused /\ Lists(4, offered) => faults' >= Tries
      BY <1>10, <3>1, DownloadKeepsCount
    <3> QED BY <1>0, <2>2, <2>3, <3>1, <3>2, <3>3 DEF FaultInv, WroteOnce, Client!FaultsHarmless, Lists
  <2> QED BY <2>1, <2>4, <2>5
<1>11. CASE Client!Way
  <2>1. /\ call \in WayCalls /\ (call' \in WayCalls \/ Returns)
    BY <1>0, <1>11, WayCallSteps
  <2>2. call \in Calls /\ call.op # "download" /\ written = 0
    BY <1>1, <2>1 DEF Calls, WayCalls, WayOps, Client!Writing
  <2>3. PICK answer :
          /\ \E does \in IF call.op \notin Client!Writing THEN {0}
                         ELSE IF answer \in {"ok", "odd", "empty"} THEN {1}
                         ELSE IF answer = "connection" THEN {0, 1} ELSE {0} :
               written' = written + does
          /\ IF answer = "ok" \/ (answer \in {"odd", "empty"} /\ call.op \in Client!Writing \ {"upload"})
             THEN Client!Return({})
             ELSE IF Client!GoesOn(call.op, answer) /\ call.way < Client!Len(Client!Ways(call.op))
             THEN call' = [call EXCEPT !.way = @ + 1]
             ELSE Client!Exhausted(call.op, answer)
    BY <1>11 DEF Client!Way
  <2>6. PICK does \in {0, 1} :
          /\ written' = written + does
          /\ does = 1 => call.op \in Client!Writing /\ answer \in {"ok", "odd", "empty", "connection"}
    BY <2>3
  <2>4. CASE Returns
    <3>1. written' <= 1
      BY <2>2, <2>6
    <3> QED BY <1>3, <2>2, <2>4, <3>1
  <2>5. CASE ~Returns
    <3>1. Client!GoesOn(call.op, answer)
      BY <2>3, <2>5 DEF Client!Exhausted, Client!Raise, Returns
    <3>2. answer \in {"ok", "odd", "empty", "connection"} /\ call.op \in Client!Writing => FALSE
      BY <2>3, <2>5, <3>1 DEF Client!GoesOn, Client!Writing, Returns
    <3>3. written' = 0
      BY <2>2, <2>6, <3>2
    <3> QED BY <1>2, <1>4, <2>1, <2>5, <3>3 DEF Calls
  <2> QED BY <2>4, <2>5
<1> QED BY <1>5, <1>6, <1>7, <1>8, <1>9, <1>10, <1>11, ClientKinds

LEMMA FaultRests == FaultInv /\ UNCHANGED clientVars => FaultInv'
BY DEF clientVars, FaultInv, CallTyped, DownloadFaults, WroteOnce, Client!FaultsHarmless, Client!Ended

(* A download returns the original while the server fails less often than an endpoint *)
(* is tried; and what a call asks for is done once.                               *)
THEOREM FaultsCostNothing == Spec => []FaultsHarmless
<1>1. Init => FaultInv
  BY FaultInit DEF Init
<1>2. FaultInv /\ [Next]_vars => FaultInv'
  BY StepOfEach, FaultStep, FaultRests
<1>3. FaultInv => FaultsHarmless
  BY DEF FaultInv, FaultsHarmless
<1> QED BY <1>1, <1>2, <1>3, PTL DEF Spec

-----------------------------------------------------------------------------
(* Searches. A set of persons that a search has turned its back on has no photo    *)
(* that may be used on the pages it may look at, and the set it is at has none on  *)
(* the pages before the next one: so when no set is left, there is none at all.    *)

Listed(l, s) == {p \in Photos : s \subseteq l[p]}
PlaceIn(l, p, s) == Cardinality({o \in Listed(l, s) : o <= p})
\* No photo on the pages up to the last one may be used.
Over(l, s, q, from, last) == \A p \in Listed(l, s) :
  l[p] \cap q.exclude = {} => PlaceIn(l, p, s) <= (from - 1) * Size \/ PlaceIn(l, p, s) > last * Size

SearchSeen == call \in SearchCalls =>
  /\ call.set \in Client!RequestSets(call.query)
  /\ call.left \subseteq Client!RequestSets(call.query)
  /\ call.at = "fallback" => "metadata" \notin offered
  /\ call.at = "metadata" /\ "metadata" \in offered =>
       /\ call.tries \in 1..MaxPages /\ call.page = call.from + call.tries - 1
       /\ Over(library, call.set, call.query, call.from, call.page - 1)
       /\ \A s \in Client!RequestSets(call.query) \ (call.left \cup {call.set}) :
            Over(library, s, call.query, call.from, call.from - 1 + MaxPages)
NothingSeen ==
  Client!Ended /\ call.op = "search" /\ call.value = {} /\ call.made.at = "metadata" =>
    \A s \in Client!RequestSets(call.made.query) :
      Over(library, s, call.made.query, call.made.from, call.made.from - 1 + MaxPages)

SearchInv == CallTyped /\ SearchSeen /\ NothingSeen

LEMMA ListedMatch ==
  ASSUME NEW s
  PROVE  /\ Listed(library, s) = Client!Matching(s)
         /\ \A p : PlaceIn(library, p, s) = Client!Place(p, s)
BY ClientCardinality DEF Listed, PlaceIn, Client!Matching, Client!Place

\* The sets that the filters ask for at least are among those that are searched.
LEMMA LeastSearched ==
  ASSUME NEW q
  PROVE  Client!Least(q) \subseteq Client!RequestSets(q)
<1>1. CASE q.ids # {}
  BY <1>1 DEF Client!Least, Client!RequestSets
<1>2. CASE q.ids = {} /\ (q.obligatory # {} \/ q.optional = {})
  <2>1. {} \in SUBSET q.optional /\ q.obligatory \cup {} = q.obligatory
    OBVIOUS
  <2> QED BY <1>2, <2>1 DEF Client!Least, Client!RequestSets
<1>3. CASE q.ids = {} /\ q.obligatory = {} /\ q.optional # {}
  <2>1. ASSUME NEW person \in q.optional
        PROVE  {person} \in Client!RequestSets(q)
    <3>1. {person} \in SUBSET q.optional /\ {person} # {}
      OBVIOUS
    <3>2. {person} = {} \cup {person}
      OBVIOUS
    <3> DEFINE several == (SUBSET q.optional) \ {{}}
    <3>3. {person} \in several
      BY <3>1
    <3>4. Client!RequestSets(q) = {{} \cup some : some \in several}
      BY <1>3 DEF Client!RequestSets
    <3> HIDE DEF several
    <3>5. \E some \in several : {person} = {} \cup some
      BY <3>2, <3>3
    <3> QED BY <3>4, <3>5
  <2> QED BY <1>3, <2>1 DEF Client!Least
<1> QED BY <1>1, <1>2, <1>3

\* A page of which nothing may be used.
LEMMA PageSeen ==
  ASSUME NEW s, NEW q, NEW from \in Nat, NEW k \in Nat, from >= 1, k >= 1,
         Over(library, s, q, from, k - 1), Client!Allowed(Client!Page(s, k), q) = {}
  PROVE  Over(library, s, q, from, k)
<1> SUFFICES ASSUME NEW p \in Listed(library, s), library[p] \cap q.exclude = {}
             PROVE  PlaceIn(library, p, s) <= (from - 1) * Size \/ PlaceIn(library, p, s) > k * Size
  BY DEF Over
<1> DEFINE place == PlaceIn(library, p, s)  low == (from - 1) * Size
           before == (k - 1) * Size  last == k * Size
<1>1. place \in Nat /\ low \in Int /\ before \in Int /\ last \in Int
  <2>1. Size \in Nat
    BY ServiceAssumption DEF Client!ClientAssumption
  <2>2. place \in Nat
    BY ListedMatch, PlaceType, MatchingFinite
  <2> QED BY <2>1, <2>2
<1>2. place <= low \/ place > before
  BY DEF Over
<1>3. ~(place > before /\ place <= last)
  BY ListedMatch DEF Client!Allowed, Client!Page
<1> HIDE DEF place, low, before, last
<1>4. place <= low \/ place > last
  BY <1>1, <1>2, <1>3
<1> QED BY <1>4 DEF place, low, last

LEMMA SetNotBegun ==
  ASSUME NEW s, NEW q, NEW from \in Nat, from >= 1
  PROVE  Over(library, s, q, from, from - 1)
<1> SUFFICES ASSUME NEW p \in Listed(library, s)
             PROVE  PlaceIn(library, p, s) <= (from - 1) * Size \/ PlaceIn(library, p, s) > (from - 1) * Size
  BY DEF Over
<1> DEFINE place == PlaceIn(library, p, s)  low == (from - 1) * Size
<1>1. place \in Nat
  BY ListedMatch, PlaceType, MatchingFinite
<1>2. low \in Int
  BY ServiceAssumption DEF Client!ClientAssumption
<1> HIDE DEF place, low
<1>3. place <= low \/ place > low
  BY <1>1, <1>2
<1> QED BY <1>3 DEF place, low

\* The last page: there is none after it, or the search looks at no more.
LEMMA SetSeen ==
  ASSUME NEW s, NEW q, NEW from \in Nat, NEW k \in Nat, from >= 1, k >= 1,
         Over(library, s, q, from, k),
         Client!Page(s, k) = {} \/ ~Client!MorePages(s, k) \/ k = from - 1 + MaxPages
  PROVE  Over(library, s, q, from, from - 1 + MaxPages)
<1>1. CASE k = from - 1 + MaxPages
  BY <1>1
<1>2. CASE Client!Page(s, k) = {} \/ ~Client!MorePages(s, k)
  <2> SUFFICES ASSUME NEW p \in Listed(library, s), library[p] \cap q.exclude = {}
               PROVE  PlaceIn(library, p, s) <= (from - 1) * Size
    BY DEF Over
  <2> DEFINE place == PlaceIn(library, p, s)  last == k * Size
             n == Cardinality(Client!Matching(s))  full == Cardinality(Client!Page(s, k))
  <2>1. p \in Client!Matching(s) /\ place = Client!Place(p, s)
    BY ListedMatch
  <2>2. Size \in Nat /\ last \in Nat
    <3>1. Size \in Nat
      BY ServiceAssumption DEF Client!ClientAssumption
    <3> QED BY <3>1
  <2>3. place \in 1..n /\ n \in Nat
    BY <2>1, PlaceType, MatchingFinite
  <2>4. full \in Nat
    <3>1. IsFiniteSet(Client!Page(s, k))
      BY MatchingFinite, FS_Subset DEF Client!Page
    <3> QED BY <3>1, FS_CardinalityType
  <2>5. ~(place > last)
    <3>1. SUFFICES ASSUME place > last PROVE FALSE
      OBVIOUS
    <3>2. full >= Size /\ Client!Page(s, k) # {}
      BY <2>1, <3>1, PageFull
    <3>3. ~Client!MorePages(s, k)
      BY <1>2, <3>2
    <3>4. (totals /\ ~(last < n)) \/ ~(full >= Size)
      BY <3>3, ClientCardinality DEF Client!MorePages
    <3>5. last < n
      <4> HIDE DEF last, n, place
      <4> QED BY <2>2, <2>3, <3>1
    <3> QED BY <3>2, <3>4, <3>5
  <2>6. place <= (from - 1) * Size \/ place > last
    BY DEF Over
  <2> QED BY <2>5, <2>6
<1> QED BY <1>1, <1>2

\* A search returns photos or an error, or has seen all sets; or it goes on as before.
SeesAll(sets) == \A s \in sets :
  Over(library, s, call.query, call.from, call.from - 1 + MaxPages)

LEMMA NextSetSeen ==
  ASSUME CallTyped, SearchSeen, call \in SearchCalls, Client!NextSet, UNCHANGED <<library, offered>>,
         call.at = "metadata" /\ "metadata" \in offered =>
           Over(library, call.set, call.query, call.from, call.from - 1 + MaxPages),
         call.at = "metadata" => "metadata" \in offered
  PROVE  SearchSeen' /\ NothingSeen'
<1> DEFINE sets == Client!RequestSets(call.query)
<1>1. call.at = "metadata" => SeesAll(sets \ call.left)
  BY DEF SearchSeen, SeesAll
<1>2. CASE call.left = {}
  <2>1. call' = [op |-> call.op, at |-> "ended", value |-> {}, made |-> call]
    BY <1>2 DEF Client!NextSet, Client!Return
  <2>2. call' \notin SearchCalls
    BY <2>1 DEF SearchCalls
  <2>3. call.at = "metadata" => SeesAll(sets)
    BY <1>1, <1>2
  <2>4. call'.made = call
    BY <2>1
  <2> QED BY <2>2, <2>3, <2>4 DEF SearchSeen, NothingSeen, SeesAll
<1>3. CASE call.left # {}
  <2>1. PICK s \in call.left :
          call' = [call EXCEPT !.set = s, !.left = @ \ {s}, !.page = call.from, !.tries = 1,
                               !.at = IF @ = "fallback" THEN "metadata" ELSE @]
    BY <1>3 DEF Client!NextSet, Client!Nexts
  <2>2. /\ call'.set = s /\ call'.left = call.left \ {s} /\ call'.page = call.from /\ call'.tries = 1
        /\ call'.query = call.query /\ call'.from = call.from /\ call'.op = "search"
        /\ call'.at = "metadata" => call.at \in {"metadata", "fallback"}
        /\ call'.at # "fallback"
    BY <2>1 DEF SearchCalls
  <2>3. s \in sets /\ call.left \ {s} \subseteq sets
    BY DEF SearchSeen
  <2>4. call'.at = "metadata" /\ "metadata" \in offered => call.at = "metadata"
    BY <2>2 DEF SearchSeen
  <2>5. Over(library, s, call.query, call.from, call.from - 1)
    BY SetNotBegun DEF SearchCalls
  <2>6. 1 \in 1..MaxPages /\ call.from = call.from + 1 - 1
    <3>1. MaxPages \in Nat /\ MaxPages >= 1
      BY ServiceAssumption DEF Client!ClientAssumption
    <3>2. call.from \in 1..2
      BY DEF SearchCalls
    <3> QED BY <3>1, <3>2
  <2>7. sets \ ((call.left \ {s}) \cup {s}) = sets \ call.left
    BY <2>1
  <2>8. SearchSeen'
    <3>1. Client!RequestSets(call'.query) = sets
      BY <2>2
    <3>2. call'.at = "metadata" /\ "metadata" \in offered =>
            \A t \in sets \ (call'.left \cup {call'.set}) :
              Over(library, t, call'.query, call'.from, call'.from - 1 + MaxPages)
      BY <1>1, <2>2, <2>4, <2>7 DEF SeesAll
    <3>3. Over(library, call'.set, call'.query, call'.from, call'.page - 1)
      BY <2>2, <2>5
    <3>4. call'.tries \in 1..MaxPages /\ call'.page = call'.from + call'.tries - 1
      BY <2>2, <2>6
    <3>5. call'.set \in sets /\ call'.left \subseteq sets
      BY <2>2, <2>3
    <3> HIDE DEF sets
    <3> QED BY <2>2, <3>1, <3>2, <3>3, <3>4, <3>5 DEF SearchSeen
  <2>9. ~Client!Ended'
    BY <2>1 DEF SearchCalls, Client!Ended
  <2> QED BY <2>8, <2>9 DEF NothingSeen
<1> QED BY <1>2, <1>3

\* A search looks at a page, at a sample, or returns an error.
LEMMA RaiseSeen ==
  ASSUME call \in SearchCalls, Client!Raise
  PROVE  SearchSeen' /\ NothingSeen'
<1>1. call' = [op |-> call.op, at |-> "ended", value |-> Nothing, made |-> call]
  BY DEF Client!Raise, Client!Return
<1>2. call' \notin SearchCalls /\ call'.value # {}
  BY <1>1, ServiceAssumption DEF SearchCalls, Client!ClientAssumption
<1> QED BY <1>2 DEF SearchSeen, NothingSeen

LEMMA PhotosSeen ==
  ASSUME call \in SearchCalls, NEW value, value # {}, Client!Return(value)
  PROVE  SearchSeen' /\ NothingSeen'
<1>1. call' = [op |-> call.op, at |-> "ended", value |-> value, made |-> call]
  BY DEF Client!Return
<1>2. call' \notin SearchCalls /\ call'.value # {}
  BY <1>1 DEF SearchCalls
<1> QED BY <1>2 DEF SearchSeen, NothingSeen

LEMMA PageStep ==
  ASSUME CallTyped, SearchSeen, Client!SearchPage
  PROVE  SearchSeen' /\ NothingSeen'
<1>0. call \in SearchCalls /\ UNCHANGED <<library, offered, totals>> /\ call.at = "metadata"
  BY SearchCallSteps DEF Searches, Client!SearchPage
<1>1. PICK answer \in Client!Answers("metadata") :
        \/ /\ answer = "ok"
           /\ Client!SearchGets(Client!Page(call.set, call.page), Client!MorePages(call.set, call.page))
        \/ answer = "missing" /\ call' = [call EXCEPT !.at = "fallback"]
        \/ Client!Raise
  BY DEF Client!SearchPage
<1>2. CASE answer = "missing" /\ call' = [call EXCEPT !.at = "fallback"]
  <2>1. "metadata" \notin offered
    BY <1>2 DEF Client!Answers, Client!Faults
  <2>2. /\ call'.at = "fallback" /\ call'.op = "search" /\ call'.set = call.set /\ call'.left = call.left
        /\ call'.query = call.query
    BY <1>0, <1>2 DEF SearchCalls
  <2> QED BY <1>0, <2>1, <2>2 DEF SearchSeen, NothingSeen, Client!Ended
<1>3. CASE Client!Raise
  BY <1>0, <1>3, RaiseSeen
<1>4. CASE /\ answer = "ok"
           /\ Client!SearchGets(Client!Page(call.set, call.page), Client!MorePages(call.set, call.page))
  <2> DEFINE some == Client!Page(call.set, call.page)
             more == Client!MorePages(call.set, call.page)
             good == Client!Allowed(some, call.query)
  <2>1. "metadata" \in offered
    BY <1>4 DEF Client!Answers
  <2>2. /\ call.tries \in 1..MaxPages /\ call.page = call.from + call.tries - 1
        /\ Over(library, call.set, call.query, call.from, call.page - 1)
    BY <1>0, <2>1 DEF SearchSeen
  <2>3. MaxPages \in Nat /\ MaxPages >= 1 /\ call.from \in 1..2
    BY <1>0, ServiceAssumption DEF SearchCalls, Client!ClientAssumption
  <2>4. call.from \in Nat /\ call.page \in Nat /\ call.from >= 1 /\ call.page >= 1
    <3>1. call.tries \in Nat /\ call.tries >= 1
      BY <2>2, <2>3
    <3>2. call.from \in Nat /\ call.from >= 1
      BY <2>3
    <3> QED BY <2>2, <3>1, <3>2
  <2>5. CASE good # {}
    BY <1>0, <1>4, <2>5, PhotosSeen DEF Client!SearchGets
  <2>6. CASE good = {} /\ some # {} /\ more /\ call.tries < MaxPages
    <3>1. call' = [call EXCEPT !.page = @ + 1, !.tries = @ + 1]
      BY <1>4, <2>6 DEF Client!SearchGets
    <3>2. /\ call'.at = call.at /\ call'.op = "search" /\ call'.set = call.set /\ call'.left = call.left
          /\ call'.query = call.query /\ call'.from = call.from
          /\ call'.page = call.page + 1 /\ call'.tries = call.tries + 1
      BY <1>0, <3>1 DEF SearchCalls
    <3>3. Over(library, call.set, call.query, call.from, call.page)
      BY <2>2, <2>4, <2>6, PageSeen
    <3>4. /\ call'.tries \in 1..MaxPages /\ call'.page = call'.from + call'.tries - 1
          /\ call'.page - 1 = call.page
      <4>1. call.tries \in 1..MaxPages /\ call.tries < MaxPages /\ call.page = call.from + call.tries - 1
        BY <2>2, <2>6
      <4> QED BY <2>3, <2>4, <3>2, <4>1
    <3>5. SearchSeen'
      BY <1>0, <3>2, <3>3, <3>4 DEF SearchSeen
    <3> QED BY <1>0, <3>2, <3>5 DEF NothingSeen, Client!Ended
  <2>7. CASE good = {} /\ ~(some # {} /\ more /\ call.tries < MaxPages)
    <3>1. Client!NextSet
      BY <1>4, <2>7 DEF Client!SearchGets
    <3>2. Over(library, call.set, call.query, call.from, call.page)
      BY <2>2, <2>4, <2>7, PageSeen
    <3>3. ~(call.tries < MaxPages) => call.page = call.from - 1 + MaxPages
      <4>1. call.tries \in 1..MaxPages /\ call.page = call.from + call.tries - 1
        BY <2>2
      <4> QED BY <2>3, <4>1
    <3>4. some = {} \/ ~more \/ call.page = call.from - 1 + MaxPages
      BY <2>7, <3>3
    <3>5. Over(library, call.set, call.query, call.from, call.from - 1 + MaxPages)
      BY <2>4, <3>2, <3>4, SetSeen
    <3> QED BY <1>0, <2>1, <3>1, <3>5, NextSetSeen
  <2> QED BY <2>5, <2>6, <2>7
<1> QED BY <1>1, <1>2, <1>3, <1>4

LEMMA SampleStep ==
  ASSUME CallTyped, SearchSeen, Client!SearchFallback \/ Client!SearchSample
  PROVE  SearchSeen' /\ NothingSeen'
<1>0. call \in SearchCalls /\ UNCHANGED <<library, offered, totals>> /\ call.at \in {"fallback", "random"}
  BY SearchCallSteps DEF Searches, Client!SearchFallback, Client!SearchSample
<1>1. \/ Client!Raise \/ Client!NextSet
      \/ \E value : value # {} /\ Client!Return(value)
      \/ call.at = "random" /\ call' = [call EXCEPT !.tries = @ + 1]
  BY DEF Client!SearchFallback, Client!SearchSample, Client!SearchGets
<1>2. CASE Client!NextSet
  BY <1>0, <1>2, NextSetSeen
<1>3. CASE call.at = "random" /\ call' = [call EXCEPT !.tries = @ + 1]
  <2>1. /\ call'.at = "random" /\ call'.op = "search" /\ call'.set = call.set /\ call'.left = call.left
        /\ call'.query = call.query
    BY <1>0, <1>3 DEF SearchCalls
  <2> QED BY <1>0, <2>1 DEF SearchSeen, NothingSeen, Client!Ended
<1> QED BY <1>0, <1>1, <1>2, <1>3, RaiseSeen, PhotosSeen

LEMMA SearchStep == SearchInv /\ Client!Next => SearchInv'
<1> SUFFICES ASSUME SearchInv, Client!Next PROVE SearchSeen' /\ NothingSeen'
  BY CallTypes DEF SearchInv
<1>0. CallTyped /\ SearchSeen
  BY DEF SearchInv
<1>1. ASSUME call' \in Calls, call' \notin SearchCalls
      PROVE  SearchSeen' /\ NothingSeen'
  <2>1. ~Client!Ended'
    BY <1>1 DEF Calls, DownloadCalls, WayCalls, SearchCalls, PeopleCalls, Client!Ended
  <2> QED BY <1>1, <2>1 DEF SearchSeen, NothingSeen
<1>2. ASSUME call \in Calls, Returns, call.op # "search"
      PROVE  SearchSeen' /\ NothingSeen'
  <2>1. call' \notin Calls' /\ call'.op # "search"
    BY <1>0, <1>2, ReturnEnds
  <2> QED BY <2>1 DEF SearchSeen, NothingSeen, Calls
<1>3. SearchCalls \cap (DownloadCalls \cup WayCalls \cup PeopleCalls) = {}
  BY DEF SearchCalls, DownloadCalls, WayCalls, PeopleCalls, WayOps, Client!Writing
<1>4. CASE Client!SearchBegins
  <2> DEFINE sets == Client!RequestSets(call'.query)
  <2>1. /\ call' \in SearchCalls /\ call'.at \in {"metadata", "random"}
        /\ call'.set \in sets /\ call'.left = sets \ {call'.set}
        /\ call'.page = call'.from /\ call'.tries = 1 /\ UNCHANGED <<library, offered>>
    BY <1>4, SearchStarts DEF Starts
  <2>2. call'.from \in 1..2
    BY <2>1 DEF SearchCalls
  <2>3. Over(library, call'.set, call'.query, call'.from, call'.page - 1)
    BY <2>1, <2>2, SetNotBegun
  <2>4. sets \ (call'.left \cup {call'.set}) = {}
    BY <2>1
  <2>5. call'.tries \in 1..MaxPages /\ call'.page = call'.from + call'.tries - 1
    <3>1. MaxPages \in Nat /\ MaxPages >= 1
      BY ServiceAssumption DEF Client!ClientAssumption
    <3>2. call'.page = call'.from /\ call'.tries = 1
      BY <2>1
    <3> QED BY <2>2, <3>1, <3>2
  <2>6. SearchSeen'
    BY <2>1, <2>3, <2>4, <2>5 DEF SearchSeen
  <2>7. ~Client!Ended'
    BY <2>1 DEF SearchCalls, Client!Ended
  <2> QED BY <2>6, <2>7 DEF NothingSeen
<1>5. CASE Client!DownloadBegins \/ (Starts /\ call' \in WayCalls \cup PeopleCalls)
  BY <1>1, <1>3, <1>5, DownloadStarts DEF Starts, Calls
<1>6. CASE Client!Finish
  <2>1. call' = Client!NoCall
    BY <1>6 DEF Client!Finish
  <2> QED BY <2>1, NoCallIsNone DEF SearchSeen, NothingSeen, Calls, Client!Ended
<1>7. CASE Searches
  <2>1. call \in SearchCalls
    BY <1>0, <1>7, SearchCallSteps
  <2> QED BY <1>0, <1>7, <2>1, PageStep, SampleStep, RaiseSeen DEF Searches, Client!SearchTimesOut
<1>8. CASE Downloads \/ Client!Way \/ PeopleSteps
  <2>1. /\ call \in DownloadCalls \cup WayCalls \cup PeopleCalls
        /\ call' \in DownloadCalls \cup WayCalls \cup PeopleCalls \/ Returns
    BY <1>0, <1>8, DownloadCallSteps, WayCallSteps, PeopleCallSteps
  <2>2. call \in Calls /\ call.op # "search"
    BY <2>1 DEF Calls, DownloadCalls, WayCalls, PeopleCalls, WayOps, Client!Writing
  <2> QED BY <1>1, <1>2, <1>3, <2>1, <2>2 DEF Calls
<1> QED BY <1>4, <1>5, <1>6, <1>7, <1>8, ClientKinds

LEMMA SearchRests == SearchInv /\ UNCHANGED clientVars => SearchInv'
BY DEF clientVars, SearchInv, CallTyped, SearchSeen, NothingSeen, Client!Ended

\* What an empty search has seen covers what the filters ask for at least.
LEMMA NothingFound == NothingSeen => NothingMeansNone
<1> SUFFICES ASSUME NothingSeen, Client!Ended, call.op = "search", call.value = {}, call.made.at = "metadata",
                    NEW s \in Client!Least(call.made.query),
                    NEW p \in Client!Allowed(Client!Matching(s), call.made.query)
             PROVE  \/ Client!Place(p, s) <= (call.made.from - 1) * Size
                    \/ Client!Place(p, s) > (call.made.from - 1 + MaxPages) * Size
  BY DEF NothingMeansNone, Client!NothingMeansNone
<1>1. s \in Client!RequestSets(call.made.query)
  BY LeastSearched
<1>2. Over(library, s, call.made.query, call.made.from, call.made.from - 1 + MaxPages)
  BY <1>1 DEF NothingSeen
<1>3. p \in Listed(library, s) /\ library[p] \cap call.made.query.exclude = {}
  BY ListedMatch DEF Client!Allowed
<1> QED BY <1>2, <1>3, ListedMatch DEF Over

(* An empty search has seen all there is: whatever the filters, the photos, the size *)
(* of the pages and the number of pages that a search may look at.                *)
THEOREM EmptySearchSawAll == Spec => []NothingMeansNone
<1>1. Init => SearchInv
  <2> SUFFICES ASSUME Init PROVE SearchInv
    OBVIOUS
  <2>1. call = Client!NoCall /\ CallTyped
    BY FaultInit DEF Init, Client!Init, FaultInv
  <2> QED BY <2>1, NoCallIsNone DEF SearchInv, SearchSeen, NothingSeen, Calls, Client!Ended
<1>2. SearchInv /\ [Next]_vars => SearchInv'
  BY StepOfEach, SearchStep, SearchRests
<1>3. SearchInv => NothingMeansNone
  BY NothingFound DEF SearchInv
<1> QED BY <1>1, <1>2, <1>3, PTL DEF Spec

-----------------------------------------------------------------------------
(* TelegramBot. What is before the offset of the poller was handled, but for the    *)
(* press that is being handled; and so was what is missing of a batch before one    *)
(* that is left of it. An offset is sent when no press is being handled.        *)

Passed(n) == n \in handled \/ (n = poller.current /\ poller.state \in Bot!Stages)
PollerTyped ==
  /\ poller.state \in {"off", "polling"} \cup Bot!Stages
  /\ poller = [state |-> poller.state, offset |-> poller.offset,
               current |-> poller.current, left |-> poller.left]
  /\ poller.offset \in Nat \ {0} /\ poller.left \subseteq Nat \ {0}
  /\ confirmed \in Nat \ {0} /\ pressed \in Seq({"accept", "reject"})
OffsetPassed == \A n \in Nat \ {0} : n < poller.offset => Passed(n)
BatchPassed ==
  \A k \in poller.left : \A n \in Nat \ {0} : n < k /\ n \notin poller.left => Passed(n)
ForgottenPassed == \A n \in Nat \ {0} : n < confirmed => n \in handled

BotInv == PollerTyped /\ OffsetPassed /\ BatchPassed /\ ForgottenPassed

LEMMA BotInit == Bot!Init => BotInv
BY DEF Bot!Init, Bot!Idle, BotInv, PollerTyped, OffsetPassed, BatchPassed, ForgottenPassed

\* A poller that starts, or is gone, knows of no offset.
LEMMA PollerAnew ==
  ASSUME BotInv, NEW state \in {"off", "polling"}, poller' = [Bot!Idle EXCEPT !.state = state],
         UNCHANGED <<pressed, confirmed, handled>>
  PROVE  BotInv'
<1>1. Bot!Idle = [state |-> "off", offset |-> 1, current |-> 0, left |-> {}]
  BY DEF Bot!Idle
<1>2. /\ poller'.state = state /\ poller'.offset = 1 /\ poller'.left = {}
      /\ poller' = [state |-> poller'.state, offset |-> poller'.offset,
                    current |-> poller'.current, left |-> poller'.left]
  BY <1>1
<1>3. PollerTyped'
  BY <1>2 DEF BotInv, PollerTyped
<1> QED BY <1>2, <1>3 DEF BotInv, OffsetPassed, BatchPassed, ForgottenPassed

\* What is said of a request holds for an answer that is lost as well.
LEMMA PollPasses ==
  ASSUME BotInv, poller.state = "polling", poller.left = {}, Bot!Forget \/ UNCHANGED confirmed,
         NEW batch, batch \in {{}, confirmed'..Len(pressed)}, poller' = [poller EXCEPT !.left = batch],
         UNCHANGED <<pressed, handled>>
  PROVE  BotInv'
<1> USE DEF BotInv, PollerTyped
<1>1. \A n \in Nat \ {0} : Passed(n) => n \in handled
  BY DEF Passed, Bot!Stages
<1>2. confirmed' \in Nat \ {0} /\ ForgottenPassed'
  <2>1. CASE UNCHANGED confirmed
    BY <2>1 DEF ForgottenPassed
  <2>2. CASE Bot!Forget
    <3>1. confirmed' \in {confirmed, poller.offset}
      BY <2>2 DEF Bot!Forget
    <3> QED BY <1>1, <3>1 DEF ForgottenPassed, OffsetPassed
  <2> QED BY <2>1, <2>2
<1>3. Len(pressed) \in Nat
  OBVIOUS
<1>4. batch \subseteq Nat \ {0} /\ \A k \in batch : \A n \in Nat \ {0} :
        n < k /\ n \notin batch => n \in handled
  BY <1>2, <1>3 DEF ForgottenPassed
<1>5. /\ poller'.state = "polling" /\ poller'.offset = poller.offset
      /\ poller'.current = poller.current /\ poller'.left = batch
      /\ poller' = [state |-> poller'.state, offset |-> poller'.offset,
                    current |-> poller'.current, left |-> poller'.left]
  OBVIOUS
<1>6. PollerTyped'
  BY <1>2, <1>4, <1>5
<1>7. OffsetPassed' /\ BatchPassed'
  BY <1>1, <1>4, <1>5 DEF OffsetPassed, BatchPassed, Passed
<1> QED BY <1>2, <1>6, <1>7

LEMMA TakesNext ==
  ASSUME BotInv, Bot!TakeUpdate
  PROVE  BotInv'
<1> USE DEF BotInv, PollerTyped
<1> DEFINE n == Bot!First(poller.left)
<1>1. n \in poller.left /\ \A k \in poller.left : n <= k
  <2>1. \E k \in poller.left : \A j \in poller.left : k <= j
    BY LeastNat DEF Bot!TakeUpdate
  <2> QED BY <2>1 DEF Bot!First
<1> HIDE DEF n
<1>2. n \in Nat \ {0} /\ \A m \in Nat \ {0} : m < n => m \in handled
  <2>1. poller.state = "polling"
    BY DEF Bot!TakeUpdate
  <2>2. \A m \in Nat \ {0} : m < n => Passed(m)
    BY <1>1 DEF BatchPassed
  <2> QED BY <1>1, <2>1, <2>2 DEF Passed, Bot!Stages
<1>3. /\ poller'.state = "reading" /\ poller'.offset = n + 1 /\ poller'.current = n
      /\ poller'.left = poller.left \ {n}
      /\ poller' = [state |-> poller'.state, offset |-> poller'.offset,
                    current |-> poller'.current, left |-> poller'.left]
  BY DEF Bot!TakeUpdate, Bot!NextOffset, n
<1>4. UNCHANGED <<pressed, confirmed, handled>> /\ poller.state = "polling"
  BY DEF Bot!TakeUpdate
<1>5. PollerTyped'
  BY <1>2, <1>3, <1>4 DEF Bot!Stages
<1>6. \A m \in Nat \ {0} : m <= n => Passed(m)'
  BY <1>2, <1>3, <1>4 DEF Passed, Bot!Stages
<1>7. \A m \in Nat \ {0} : Passed(m) => Passed(m)'
  BY <1>4 DEF Passed, Bot!Stages
<1>8. OffsetPassed'
  <2>1. \A m \in Nat \ {0} : m < n + 1 => m <= n
    BY <1>2
  <2> QED BY <1>3, <1>6, <2>1 DEF OffsetPassed
<1>9. BatchPassed'
  <2> SUFFICES ASSUME NEW k \in poller'.left, NEW m \in Nat \ {0}, m < k, m \notin poller'.left
               PROVE  Passed(m)'
    BY DEF BatchPassed
  <2>1. k \in poller.left /\ (m \notin poller.left \/ m = n)
    BY <1>3
  <2> QED BY <1>2, <1>6, <1>7, <2>1 DEF BatchPassed
<1> QED BY <1>4, <1>5, <1>8, <1>9 DEF ForgottenPassed

\* A handler that goes on, or comes to its end.
LEMMA HandlerPasses ==
  ASSUME BotInv, poller.state \in Bot!Stages, UNCHANGED <<pressed, confirmed>>,
         \/ \E goal \in Bot!Stages : poller' = [poller EXCEPT !.state = goal] /\ UNCHANGED handled
         \/ Bot!HandlerEnds
  PROVE  BotInv'
<1> USE DEF BotInv, PollerTyped
<1>1. CASE \E goal \in Bot!Stages : poller' = [poller EXCEPT !.state = goal] /\ UNCHANGED handled
  <2>1. PICK goal \in Bot!Stages : poller' = [poller EXCEPT !.state = goal] /\ UNCHANGED handled
    BY <1>1
  <2>2. /\ poller'.state = goal /\ poller'.offset = poller.offset
        /\ poller'.current = poller.current /\ poller'.left = poller.left
        /\ poller' = [state |-> poller'.state, offset |-> poller'.offset,
                      current |-> poller'.current, left |-> poller'.left]
    BY <2>1
  <2>3. \A n : Passed(n)' <=> Passed(n)
    BY <2>1, <2>2 DEF Passed
  <2>4. PollerTyped'
    BY <2>2
  <2> QED BY <2>1, <2>2, <2>3, <2>4 DEF OffsetPassed, BatchPassed, ForgottenPassed
<1>2. CASE Bot!HandlerEnds
  <2>1. /\ poller'.state = "polling" /\ poller'.offset = poller.offset /\ poller'.left = poller.left
        /\ poller' = [state |-> poller'.state, offset |-> poller'.offset,
                      current |-> poller'.current, left |-> poller'.left]
        /\ handled' = handled \cup {poller.current}
    BY <1>2 DEF Bot!HandlerEnds, Bot!Current
  <2>2. \A n : Passed(n) => Passed(n)'
    BY <2>1 DEF Passed
  <2>3. PollerTyped'
    BY <2>1
  <2> QED BY <2>1, <2>2, <2>3 DEF OffsetPassed, BatchPassed, ForgottenPassed
<1> QED BY <1>1, <1>2

LEMMA BotStep == BotInv /\ Bot!Next => BotInv'
<1> SUFFICES ASSUME BotInv, Bot!Next PROVE BotInv'
  OBVIOUS
<1>1. CASE Bot!Send \/ (\E button \in {"accept", "reject"} : Bot!Press(button)) \/ Bot!ChangePreset \/ Bot!Review
  <2>1. pressed' \in Seq({"accept", "reject"}) /\ UNCHANGED <<confirmed, poller, handled>>
    <3>1. \A button \in {"accept", "reject"} : Append(pressed, button) \in Seq({"accept", "reject"})
      BY DEF BotInv, PollerTyped
    <3> QED BY <1>1, <3>1 DEF Bot!Send, Bot!Press, Bot!ChangePreset, Bot!Review, BotInv, PollerTyped
  <2> QED BY <2>1 DEF BotInv, PollerTyped, OffsetPassed, BatchPassed, ForgottenPassed, Passed
<1>2. CASE Bot!StartPoller \/ Bot!CancelPoller \/ Bot!Crash
  <2>1. PICK state \in {"off", "polling"} : poller' = [Bot!Idle EXCEPT !.state = state]
    BY <1>2 DEF Bot!StartPoller, Bot!CancelPoller, Bot!Crash, Bot!Idle
  <2> QED BY <1>2, <2>1, PollerAnew DEF Bot!StartPoller, Bot!CancelPoller, Bot!Crash
<1>3. CASE Bot!Poll
  BY <1>3, PollPasses DEF Bot!Poll
<1>4. CASE Bot!PollFails
  <2>1. poller' = [poller EXCEPT !.left = {}]
    BY <1>4 DEF Bot!PollFails, BotInv, PollerTyped
  <2> QED BY <1>4, <2>1, PollPasses DEF Bot!PollFails
<1>5. CASE Bot!TakeUpdate
  BY <1>5, TakesNext
<1>6. CASE Bot!Handler
  <2>1. poller.state \in Bot!Stages /\ UNCHANGED <<pressed, confirmed>>
    BY <1>6 DEF Bot!Handler, Bot!Unauthorized, Bot!ReadRow, Bot!AcceptStart, Bot!Upload, Bot!AcceptEnd,
                Bot!Reject, Bot!Edit, Bot!Fails, Bot!Stages
  <2>2. CASE Bot!Unauthorized \/ Bot!Edit \/ Bot!Fails
    BY <2>1, <2>2, HandlerPasses DEF Bot!Unauthorized, Bot!Edit, Bot!Fails
  <2>3. CASE Bot!ReadRow \/ Bot!AcceptStart \/ Bot!Upload \/ Bot!AcceptEnd \/ Bot!Reject
    <3>1. PICK goal \in Bot!Stages : poller' = [poller EXCEPT !.state = goal] /\ UNCHANGED handled
      BY <2>3 DEF Bot!ReadRow, Bot!AcceptStart, Bot!Upload, Bot!AcceptEnd, Bot!Reject, Bot!Decides, Bot!Stages
    <3> QED BY <2>1, <3>1, HandlerPasses
  <2> QED BY <1>6, <2>2, <2>3 DEF Bot!Handler
<1> QED BY <1>1, <1>2, <1>3, <1>4, <1>5, <1>6 DEF Bot!Next, Bot!Bot

LEMMA BotRests == BotInv /\ UNCHANGED botVars => BotInv'
BY DEF botVars, BotInv, PollerTyped, OffsetPassed, BatchPassed, ForgottenPassed, Passed

(* Telegram forgets a press only when its handler came to an end, however often      *)
(* pollers are cancelled, die, or lose an answer within a batch.                  *)
THEOREM ForgottenWasHandled == Spec => []Bot!ForgottenHandled
<1>1. Init => BotInv
  BY BotInit DEF Init
<1>2. BotInv /\ [Next]_vars => BotInv'
  BY StepOfEach, BotStep, BotRests
<1>3. BotInv => Bot!ForgottenHandled
  BY DEF BotInv, PollerTyped, ForgottenPassed, Bot!ForgottenHandled
<1> QED BY <1>1, <1>2, <1>3, PTL DEF Spec
================================================================================
