--------------------------------- MODULE Startup ---------------------------------
(***************************************************************************)
(* What happens to the database when the container starts: start.sh runs the     *)
(* checks of preflight.py, starts the scheduler, whose workers write at once, and  *)
(* the API, which calls init_db before it answers: migrations, and then entries   *)
(* for results of releases that had no registry of photos and no log of effects.  *)
(* Every command of cli.py calls init_db as well, in a process of its own.       *)
(***************************************************************************)
EXTENDS Naturals, FiniteSets

CONSTANTS
  Results,    \* rows of generation_history, all with a source photo
  Commands,   \* processes of cli.py
  Api,
  Tables,     \* how many tables the baseline has
  MaxCrashes, MaxWrites   \* bounds

Starters == Commands \cup {Api}

StartupAssumption ==
  /\ IsFiniteSet(Results) /\ IsFiniteSet(Commands) /\ Api \notin Commands
  /\ Tables \in Nat \ {0} /\ {MaxCrashes, MaxWrites} \subseteq Nat

VARIABLES
  postgres,  \* which database; SQLite commits each statement of a migration by itself
  tables,    \* tables that exist
  version,   \* alembic_version
  running,   \* does the container run?
  stage,     \* where init_db is in each process
  own,       \* tables that this process has created
  found,     \* the results that it has found to have no entry, with their status
  history,   \* status of each result
  usage,     \* asset_usage.status of its photo
  log,       \* results with an entry in effect_statistics_log
  raced,     \* history: results reviewed since a process read them, or when it failed to write
  crashes, writes   \* counters for the bounds

database == <<postgres, tables, version>>
process  == <<running, stage, own, found>>
rows     == <<history, usage, log, raced>>
counts   == <<crashes, writes>>
vars == <<database, process, rows, counts>>

Statuses == {"absent", "PENDING_REVIEW", "UPLOADED", "REJECTED", "FAILED"}
Uses     == {"none", "pending", "accepted", "released"}
NoneFound  == [r \in {} |-> "absent"]

TypeOK ==
  /\ postgres \in BOOLEAN /\ tables \in 0..Tables /\ version \in {"none", "older", "head"}
  /\ running \in BOOLEAN
  /\ stage \in [Starters -> {"off", "starting", "migrating", "migrated", "usage", "writing usage",
                             "log", "writing log", "ready"}]
  /\ own \in [Starters -> 0..Tables]
  /\ \A p \in Starters : DOMAIN found[p] \subseteq Results
  /\ history \in [Results -> Statuses] /\ usage \in [Results -> Uses]
  /\ log \subseteq Results /\ raced \subseteq Results
  /\ crashes \in 0..MaxCrashes /\ writes \in 0..MaxWrites

Off == /\ stage = [p \in Starters |-> "off"] /\ own = [p \in Starters |-> 0]
       /\ found = [p \in Starters |-> NoneFound]

\* A new database, one of an older release without registry and log, or today's.
Init ==
  /\ postgres \in BOOLEAN /\ running = FALSE /\ Off
  /\ \/ tables = 0 /\ version = "none" /\ history = [r \in Results |-> "absent"]
     \/ tables = Tables /\ version \in {"older", "head"}
        /\ history \in [Results -> Statuses \ {"absent"}]
  /\ usage = [r \in Results |-> "none"] /\ log = {} /\ raced = {}
  /\ crashes = 0 /\ writes = 0

-----------------------------------------------------------------------------
(* start.sh.                                                               *)

\* The checks hold; those that do not end the container, which is restarted.
ContainerStarts ==
  /\ ~running /\ running' = TRUE
  /\ stage' = [stage EXCEPT ![Api] = "starting"]
  /\ UNCHANGED <<database, own, found, rows, counts>>

\* docker exec.
CommandStarts(p) ==
  /\ p \in Commands /\ running /\ stage[p] = "off" /\ writes < MaxWrites
  /\ stage' = [stage EXCEPT ![p] = "starting"]
  /\ writes' = writes + 1
  /\ UNCHANGED <<database, running, own, found, rows, crashes>>

Goes(p, from, to) == stage[p] = from /\ stage' = [stage EXCEPT ![p] = to]

\* Every process ends, and on Postgres what it has not committed is gone.
StopsAll ==
  /\ running' = FALSE
  /\ stage' = [p \in Starters |-> "off"] /\ own' = [p \in Starters |-> 0]
  /\ found' = [p \in Starters |-> NoneFound]
  /\ UNCHANGED raced

\* An exception in init_db. The API's takes the container with it (start.sh:46).
Dies(p) ==
  IF p = Api THEN StopsAll
  ELSE /\ stage' = [stage EXCEPT ![p] = "off"] /\ own' = [own EXCEPT ![p] = 0]
       /\ found' = [found EXCEPT ![p] = NoneFound]
       /\ UNCHANGED <<running, raced>>

Crash ==
  /\ running /\ crashes < MaxCrashes /\ crashes' = crashes + 1
  /\ StopsAll
  /\ UNCHANGED <<database, history, usage, log, writes>>

-----------------------------------------------------------------------------
(* init_db: the migrations. A version that no script has is replaced by the      *)
(* baseline's when there are tables.                                        *)

Migrate(p) ==
  \/ /\ version = "head" /\ Goes(p, "starting", "migrated")
     /\ UNCHANGED <<database, running, own, found, rows, counts>>
  \/ /\ version = "older" /\ tables = Tables /\ Goes(p, "starting", "migrated")
     /\ version' = "head"
     /\ UNCHANGED <<postgres, tables, running, own, found, rows, counts>>
  \/ /\ version = "none" /\ Goes(p, "starting", "migrating")
     /\ UNCHANGED <<database, running, own, found, rows, counts>>

\* A table that exists already ends the upgrade: no statement looks for it first.
CreateTable(p) ==
  /\ stage[p] = "migrating"
  /\ IF tables # own[p]
     THEN Dies(p) /\ UNCHANGED <<database, history, usage, log, counts>>
     ELSE IF postgres
     THEN /\ tables' = Tables /\ version' = "head"
          /\ stage' = [stage EXCEPT ![p] = "migrated"]
          /\ UNCHANGED <<postgres, running, own, found, rows, counts>>
     ELSE IF tables < Tables
     THEN /\ tables' = tables + 1 /\ own' = [own EXCEPT ![p] = @ + 1]
          /\ UNCHANGED <<postgres, version, running, stage, found, rows, counts>>
     ELSE /\ version' = "head" /\ stage' = [stage EXCEPT ![p] = "migrated"]
          /\ UNCHANGED <<postgres, tables, running, own, found, rows, counts>>

\* bootstrap_builtin_ai_effects: module Effects.
SyncEffects(p) ==
  /\ Goes(p, "migrated", "usage")
  /\ UNCHANGED <<database, running, own, found, rows, counts>>

-----------------------------------------------------------------------------
(* init_db: the entries that results lack.                                   *)

Exist == {r \in Results : history[r] # "absent"}

\* backfill_asset_usage: the results are read ...
ReadUsage(p) ==
  /\ Goes(p, "usage", "writing usage")
  /\ found' = [found EXCEPT ![p] = [r \in {q \in Exist : usage[q] = "none"} |-> history[r]]]
  /\ UNCHANGED <<database, running, own, rows, counts>>

\* Mutant: a result that waits has its photo free.
MappedWithoutPending(status) == IF status = "UPLOADED" THEN "accepted" ELSE "released"

Mapped(status) ==
  CASE status = "PENDING_REVIEW" -> "pending" [] status = "UPLOADED" -> "accepted" [] OTHER -> "released"

\* ... and their entries committed together, unless one is there by now. An error
\* is logged, and init_db goes on.
WriteUsage(p) ==
  /\ Goes(p, "writing usage", "log") /\ found' = [found EXCEPT ![p] = NoneFound]
  /\ \/ /\ \A r \in DOMAIN found[p] : usage[r] = "none"
        /\ usage' = [r \in Results |-> IF r \in DOMAIN found[p] THEN Mapped(found[p][r]) ELSE usage[r]]
        /\ raced' = raced \cup {r \in DOMAIN found[p] : history[r] # found[p][r]}
     \/ /\ DOMAIN found[p] # {}
        /\ raced' = raced \cup DOMAIN found[p] /\ UNCHANGED usage
  /\ UNCHANGED <<database, running, own, history, log, counts>>

\* Mutant: every result is taken for one that has no entry.
WithoutLogAll == Exist

WithoutLog == Exist \ log

\* backfill_effect_statistics_log: the same, ...
ReadLog(p) ==
  /\ Goes(p, "log", "writing log")
  /\ found' = [found EXCEPT ![p] = [r \in WithoutLog |-> history[r]]]
  /\ UNCHANGED <<database, running, own, rows, counts>>

\* ... but an entry that is there by now (task_id is unique) ends init_db.
WriteLog(p) ==
  /\ stage[p] = "writing log"
  /\ IF DOMAIN found[p] \cap log # {}
     THEN Dies(p) /\ UNCHANGED <<database, history, usage, log, counts>>
     ELSE /\ log' = log \cup DOMAIN found[p]
          /\ found' = [found EXCEPT ![p] = NoneFound]
          /\ stage' = [stage EXCEPT ![p] = "ready"]
          /\ UNCHANGED <<database, running, own, history, usage, raced, counts>>

\* The command does its work and ends.
CommandEnds(p) ==
  /\ p \in Commands /\ Goes(p, "ready", "off")
  /\ own' = [own EXCEPT ![p] = 0]
  /\ UNCHANGED <<database, running, found, rows, counts>>

-----------------------------------------------------------------------------
(* What workers and reviews write meanwhile (in full in ResultReview); they need *)
(* the tables, and nobody waits for init_db.                                 *)

Write == version = "head" /\ running /\ writes < MaxWrites /\ writes' = writes + 1
      /\ UNCHANGED <<database, process, crashes>>

\* A worker: the photo is marked, the row has its entry in the log (upsert_history_entry).
Generate(r) ==
  /\ Write /\ history[r] = "absent"
  /\ history' = [history EXCEPT ![r] = "PENDING_REVIEW"]
  /\ usage' = [usage EXCEPT ![r] = "pending"] /\ log' = log \cup {r}
  /\ UNCHANGED raced

\* The bot or the API: the row, and the entry of its photo if there is one.
Decide(r, status, use) ==
  /\ Write /\ history[r] = "PENDING_REVIEW"
  /\ history' = [history EXCEPT ![r] = status]
  /\ usage' = [usage EXCEPT ![r] = IF @ = "none" THEN @ ELSE use]
  /\ UNCHANGED <<log, raced>>

\* like_generation, dislike_generation: an entry is made if there is none.
Rate(r) ==
  /\ Write /\ stage[Api] = "ready" /\ history[r] # "absent"
  /\ log' = log \cup {r}
  /\ UNCHANGED <<history, usage, raced>>

Start(p) == \/ Migrate(p) \/ CreateTable(p) \/ SyncEffects(p)
            \/ ReadUsage(p) \/ WriteUsage(p) \/ ReadLog(p) \/ WriteLog(p)

Next ==
  \/ ContainerStarts \/ Crash
  \/ \E p \in Starters : Start(p)
  \/ \E p \in Commands : CommandStarts(p) \/ CommandEnds(p)
  \/ \E r \in Results : Generate(r) \/ Rate(r)
        \/ Decide(r, "UPLOADED", "accepted") \/ Decide(r, "REJECTED", "released")

Spec == Init /\ [][Next]_vars

FairSpec == Spec /\ WF_vars(ContainerStarts) /\ WF_vars(Start(Api))

-----------------------------------------------------------------------------
(* SQLite keeps what a baseline had created when it was cut off, without a version. *)
Torn == version = "none" /\ tables > 0

(* The API comes up: start.sh may end the container because two processes wrote    *)
(* the same entry or the same table, but the next start, or the one after, gets    *)
(* through. Only a first start on SQLite that was cut off is never repaired.      *)
ComesUp == <>[](stage[Api] = "ready") \/ <>[]Torn

(* Once the API is up the photo of a result that waits is taken, and that of one   *)
(* that was rejected is not, also for results of older releases: except for those *)
(* that were reviewed, or written by another process, between the read of the    *)
(* backfill and its commit.                                               *)
RegistryMatches ==
  stage[Api] = "ready" => \A r \in Results \ raced :
    /\ history[r] = "PENDING_REVIEW" => usage[r] = "pending"
    /\ history[r] \in {"REJECTED", "FAILED"} => usage[r] = "released"
================================================================================
