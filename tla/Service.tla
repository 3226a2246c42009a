-------------------------------- MODULE Service ---------------------------------
(***************************************************************************)
(* Eight parts of the service side by side: Schedules, Effects, ImmichClient,    *)
(* ThumbnailCache, TelegramBot, Secrets, Startup and AgentDaemon. They share no   *)
(* state: `part' names the one that moves in a behaviour, and the others stay at  *)
(* their start. A behaviour is thus one of each part (Service_proofs).          *)
(***************************************************************************)
EXTENDS Integers, FiniteSets, Sequences

\* Schedules, and what several parts have.
CONSTANTS Schedules, Presets, Notifications, Requests, Forms, StoredSchedules,
          DaysPerWeek, SlotsPerDay, Zone, Horizon, MaxRequests, MaxCrashes, NoTime, Nobody
\* Effects
CONSTANTS Ids, Seeds, StoredEffects, Bundles, Bodies, Items, MaxRestarts
\* ImmichClient
CONSTANTS Photos, Libraries, Queries, Servers, Size, MaxPages, Tries, MaxFaults, Nothing
\* ThumbnailCache
CONSTANTS Readers, Locks, Contents, TTL, Retention
\* TelegramBot
CONSTANTS MaxPresses, MaxRefusals, MaxChanges
\* Secrets
CONSTANTS Fields, Tokens, Values, MaxSaves, MaxRotations, Empty
\* Startup
CONSTANTS Results, Commands, Backend, Tables, MaxWrites
\* AgentDaemon
CONSTANTS Pids, Stops, MaxBirths

VARIABLES part,
          clock, rows, presets, request, made, tick, crashes, auto, again, by, lost,
          effects, groups, registry, sync, job, jobs, restarts, wrote, touched, missed,
          library, offered, totals, call, faults, written,
          now, picture, meta, entry, at, lockOf, cleaning, torn,
          row, buttons, pressed, confirmed, preset, poller, handled, refusals, changes,
          stored, bots, env, api, saving, saves, rotation, current, saved, mixed,
          postgres, tables, version, running, stage, own, found, history, usage, log, raced,
          ends, writes,
          process, births, told, pidFile, metadata, queued, stop, killed, reused

-----------------------------------------------------------------------------
Calendar == INSTANCE Schedules WITH Stored <- StoredSchedules
Shop     == INSTANCE Effects WITH Stored <- StoredEffects
Client   == INSTANCE ImmichClient
Cache    == INSTANCE ThumbnailCache WITH Requests <- Readers
Bot      == INSTANCE TelegramBot WITH faults <- refusals, MaxFaults <- MaxRefusals
Vault    == INSTANCE Secrets WITH presets <- bots, request <- saving, made <- saves,
                                  MaxRequests <- MaxSaves
Boot     == INSTANCE Startup WITH crashes <- ends, Api <- Backend
Daemon   == INSTANCE AgentDaemon

\* What the eight assume about their constants.
ASSUME ServiceAssumption ==
  /\ Calendar!SchedulesAssumption /\ Shop!EffectsAssumption
  /\ Client!ClientAssumption /\ Cache!CacheAssumption
  /\ Bot!BotAssumption /\ Vault!SecretsAssumption
  /\ Boot!StartupAssumption /\ Daemon!DaemonAssumption

-----------------------------------------------------------------------------
calendarVars == <<clock, rows, presets, request, made, tick, crashes, auto, again, by, lost>>
shopVars     == <<effects, groups, registry, sync, job, jobs, restarts, wrote, touched, missed>>
clientVars   == <<library, offered, totals, call, faults, written>>
cacheVars    == <<now, picture, meta, entry, at, lockOf, cleaning, torn>>
botVars      == <<row, buttons, pressed, confirmed, preset, poller, handled, refusals, changes>>
vaultVars    == <<stored, bots, env, api, saving, saves, rotation, current, saved, mixed>>
bootVars     == <<postgres, tables, version, running, stage, own, found, history, usage, log,
                  raced, ends, writes>>
daemonVars   == <<process, births, told, pidFile, metadata, queued, stop, killed, reused>>
webVars   == <<calendarVars, shopVars, clientVars, cacheVars>>
otherVars == <<botVars, vaultVars, bootVars, daemonVars>>
vars == <<part, webVars, otherVars>>

Init ==
  /\ part \in {"schedules", "effects", "client", "cache", "bot", "secrets", "startup", "daemon"}
  /\ Calendar!Init /\ Shop!Init /\ Client!Init /\ Cache!Init
  /\ Bot!Init /\ Vault!Init /\ Boot!Init /\ Daemon!Init

\* A step of one part, and the parts that it leaves alone.
CalendarMoves == part = "schedules"
  /\ UNCHANGED <<part, shopVars, clientVars, cacheVars, otherVars>>
ShopMoves == part = "effects" /\ UNCHANGED <<part, calendarVars, clientVars, cacheVars, otherVars>>
ClientMoves == part = "client" /\ UNCHANGED <<part, calendarVars, shopVars, cacheVars, otherVars>>
CacheMoves == part = "cache" /\ UNCHANGED <<part, calendarVars, shopVars, clientVars, otherVars>>
BotMoves == part = "bot" /\ UNCHANGED <<part, webVars, vaultVars, bootVars, daemonVars>>
VaultMoves == part = "secrets" /\ UNCHANGED <<part, webVars, botVars, bootVars, daemonVars>>
BootMoves == part = "startup" /\ UNCHANGED <<part, webVars, botVars, vaultVars, daemonVars>>
DaemonMoves == part = "daemon" /\ UNCHANGED <<part, webVars, botVars, vaultVars, bootVars>>

Next ==
  \/ CalendarMoves /\ Calendar!Next
  \/ ShopMoves /\ Shop!Next
  \/ ClientMoves /\ Client!Next
  \/ CacheMoves /\ Cache!Next
  \/ BotMoves /\ Bot!Next
  \/ VaultMoves /\ Vault!Next
  \/ BootMoves /\ Boot!Next
  \/ DaemonMoves /\ Daemon!Next

Spec == Init /\ [][Next]_vars

\* The fairness of Schedules, TelegramBot and Startup. Only one of them moves, and
\* ContainerStarts and Start(Backend) exclude each other: one condition stands for all.
Fairness ==
  WF_vars(\/ CalendarMoves /\ Calendar!Scheduler
          \/ BotMoves /\ Bot!Bot
          \/ BootMoves /\ (Boot!ContainerStarts \/ Boot!Start(Backend)))

FairSpec == Spec /\ Fairness

-----------------------------------------------------------------------------
(* The properties of the eight, by their names.                             *)

\* Schedules: a schedule that exists names presets that exist.
LivePresetsExist == Calendar!LivePresetsExist
\* Schedules: one period of a schedule is enqueued once.
OncePerPeriod == Calendar!OncePerPeriod
\* Schedules: next_run_at is when the scheduler runs the schedule next.
NextRunKept == Calendar!NextRunKept
\* Schedules: a schedule that is due does not stay due.
DueIsServed == Calendar!DueIsServed
\* Effects: a text that a user wrote stays.
EditedTextKept == Shop!EditedTextKept
\* Effects: a preset names no effect that is gone.
PresetEffectsExist == Shop!PresetEffectsExist
\* ImmichClient: a search that finds nothing has seen all there is.
NothingMeansNone == Client!NothingMeansNone
\* ImmichClient: faults neither cost a download nor repeat a write.
FaultsHarmless == Client!FaultsHarmless
\* ThumbnailCache: tag and picture of a cached answer belong together.
TagMatchesPicture == Cache!TagMatchesPicture
\* TelegramBot: every press is handled to its end.
PressHandled == Bot!PressHandled
\* Secrets: every secret is what was saved, under one key.
SecretsSurvive == Vault!SecretsSurvive
\* Startup: the API comes up, whatever ends an init_db.
ComesUp == part = "startup" => Boot!ComesUp
\* Startup: once it is up the registry knows the photos of older results.
RegistryMatches == Boot!RegistryMatches
\* AgentDaemon: --stop signals daemons only.
OnlyDaemonsSignalled == Daemon!OnlyDaemonsSignalled
================================================================================
