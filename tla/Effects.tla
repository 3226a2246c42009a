-------------------------------- MODULE Effects ---------------------------------
(***************************************************************************)
(* AI effects: their rows, the synchronization with the effects a release      *)
(* ships (ai_effects_sync.py), the requests that change them                 *)
(* (routes_ai_effects.py), the registry of modules that the API keeps in       *)
(* memory, and the effect presets that name them.                            *)
(*                                                                         *)
(* The API and the scheduler both synchronize when they start; the API serves *)
(* requests after its own. A request reads, commits, and then makes the        *)
(* registry forget what it has, in three steps.                              *)
(***************************************************************************)
EXTENDS Naturals, FiniteSets

CONSTANTS
  Ids,          \* ids of effects
  Seeds,        \* those that the release ships
  Stored,       \* rows that an earlier release may have left
  Bundles,      \* effect presets
  Bodies,       \* what a user may send for one effect ...
  Items,        \* ... and import
  Requests,     \* requests of the API that run at the same time
  MaxRequests,  \* bound: requests that are made
  MaxRestarts   \* bound: restarts of the container

Processes == {"api", "scheduler"}
Unnamed   == "none"   \* an item without a source
Texts     == {"old", "seed", "user"}  \* shipped earlier, shipped now, somebody's own
Sources   == {"builtin", "custom", "imported"}
\* edited: user_modified_at is set.
RowSet    == [source : Sources, text : Texts, enabled : BOOLEAN, edited : BOOLEAN]

EffectsAssumption ==
  /\ IsFiniteSet(Ids) /\ Seeds \subseteq Ids
  /\ \A f \in Stored : DOMAIN f \subseteq Ids /\ \A e \in DOMAIN f : f[e] \in RowSet
  /\ Bodies \subseteq [text : Texts, enabled : BOOLEAN]
  /\ Items \subseteq [text : Texts, enabled : BOOLEAN, source : Sources \cup {Unnamed}]
  /\ {MaxRequests, MaxRestarts} \subseteq Nat

VARIABLES
  effects,   \* rows of ai_effects
  groups,    \* the effects that each preset has enabled
  registry,  \* ids in MODULES of the API, or Unknown
  sync,      \* what each process has read for its synchronization
  job,       \* what each request has read
  jobs,      \* requests so far
  restarts,
  wrote,     \* history: the text that a user gave the effect, or "none"
  touched,   \* history: effects saved after a sync or another request had read them
  missed     \* history: effects deleted while a preset or the registry took them in

historyVars == <<wrote, touched, missed>>
vars == <<effects, groups, registry, sync, job, jobs, restarts, historyVars>>

Unknown == [known |-> FALSE, ids |-> {}]
Holding(ids) == [known |-> TRUE, ids |-> ids]

Rest    == [op |-> "none"]
Waiting == [at |-> "idle", read |-> [e \in {} |-> 0], again |-> FALSE]
Exists(e) == e \in DOMAIN effects

\* A text that a user wrote, and that is marked as such: a built-in that was imported
\* as a new row is not, and releases bring their texts for it.
Owned(row) == row.text = "user" /\ (row.source = "builtin" => row.edited)

TypeOK ==
  /\ DOMAIN effects \subseteq Ids /\ \A e \in DOMAIN effects : effects[e] \in RowSet
  /\ groups \in [Bundles -> SUBSET Ids]
  /\ registry.known \in BOOLEAN /\ registry.ids \subseteq Ids
  /\ \A p \in Processes : sync[p].at \in {"idle", "read", "done", "failed"}
  /\ jobs \in 0..MaxRequests /\ restarts \in 0..MaxRestarts
  /\ wrote \in [Ids -> Texts \cup {"none"}] /\ touched \cup missed \subseteq Ids

Init ==
  /\ effects \in Stored
  /\ groups = [b \in Bundles |-> {}]
  /\ registry = Unknown
  /\ sync = [p \in Processes |-> Waiting]
  /\ job = [r \in Requests |-> Rest] /\ jobs = 0 /\ restarts = 0
  /\ wrote = [e \in Ids |-> IF Exists(e) /\ Owned(effects[e]) THEN "user" ELSE "none"]
  /\ touched = {} /\ missed = {}

-----------------------------------------------------------------------------
(* sync_builtin_ai_effects, when a process starts.                          *)

Reads(p) ==
  /\ sync[p].at = "idle"
  /\ sync' = [sync EXCEPT ![p] = [@ EXCEPT !.at = "read", !.read = effects]]
  /\ UNCHANGED <<effects, groups, registry, job, jobs, restarts, historyVars>>

\* What the session is about to insert and to update.
Missing(p) == Seeds \ DOMAIN sync[p].read
Outdated(p) ==
  {e \in Seeds \cap DOMAIN sync[p].read :
     LET row == sync[p].read[e] IN row.source = "builtin" /\ ~row.edited /\ row.text # "seed"}

Shipped == [source |-> "builtin", text |-> "seed", enabled |-> TRUE, edited |-> FALSE]

Writes(p) ==
  /\ sync[p].at = "read"
  /\ Missing(p) \cap DOMAIN effects = {} /\ Outdated(p) \subseteq DOMAIN effects
  /\ effects' = [e \in DOMAIN effects \cup Missing(p) |->
                   IF e \in Missing(p) THEN Shipped
                   ELSE IF e \in Outdated(p) THEN [effects[e] EXCEPT !.text = "seed"]
                   ELSE effects[e]]
  /\ sync' = [sync EXCEPT ![p] = [Waiting EXCEPT !.at = "done"]]
  /\ UNCHANGED <<groups, registry, job, jobs, restarts, historyVars>>

\* IntegrityError: a row exists by now. It is tried once more, from the start.
Conflict(p) ==
  /\ sync[p].at = "read" /\ Missing(p) \cap DOMAIN effects # {}
  /\ sync' = [sync EXCEPT ![p] = [Waiting EXCEPT !.at = IF sync[p].again THEN "failed" ELSE "idle",
                                                 !.again = TRUE]]
  /\ UNCHANGED <<effects, groups, registry, job, jobs, restarts, historyVars>>

\* A row to update is gone: the process does not start.
Vanished(p) ==
  /\ sync[p].at = "read" /\ ~(Outdated(p) \subseteq DOMAIN effects)
  /\ sync' = [sync EXCEPT ![p] = [Waiting EXCEPT !.at = "failed"]]
  /\ UNCHANGED <<effects, groups, registry, job, jobs, restarts, historyVars>>

\* The container starts again: nothing of the processes is left.
Restart ==
  /\ restarts < MaxRestarts /\ restarts' = restarts + 1
  /\ sync' = [p \in Processes |-> Waiting]
  /\ job' = [r \in Requests |-> Rest]
  /\ registry' = Unknown
  /\ UNCHANGED <<effects, groups, jobs, historyVars>>

-----------------------------------------------------------------------------
(* Requests that write effects.                                            *)

Takes(r, what) ==
  /\ sync["api"].at = "done" /\ job[r] = Rest
  /\ job' = [job EXCEPT ![r] = what]

Begin(r, what) ==
  /\ jobs < MaxRequests /\ jobs' = jobs + 1
  /\ Takes(r, what)
  /\ UNCHANGED <<effects, groups, registry, sync, restarts, historyVars>>

\* marks: user_modified_at gets the time of the request.
Edit(op, e, row, marks) ==
  [op |-> op, at |-> "read", id |-> e, row |-> row, marks |-> marks,
   seen |-> IF Exists(e) THEN effects[e] ELSE row]
Insert(e, row) == Edit("insert", e, row, FALSE)

\* Create and duplicate: a row of the user's own.
Own(body) == [source |-> "custom", text |-> body.text, enabled |-> body.enabled, edited |-> FALSE]
CreateBegins(r, e, body) == ~Exists(e) /\ Begin(r, Insert(e, Own(body)))
DuplicateBegins(r, e, f) == Exists(e) /\ ~Exists(f) /\ Begin(r, Insert(f, Own(effects[e])))

\* A built-in whose text changes is marked.
UpdateBegins(r, e, body) ==
  /\ Exists(e)
  /\ LET marks == effects[e].source = "builtin" /\ body.text # effects[e].text IN
     Begin(r, Edit("update", e, [effects[e] EXCEPT !.text = body.text, !.enabled = body.enabled,
                                                  !.edited = @ \/ marks], marks))

ResetBegins(r, e) ==
  /\ Exists(e) /\ effects[e].source = "builtin" /\ e \in Seeds
  /\ Begin(r, Edit("update", e, [effects[e] EXCEPT !.text = "seed", !.edited = FALSE], FALSE))

\* An item without a source keeps the one of the row that it overwrites.
SourceOf(e, item) ==
  CASE item.source # Unnamed -> item.source
    [] Exists(e) -> effects[e].source
    [] OTHER -> "imported"

\* Mutant: a built-in that is overwritten keeps its mark, or has none.
MarksNothing(e, item) == Exists(e) /\ effects[e].edited

\* A new row has no mark, whatever its source; one that is overwritten has it if it
\* is a built-in then.
Marks(e, item) == Exists(e) /\ SourceOf(e, item) = "builtin"

\* Items whose row exists are skipped if they are not to overwrite it.
ImportBegins(r, e, item) ==
  Begin(r, Edit(IF Exists(e) THEN "update" ELSE "insert", e,
    [source |-> SourceOf(e, item), text |-> item.text, enabled |-> item.enabled,
     edited |-> Marks(e, item)], Marks(e, item)))

InUse(e) == \E b \in Bundles : e \in groups[b]

\* A built-in is only disabled; another one is deleted unless a preset names it.
DeleteBegins(r, e) ==
  /\ Exists(e)
  /\ \/ /\ effects[e].source = "builtin"
        /\ Begin(r, Edit("update", e, [effects[e] EXCEPT !.enabled = FALSE], FALSE))
     \/ /\ effects[e].source # "builtin" /\ ~InUse(e)
        /\ Begin(r, Edit("delete", e, effects[e], FALSE))

\* The commit writes the columns that differ from what was read.
Merged(e, new, seen, marks) ==
  [c \in DOMAIN new |-> IF new[c] # seen[c] \/ (marks /\ c = "edited") THEN new[c] ELSE effects[e][c]]

Syncing == \E p \in Processes : sync[p].at = "read"
\* Somebody else has read the effect and not yet saved it.
Contended(r) == \E q \in Requests \ {r} :
  job[q].op \in {"insert", "update", "delete"} /\ job[q].at = "read" /\ job[q].id = job[r].id
Taking(e) == \E r \in Requests : job[r].op = "save" /\ e \in job[r].ids
Building(e) == \E r \in Requests : job[r].op = "build" /\ e \in job[r].ids

Commit(r) ==
  LET e == job[r].id  new == job[r].row  seen == job[r].seen IN
  /\ job[r].op \in {"insert", "update", "delete"} /\ job[r].at = "read"
  /\ job[r].op = "insert" <=> ~Exists(e)
  /\ job' = [job EXCEPT ![r] = [@ EXCEPT !.at = "committed"]]
  /\ effects' = [f \in (IF job[r].op = "delete" THEN DOMAIN effects \ {e} ELSE DOMAIN effects \cup {e}) |->
                   IF f # e THEN effects[f]
                   ELSE IF job[r].op = "insert" THEN new ELSE Merged(e, new, seen, job[r].marks)]
  /\ wrote' = CASE job[r].op = "insert" -> [wrote EXCEPT ![e] = IF new.source = "builtin" THEN "none" ELSE new.text]
                [] job[r].op = "delete" -> [wrote EXCEPT ![e] = "none"]
                [] job[r].op = "update" ->
                     IF ~new.edited /\ new.source = "builtin" /\ seen.edited THEN [wrote EXCEPT ![e] = "none"]
                     ELSE IF new.text # seen.text THEN [wrote EXCEPT ![e] = new.text] ELSE wrote
  /\ touched' = IF Syncing \/ Contended(r) THEN touched \cup {e} ELSE touched
  /\ missed' = IF job[r].op = "delete" /\ (Taking(e) \/ Building(e)) THEN missed \cup {e} ELSE missed
  /\ UNCHANGED <<groups, registry, sync, jobs, restarts>>

\* The row exists by now, or does not any more; or the database fails.
CommitFails(r) ==
  /\ job[r] # Rest /\ job' = [job EXCEPT ![r] = Rest]
  /\ job[r].op \in {"insert", "update", "delete"} => job[r].at = "read"
  /\ UNCHANGED <<effects, groups, registry, sync, jobs, restarts, historyVars>>

\* Mutant: a deletion does not tell the registry.
InvalidateChanged(r) ==
  /\ job[r].op \in {"insert", "update", "delete"} /\ job[r].at = "committed"
  /\ job' = [job EXCEPT ![r] = Rest]
  /\ registry' = IF job[r].op = "delete" THEN registry ELSE Unknown
  /\ UNCHANGED <<effects, groups, sync, jobs, restarts, historyVars>>

\* MODULES.invalidate
Invalidate(r) ==
  /\ job[r].op \in {"insert", "update", "delete"} /\ job[r].at = "committed"
  /\ job' = [job EXCEPT ![r] = Rest]
  /\ registry' = Unknown
  /\ UNCHANGED <<effects, groups, sync, jobs, restarts, historyVars>>

-----------------------------------------------------------------------------
(* The registry, and the presets that are checked against it.                *)

\* _ensure: the rows are read by the first request that needs the registry ...
BuildBegins(r) ==
  /\ ~registry.known
  /\ Takes(r, [op |-> "build", ids |-> DOMAIN effects])
  /\ UNCHANGED <<effects, groups, registry, sync, jobs, restarts, historyVars>>

\* ... and kept when all modules are built.
Build(r) ==
  /\ job[r].op = "build" /\ job' = [job EXCEPT ![r] = Rest]
  /\ registry' = Holding(job[r].ids)
  /\ UNCHANGED <<effects, groups, sync, jobs, restarts, historyVars>>

\* validate_effects_config: every module that is enabled is known.
Deleting(e) == \E r \in Requests : job[r].op = "delete" /\ job[r].id = e
SaveBegins(r, b, ids) ==
  /\ registry.known /\ ids \subseteq registry.ids
  /\ jobs < MaxRequests /\ jobs' = jobs + 1
  /\ Takes(r, [op |-> "save", preset |-> b, ids |-> ids])
  /\ missed' = missed \cup {e \in ids : Deleting(e)}
  /\ UNCHANGED <<effects, groups, registry, sync, restarts, wrote, touched>>

Save(r) ==
  /\ job[r].op = "save" /\ job' = [job EXCEPT ![r] = Rest]
  /\ groups' = [groups EXCEPT ![job[r].preset] = job[r].ids]
  /\ missed' = missed \cup {e \in job[r].ids : Deleting(e)}
  /\ UNCHANGED <<effects, registry, sync, jobs, restarts, wrote, touched>>

\* A preset that no schedule names is deleted.
Discard(b) ==
  /\ groups[b] # {} /\ groups' = [groups EXCEPT ![b] = {}]
  /\ UNCHANGED <<effects, registry, sync, job, jobs, restarts, historyVars>>

-----------------------------------------------------------------------------
Start(p) == Reads(p) \/ Writes(p) \/ Conflict(p) \/ Vanished(p)

Serve(r) ==
  \/ \E e \in Ids, body \in Bodies : CreateBegins(r, e, body) \/ UpdateBegins(r, e, body)
  \/ \E e \in Ids, item \in Items : ImportBegins(r, e, item)
  \/ \E e \in Ids : ResetBegins(r, e) \/ DeleteBegins(r, e)
  \/ \E e, f \in Ids : DuplicateBegins(r, e, f)
  \/ Commit(r) \/ CommitFails(r) \/ Invalidate(r)
  \/ BuildBegins(r) \/ Build(r)
  \/ \E b \in Bundles, ids \in SUBSET Ids : SaveBegins(r, b, ids)
  \/ Save(r)

Next ==
  \/ \E p \in Processes : Start(p)
  \/ \E r \in Requests : Serve(r)
  \/ \E b \in Bundles : Discard(b)
  \/ Restart

Spec == Init /\ [][Next]_vars

-----------------------------------------------------------------------------
(* What a user wrote stays until that user changes it: releases bring new texts  *)
(* for the built-in effects and leave out those that were edited, whatever order *)
(* the two processes start in. An edit that is saved while a process that starts *)
(* has read the rows and not yet written them is lost to a new release          *)
(* (ai_effects_sync.py:47 and :77), and of two requests that save the same       *)
(* effect together each writes the columns it changed.                        *)
EditedTextKept ==
  \A e \in DOMAIN effects :
    wrote[e] # "none" /\ e \notin touched => effects[e].text = wrote[e]

(* A preset never has an effect enabled that no longer exists: planning drops    *)
(* such an effect silently, and a task without another one fails. Only a          *)
(* deletion that overlaps the save of the preset or the building of the         *)
(* registry does that.                                                       *)
PresetEffectsExist ==
  \A b \in Bundles : groups[b] \subseteq DOMAIN effects \cup missed
================================================================================
