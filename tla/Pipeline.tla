------------------------------- MODULE Pipeline --------------------------------
(***************************************************************************)
(* run_generation_pipeline: what a worker does with a task from the choice   *)
(* of its photos to the message about its result. Several workers run it at  *)
(* the same time, each for a task of its own, and share two things: the      *)
(* registry of used photos and the hourly budget of AI calls.                *)
(*                                                                         *)
(* An action is one transaction, or one call of Immich or of a provider.     *)
(* What users do with results is in ResultReview, how tasks come to workers  *)
(* and what a supervisor records is in GenerationQueue.                      *)
(***************************************************************************)
EXTENDS Naturals, FiniteSets

CONSTANTS
  Tasks, Photos,
  Plans,     \* payloads and settings a task may come with
  Limit,     \* ai_vision_hourly_limit and ai_image_hourly_limit
  Earlier,   \* what earlier tasks may have left in the registry
  MaxKills,  \* bound: workers that die
  NoTask

Kinds == {"vision", "image"}

\* wanted: selected_asset_ids; count: source_asset_count of the module;
\* effect: local, local with a caption by AI (museum_archive), or AI;
\* vision: default_ai_provider # "none"; enrich: ai_prompt_enrichment;
\* rank: ai_photo_selection_enabled.
PlanSet == [wanted : SUBSET Photos, count : Nat \ {0}, effect : {"local", "museum", "ai"},
            vision : BOOLEAN, enrich : BOOLEAN, rank : BOOLEAN]

ASSUME PipelineAssumption ==
  /\ IsFiniteSet(Tasks) /\ IsFiniteSet(Photos) /\ NoTask \notin Tasks
  /\ Plans \subseteq PlanSet
  /\ Limit \in [Kinds -> Nat]
  /\ Earlier \subseteq [Photos -> SUBSET {"pending", "accepted", "released"}]
  /\ MaxKills \in Nat

VARIABLES
  stage,    \* where the task's worker is
  plan,     \* its payload
  chosen,   \* page_items, then the source_asset_ids of the module's result
  marks,    \* selected_asset_ids; {} if the registry could not be read
  call,     \* a reservation: none, counted (the lock is held), granted
  tries,    \* attempts of the ranking that are over
  saw,      \* history: the tasks that had marked theirs when it read the registry
  row,      \* generation_history.status
  source,   \* source_asset_ids of the row
  usage,    \* status of the asset_usage entries
  old,      \* statuses of the entries of earlier tasks
  used,     \* ai_usage_events of the last hour
  holder,   \* the session that has updated the row of ai_usage_locks
  kills

taskVars   == <<plan, chosen, marks, tries, saw>>
budgetVars == <<used, holder>>
storeVars  == <<row, source, usage, old>>
vars == <<stage, call, taskVars, budgetVars, storeVars, kills>>

CallStages == {"rank", "describe", "fuse", "caption", "image", "source", "final"}
KindOf(s)  == IF s = "image" THEN "image" ELSE "vision"
\* The stages before anything is marked, those after it, and the ends.
Choosing == {"ready", "search", "rank", "mark"}
Working  == {"describe", "fuse", "caption", "image", "render", "source", "final", "exif",
             "save", "stored", "failing", "releasing"}
Ends     == {"done", "failed", "stuck", "killed"}

Automatic(t) == plan[t].wanted = {}
Entries(t)   == {p \in Photos : usage[t][p] # "none"}
Pending(t)   == {p \in Photos : usage[t][p] = "pending"}

TypeOK ==
  /\ stage \in [Tasks -> Choosing \cup Working \cup Ends]
  /\ plan \in [Tasks -> PlanSet]
  /\ {chosen, marks, source} \subseteq [Tasks -> SUBSET Photos]
  /\ call \in [Tasks -> {"none", "counted", "granted"}]
  /\ tries \in [Tasks -> 0..1]
  /\ saw \in [Tasks -> SUBSET Tasks]
  /\ row \in [Tasks -> {"absent", "RUNNING", "PENDING_REVIEW", "FAILED"}]
  /\ usage \in [Tasks -> [Photos -> {"none", "pending", "released"}]]
  /\ old \in Earlier
  /\ used \in [Kinds -> Nat]
  /\ holder \in [Kinds -> Tasks \cup {NoTask}]
  /\ kills \in 0..MaxKills

Init ==
  /\ stage = [t \in Tasks |-> "ready"]
  /\ plan \in [Tasks -> Plans]
  /\ chosen = [t \in Tasks |-> {}] /\ marks = [t \in Tasks |-> {}]
  /\ source = [t \in Tasks |-> {}]
  /\ call = [t \in Tasks |-> "none"] /\ tries = [t \in Tasks |-> 0]
  /\ saw = [t \in Tasks |-> {}]
  /\ row = [t \in Tasks |-> "absent"]
  /\ usage = [t \in Tasks |-> [p \in Photos |-> "none"]]
  /\ old \in Earlier
  /\ used = [k \in Kinds |-> 0] /\ holder = [k \in Kinds |-> NoTask]
  /\ kills = 0

Goes(t, to) == stage' = [stage EXCEPT ![t] = to]

-----------------------------------------------------------------------------
(* Planning.                                                               *)

Start(t) ==
  /\ stage[t] = "ready" /\ Goes(t, "search")
  /\ row' = [row EXCEPT ![t] = "RUNNING"]
  /\ UNCHANGED <<call, taskVars, budgetVars, source, usage, old, kills>>

\* No effects_config, no active module, an unknown module.
StartFails(t) ==
  /\ stage[t] = "ready" /\ Goes(t, "failed")
  /\ row' = [row EXCEPT ![t] = "FAILED"]
  /\ UNCHANGED <<call, taskVars, budgetVars, source, usage, old, kills>>

-----------------------------------------------------------------------------
(* The choice of the photos. The search is awaited; the registry is read and *)
(* the choice made after it without another await.                           *)

\* get_assets_usage_status and the groups of candidates.
HasPending(p)   == "pending" \in old[p] \/ \E u \in Tasks : p \in Pending(u)
EverAccepted(p) == "accepted" \in old[p]
Returned(p)     == "released" \in old[p] \/ \E u \in Tasks : usage[u][p] = "released"

\* Mutant: an entry of the registry counts only once it is accepted.
FreeAcceptsPending(page) == {p \in page : ~EverAccepted(p) \/ ~HasPending(p)}

Free(page) == {p \in page : ~HasPending(p)}

Groups(page) ==
  LET accepted == {p \in Free(page) : EverAccepted(p)}
      released == {p \in Free(page) \ accepted : Returned(p)}
  IN  <<Free(page) \ (accepted \cup released), released, accepted>>

\* The photos that may come first in priority_list: a set takes photos of a
\* group only after all of the groups before.
Best(page, n) ==
  {c \in SUBSET Free(page) :
     /\ Cardinality(c) = (IF n < Cardinality(Free(page)) THEN n ELSE Cardinality(Free(page)))
     /\ \A i \in 2..3, j \in 1..2 : j < i /\ c \cap Groups(page)[i] # {} => Groups(page)[j] \subseteq c}

\* The first four of the highest group that is not empty.
TopFour(page) ==
  LET top == CHOOSE i \in 1..3 : /\ Groups(page)[i] # {}
                                 /\ \A j \in 1..3 : j < i => Groups(page)[j] = {}
      n   == Cardinality(Groups(page)[top])
  IN  {c \in SUBSET Groups(page)[top] : Cardinality(c) = (IF n > 4 THEN 4 ELSE n)}

Choose(t, c, m, to) ==
  /\ Goes(t, to)
  /\ chosen' = [chosen EXCEPT ![t] = c]
  /\ marks' = [marks EXCEPT ![t] = m]
  /\ UNCHANGED <<call, plan, tries, budgetVars, storeVars, kills>>

Remember(t) == saw' = [saw EXCEPT ![t] = {u \in Tasks : Entries(u) # {}}]

\* search_random_assets answers without a next_page: the loop of three
\* attempts always ends with its first. Four candidates of one group go to
\* the ranking, and all four are marked.
SelectRanked(t) ==
  stage[t] = "search" /\ Automatic(t) /\ \E page \in SUBSET Photos :
    /\ plan[t].rank /\ plan[t].count = 1
    /\ Free(page) # {}
    /\ \E c \in TopFour(page) :
         Choose(t, c, c, IF Cardinality(c) > 1 THEN "rank" ELSE "mark")
    /\ Remember(t)

SelectByPriority(t) ==
  stage[t] = "search" /\ Automatic(t) /\ \E page \in SUBSET Photos :
    /\ ~(plan[t].rank /\ plan[t].count = 1)
    /\ Free(page) # {}
    /\ \E c \in Best(page, plan[t].count) : Choose(t, c, c, "mark")
    /\ Remember(t)

\* The user named the photos: the registry is not asked. Those of them that the
\* search brought are taken, up to the number the module needs.
SelectManual(t) ==
  stage[t] = "search" /\ \E c \in (SUBSET plan[t].wanted) \ {{}} :
    /\ Cardinality(c) <= plan[t].count
    /\ Choose(t, c, c, "mark")
    /\ UNCHANGED saw

\* _recent_source_asset_id_recency: the photos of the latest results.
Recent == UNION {source[u] : u \in Tasks}

\* The registry cannot be read: photos of the latest results are avoided, and
\* nothing will be marked.
SelectWithoutRegistry(t) ==
  stage[t] = "search" /\ Automatic(t) /\ \E page \in (SUBSET Photos) \ {{}} :
    /\ \E c \in (SUBSET page) \ {{}} :
         /\ plan[t].count = 1 /\ page \ Recent # {} => c \subseteq page \ Recent
         /\ Choose(t, c, {}, "mark")
    /\ UNCHANGED saw

\* Nothing was found, or all of it is marked: the task fails and the worker
\* returns.
NothingFound(t) ==
  /\ stage[t] = "search" /\ Goes(t, "failed")
  /\ row' = [row EXCEPT ![t] = "FAILED"]
  /\ UNCHANGED <<call, taskVars, budgetVars, source, usage, old, kills>>

\* Immich does not answer: only the random search of an automatic task is
\* allowed to fail.
SearchFails(t) ==
  /\ stage[t] = "search" /\ Goes(t, "failing")
  /\ UNCHANGED <<call, taskVars, budgetVars, storeVars, kills>>

\* The module's run begins, after the photos were marked.
Applies(t) ==
  CASE plan[t].effect = "local"  -> "render"
    [] plan[t].effect = "museum" -> IF plan[t].vision THEN "caption" ELSE "render"
    [] plan[t].effect = "ai"     -> IF plan[t].enrich /\ plan[t].vision THEN "describe" ELSE "image"

\* Mutant: only the photo that was ranked first is marked.
MarkPendingRanked(t) ==
  /\ stage[t] = "mark" /\ Goes(t, Applies(t))
  /\ \E p \in marks[t] :
       usage' = [usage EXCEPT ![t] = [@ EXCEPT ![p] = IF @ = "none" THEN "pending" ELSE @]]
  /\ marks' = [marks EXCEPT ![t] = {}]
  /\ UNCHANGED <<call, plan, chosen, tries, saw, budgetVars, row, source, old, kills>>

\* record_assets_usage_pending
MarkPending(t) ==
  /\ stage[t] = "mark" /\ Goes(t, Applies(t))
  /\ usage' = [usage EXCEPT ![t] = [p \in Photos |-> IF p \in marks[t] /\ @[p] = "none"
                                                     THEN "pending" ELSE @[p]]]
  /\ marks' = [marks EXCEPT ![t] = {}]
  /\ UNCHANGED <<call, plan, chosen, tries, saw, budgetVars, row, source, old, kills>>

\* It raises, and the exception is logged.
MarkFails(t) ==
  /\ stage[t] = "mark" /\ marks[t] # {} /\ Goes(t, Applies(t))
  /\ marks' = [marks EXCEPT ![t] = {}]
  /\ UNCHANGED <<call, plan, chosen, tries, saw, budgetVars, storeVars, kills>>

-----------------------------------------------------------------------------
(* Calls of AI. Every one of them is reserved first, and nobody else may     *)
(* count the events of its kind between the count and the insertion.         *)

\* Mutant: an answer that cannot be used is asked for again.
AfterRetries(t, outcome) ==
  IF stage[t] = "rank" THEN IF outcome = "error" THEN "rank" ELSE "mark"
  ELSE IF stage[t] = "image" /\ outcome # "ok" THEN "failing" ELSE "exif"

\* The stage that follows a call, by how it ended: ok, refused (the limit is
\* reached) or error. Only the picture itself is needed, and a museum's caption if
\* the limit is reached: the other calls leave their texts out.
Described(t) == IF plan[t].vision THEN "source" ELSE "exif"
RankNext(t, outcome)  == IF outcome = "ok" \/ tries[t] = 1 THEN "mark" ELSE "rank"
DescribeNext(outcome) == IF outcome = "ok" THEN "fuse" ELSE "image"
FuseNext              == "image"
CaptionNext(outcome)  == IF outcome = "refused" THEN "failing" ELSE "render"
ImageNext(t, outcome) == IF outcome = "ok" THEN Described(t) ELSE "failing"
SourceNext(t)         == IF plan[t].effect = "ai" THEN "final" ELSE "exif"
FinalNext             == "exif"

After(t, outcome) ==
  CASE stage[t] = "rank"     -> RankNext(t, outcome)
    [] stage[t] = "describe" -> DescribeNext(outcome)
    [] stage[t] = "fuse"     -> FuseNext
    [] stage[t] = "caption"  -> CaptionNext(outcome)
    [] stage[t] = "image"    -> ImageNext(t, outcome)
    [] stage[t] = "source"   -> SourceNext(t)
    [] stage[t] = "final"    -> FinalNext

\* What the answer changes. The ranking ends with one photo: the one it names,
\* or after two attempts the newest. The picture is made of one of the photos.
Outcome(t, outcome) ==
  /\ Goes(t, After(t, outcome))
  /\ call' = [call EXCEPT ![t] = "none"]
  /\ tries' = [tries EXCEPT ![t] = IF stage[t] = "rank" /\ After(t, outcome) = "rank" THEN 1 ELSE 0]
  /\ IF \/ stage[t] = "rank" /\ After(t, outcome) = "mark"
        \/ stage[t] = "image" /\ outcome = "ok"
     THEN \E p \in chosen[t] : chosen' = [chosen EXCEPT ![t] = {p}]
     ELSE UNCHANGED chosen
  /\ UNCHANGED <<plan, marks, saw, storeVars, kills>>

Asks(t) == stage[t] \in CallStages /\ call[t] = "none"
Kind(t) == KindOf(stage[t])
Frees(t) == holder' = [k \in Kinds |-> IF holder[k] = t THEN NoTask ELSE holder[k]]

\* Mutant: the row of ai_usage_locks is not written before the count.
CountUnlocked(t) ==
  /\ Asks(t) /\ (stage[t] = "rank" => plan[t].vision)
  /\ used[Kind(t)] < Limit[Kind(t)]
  /\ call' = [call EXCEPT ![t] = "counted"]
  /\ UNCHANGED <<stage, taskVars, budgetVars, storeVars, kills>>

\* reserve_ai_usage: the update of the lock row waits for the other sessions
\* that have written theirs; then the events are counted ...
Count(t) ==
  /\ Asks(t) /\ (stage[t] = "rank" => plan[t].vision)
  /\ holder[Kind(t)] = NoTask
  /\ used[Kind(t)] < Limit[Kind(t)]
  /\ holder' = [holder EXCEPT ![Kind(t)] = t]
  /\ call' = [call EXCEPT ![t] = "counted"]
  /\ UNCHANGED <<stage, taskVars, used, storeVars, kills>>

\* ... and the event is inserted in the same transaction.
Grant(t) ==
  /\ call[t] = "counted"
  /\ used' = [used EXCEPT ![Kind(t)] = @ + 1]
  /\ Frees(t)
  /\ call' = [call EXCEPT ![t] = "granted"]
  /\ UNCHANGED <<stage, taskVars, storeVars, kills>>

\* AIUsageLimitExceededError
Refuse(t) ==
  /\ Asks(t) /\ (stage[t] = "rank" => plan[t].vision)
  /\ holder[Kind(t)] = NoTask
  /\ used[Kind(t)] >= Limit[Kind(t)]
  /\ Outcome(t, "refused")
  /\ UNCHANGED budgetVars

\* The answer is used, or it is not what was asked for, or none comes.
Answer(t) ==
  /\ call[t] = "granted"
  /\ Outcome(t, "ok") \/ Outcome(t, "error")
  /\ UNCHANGED budgetVars

\* The call cannot be made: no key, no picture to send, a database that stays
\* locked. With a provider of "none" the ranking has no answer to parse.
CannotAsk(t) ==
  /\ Asks(t)
  /\ Outcome(t, "error")
  /\ UNCHANGED budgetVars

\* An hour has passed since an event.
Hour(k) ==
  /\ used[k] > 0
  /\ used' = [used EXCEPT ![k] = @ - 1]
  /\ UNCHANGED <<stage, call, taskVars, holder, storeVars, kills>>

-----------------------------------------------------------------------------
(* Effects, metadata, the result.                                          *)

\* A local effect works on one photo, a collage on all of them.
Render(t) ==
  /\ stage[t] = "render" /\ Goes(t, Described(t))
  /\ \E c \in {chosen[t]} \cup {{p} : p \in chosen[t]} :
       /\ plan[t].count = 1 => Cardinality(c) = 1
       /\ chosen' = [chosen EXCEPT ![t] = c]
  /\ UNCHANGED <<call, plan, marks, tries, saw, budgetVars, storeVars, kills>>

Embed(t) ==
  /\ stage[t] = "exif" /\ Goes(t, "save")
  /\ UNCHANGED <<call, taskVars, budgetVars, storeVars, kills>>

\* persist_generation_result: the file, then the row; then task_update.
Save(t) ==
  /\ stage[t] = "save" /\ Goes(t, "stored")
  /\ row' = [row EXCEPT ![t] = "PENDING_REVIEW"]
  /\ source' = [source EXCEPT ![t] = chosen[t]]
  /\ chosen' = [chosen EXCEPT ![t] = {}]
  /\ UNCHANGED <<call, plan, marks, tries, saw, budgetVars, usage, old, kills>>

Notify(t) ==
  /\ stage[t] = "stored" /\ Goes(t, "done")
  /\ UNCHANGED <<call, taskVars, budgetVars, storeVars, kills>>

\* An exception of the module, of Immich or of the database; after the result
\* is stored, one of the trace or of a token that cannot be decrypted.
StepFails(t) ==
  /\ stage[t] \in {"render", "exif", "save", "stored"} /\ Goes(t, "failing")
  /\ UNCHANGED <<call, taskVars, budgetVars, storeVars, kills>>

\* Mutant: a failure is recorded without a look at the registry.
FailKeepsMarks(t) ==
  /\ stage[t] = "failing" /\ Goes(t, "failed")
  /\ row' = [row EXCEPT ![t] = "FAILED"]
  /\ chosen' = [chosen EXCEPT ![t] = {}]
  /\ UNCHANGED <<call, plan, marks, tries, saw, budgetVars, source, usage, old, kills>>

\* _record_generation_failure: the rows ...
Fail(t) ==
  /\ stage[t] = "failing" /\ Goes(t, "releasing")
  /\ row' = [row EXCEPT ![t] = "FAILED"]
  /\ chosen' = [chosen EXCEPT ![t] = {}]
  /\ UNCHANGED <<call, plan, marks, tries, saw, budgetVars, source, usage, old, kills>>

\* ... and in another transaction the registry, ...
Release(t) ==
  /\ stage[t] = "releasing" /\ Goes(t, "failed")
  /\ usage' = [usage EXCEPT ![t] = [p \in Photos |-> IF @[p] = "none" THEN "none" ELSE "released"]]
  /\ UNCHANGED <<call, taskVars, budgetVars, row, source, old, kills>>

\* ... whose exception is logged.
ReleaseFails(t) ==
  /\ stage[t] = "releasing" /\ Goes(t, "stuck")
  /\ UNCHANGED <<call, taskVars, budgetVars, storeVars, kills>>

Forgets(t) ==
  /\ chosen' = [chosen EXCEPT ![t] = {}] /\ marks' = [marks EXCEPT ![t] = {}]
  /\ tries' = [tries EXCEPT ![t] = 0]

\* The worker dies or is killed at its timeout: its transaction is rolled back.
Kill(t) ==
  /\ stage[t] \in (Choosing \cup Working) \ {"ready"}
  /\ kills < MaxKills /\ kills' = kills + 1
  /\ Goes(t, "killed") /\ call' = [call EXCEPT ![t] = "none"]
  /\ Frees(t)
  /\ Forgets(t)
  /\ UNCHANGED <<plan, saw, used, storeVars>>

-----------------------------------------------------------------------------
Worker(t) ==
  \/ Start(t) \/ StartFails(t)
  \/ SelectRanked(t) \/ SelectByPriority(t) \/ SelectManual(t) \/ SelectWithoutRegistry(t)
  \/ NothingFound(t) \/ SearchFails(t)
  \/ MarkPending(t) \/ MarkFails(t)
  \/ Count(t) \/ Grant(t) \/ Refuse(t) \/ Answer(t) \/ CannotAsk(t)
  \/ Render(t) \/ Embed(t) \/ Save(t) \/ Notify(t) \/ StepFails(t)
  \/ Fail(t) \/ Release(t) \/ ReleaseFails(t)

Next ==
  \/ \E t \in Tasks : Worker(t) \/ Kill(t)
  \/ \E k \in Kinds : Hour(k)

Spec == Init /\ [][Next]_vars

\* Every call has a timeout, and so has the wait for the lock (CannotAsk): a
\* worker that was started goes on. No particular answer is assumed.
Fairness == \A t \in Tasks : WF_vars(Worker(t))
FairSpec == Spec /\ Fairness

-----------------------------------------------------------------------------
(* No more calls than the limit within an hour, whoever makes them: the       *)
(* workers count and insert in two steps (ai_budget.py).                     *)
BudgetHolds == \A k \in Kinds : used[k] <= Limit[k]

(* The budget does what AIBudget promises: each reservation is one grant.     *)
Budget == INSTANCE AIBudget
ImplementsBudget == Budget!Spec

(* A photo that was marked when an automatic task read the registry is never  *)
(* marked by that task as well while it is; two tasks share one only if each  *)
(* made its choice before the other's mark could be seen, or if a user named  *)
(* the photo.                                                                *)
MarkedPhotosKept ==
  \A t, u \in Tasks : u \in saw[t] => Pending(t) \cap Pending(u) = {}

(* The photos of a stored result are marked for its task, whatever the        *)
(* ranking made of the candidates; unless the registry was out of order.      *)
SourcesAreMarked ==
  \A t \in Tasks : stage[t] \in {"stored", "done"} =>
    Entries(t) = {} \/ source[t] \subseteq Pending(t)

(* A task that failed keeps no photo from the others, at whatever stage it    *)
(* failed; only a registry that cannot be written (stuck) and a worker that    *)
(* was killed leave marks behind.                                            *)
FailureFreesPhotos ==
  \A t \in Tasks : stage[t] = "failed" => Pending(t) = {}

(* A worker that is not killed comes to an end: however its calls are refused  *)
(* or fail, none is repeated without end.                                     *)
EveryWorkerEnds ==
  \A t \in Tasks : stage[t] = "search" ~> stage[t] \in Ends
================================================================================
