--------------------------- MODULE Pipeline_proofs ---------------------------
(***************************************************************************)
(* Proofs about Pipeline, for any number of tasks and photos, any plans and   *)
(* limits: its types, the budget (and that it implements AIBudget), and what  *)
(* becomes of the photos a task has marked.                                  *)
(***************************************************************************)
EXTENDS Pipeline, TLAPS

Stages == Choosing \cup Working \cup Ends

\* Who holds the lock: a worker that has counted, and a call that has been
\* counted may still be granted.
LockInv ==
  \A t \in Tasks :
    /\ call[t] # "none" => stage[t] \in CallStages
    /\ call[t] = "counted" => holder[Kind(t)] = t /\ used[Kind(t)] < Limit[Kind(t)]

LEMMA InitTypeOK == Init => TypeOK
<1> SUFFICES ASSUME Init PROVE TypeOK
  OBVIOUS
<1> USE PipelineAssumption DEF PipelineAssumption, Init, TypeOK
<1>1. stage \in [Tasks -> Choosing \cup Working \cup Ends]
  BY DEF Choosing
<1>2. plan \in [Tasks -> PlanSet]
  OBVIOUS
<1>3. QED BY <1>1, <1>2

\* A step of a task's stage.
LEMMA GoesType ==
  ASSUME TypeOK, NEW t \in Tasks, NEW to \in Stages, Goes(t, to)
  PROVE  stage' \in [Tasks -> Choosing \cup Working \cup Ends]
BY DEF TypeOK, Goes, Stages

\* Where a worker is once a call has ended.
LEMMA AfterStage ==
  ASSUME NEW t, stage[t] \in CallStages, NEW o
  PROVE  /\ After(t, o) \in {"rank", "mark", "fuse", "image", "failing", "render", "source", "final",
                             "exif"}
         /\ After(t, o) \in {"rank", "mark"} <=> stage[t] = "rank"
BY DEF After, CallStages, RankNext, DescribeNext, FuseNext, CaptionNext, ImageNext,
       SourceNext, FinalNext, Described

LEMMA AppliesStage ==
  ASSUME TypeOK, NEW t \in Tasks
  PROVE  Applies(t) \in {"render", "caption", "describe", "image"}
BY DEF TypeOK, Applies, PlanSet

LEMMA OutcomeType ==
  ASSUME TypeOK, NEW t \in Tasks, stage[t] \in CallStages, NEW o, Outcome(t, o),
         UNCHANGED budgetVars
  PROVE  TypeOK'
<1>1. stage' \in [Tasks -> Choosing \cup Working \cup Ends]
  BY AfterStage, GoesType DEF Outcome, Stages, Choosing, Working
<1>2. chosen' \in [Tasks -> SUBSET Photos]
  <2>1. chosen \in [Tasks -> SUBSET Photos]
    BY DEF TypeOK
  <2>2. \/ UNCHANGED chosen
        \/ \E p \in chosen[t] : chosen' = [chosen EXCEPT ![t] = {p}]
    BY DEF Outcome
  <2>3. QED BY <2>1, <2>2
<1>3. /\ call' \in [Tasks -> {"none", "counted", "granted"}]
      /\ tries' \in [Tasks -> 0..1]
  BY DEF Outcome, TypeOK
<1>4. QED BY <1>1, <1>2, <1>3 DEF Outcome, TypeOK, budgetVars, storeVars

\* The choice of photos is a choice among those that are free.
LEMMA GroupsAreFree ==
  ASSUME NEW page \in SUBSET Photos
  PROVE  /\ Free(page) \subseteq Photos
         /\ \A i \in 1..3 : Groups(page)[i] \subseteq Free(page)
         /\ Free(page) # {} => \E i \in 1..3 : Groups(page)[i] # {}
<1>1. Free(page) \subseteq Photos
  BY DEF Free
<1>2. \A i \in 1..3 : i = 1 \/ i = 2 \/ i = 3
  OBVIOUS
<1>3. \A i \in 1..3 : Groups(page)[i] \subseteq Free(page)
  BY <1>2 DEF Groups
<1>4. Groups(page)[1] \cup Groups(page)[2] \cup Groups(page)[3] = Free(page)
  BY DEF Groups
<1>5. QED BY <1>1, <1>3, <1>4

LEMMA ChoiceIsFree ==
  ASSUME NEW page \in SUBSET Photos
  PROVE  /\ Free(page) # {} => \A c \in TopFour(page) : c \subseteq Free(page)
         /\ \A n : \A c \in Best(page, n) : c \subseteq Free(page)
<1>1. ASSUME Free(page) # {}, NEW c \in TopFour(page)
      PROVE  c \subseteq Free(page)
  <2> DEFINE First(i) == /\ Groups(page)[i] # {}
                         /\ \A j \in 1..3 : j < i => Groups(page)[j] = {}
             top == CHOOSE i \in 1..3 : First(i)
  <2>1. \E i \in 1..3 : First(i)
    <3>1. First(1) \/ First(2) \/ First(3)
      BY <1>1, GroupsAreFree
    <3>2. QED BY <3>1
  <2>2. top \in 1..3
    BY <2>1
  <2>3. c \subseteq Groups(page)[top]
    BY <1>1 DEF TopFour
  <2>4. QED BY <2>2, <2>3, GroupsAreFree
<1>2. \A n : \A c \in Best(page, n) : c \subseteq Free(page)
  BY DEF Best
<1>3. QED BY <1>1, <1>2

\* The steps that choose photos: those that read the registry, and the others.
Informed(t)   == SelectRanked(t) \/ SelectByPriority(t)
Uninformed(t) == SelectManual(t) \/ SelectWithoutRegistry(t)

LEMMA InformedChoice ==
  ASSUME NEW t \in Tasks, Informed(t)
  PROVE  /\ stage[t] = "search"
         /\ Remember(t)
         /\ \E c \in SUBSET Photos, to \in {"rank", "mark"} :
              /\ Choose(t, c, c, to)
              /\ \A p \in c : ~HasPending(p)
<1>1. CASE SelectRanked(t)
  <2>1. PICK page \in SUBSET Photos :
          /\ Free(page) # {}
          /\ \E c \in TopFour(page) :
               Choose(t, c, c, IF Cardinality(c) > 1 THEN "rank" ELSE "mark")
    BY <1>1 DEF SelectRanked
  <2>2. PICK c \in TopFour(page) : Choose(t, c, c, "rank") \/ Choose(t, c, c, "mark")
    BY <2>1
  <2>3. c \subseteq Free(page)
    BY <2>1, ChoiceIsFree
  <2>4. c \in SUBSET Photos /\ \A p \in c : ~HasPending(p)
    BY <2>3 DEF Free
  <2>5. QED BY <1>1, <2>2, <2>4 DEF SelectRanked
<1>2. CASE SelectByPriority(t)
  <2>1. PICK page \in SUBSET Photos : \E c \in Best(page, plan[t].count) : Choose(t, c, c, "mark")
    BY <1>2 DEF SelectByPriority
  <2>2. PICK c \in Best(page, plan[t].count) : Choose(t, c, c, "mark")
    BY <2>1
  <2>3. c \subseteq Free(page)
    BY ChoiceIsFree
  <2>4. c \in SUBSET Photos /\ \A p \in c : ~HasPending(p)
    BY <2>3 DEF Free
  <2>5. QED BY <1>2, <2>2, <2>4 DEF SelectByPriority
<1>3. QED BY <1>1, <1>2 DEF Informed

LEMMA UninformedChoice ==
  ASSUME TypeOK, NEW t \in Tasks, Uninformed(t)
  PROVE  /\ stage[t] = "search" /\ UNCHANGED saw
         /\ \E c \in SUBSET Photos : Choose(t, c, c, "mark") \/ Choose(t, c, {}, "mark")
<1>1. CASE SelectManual(t)
  <2>1. plan[t].wanted \in SUBSET Photos
    BY DEF TypeOK, PlanSet
  <2>2. QED BY <1>1, <2>1 DEF SelectManual
<1>2. CASE SelectWithoutRegistry(t)
  BY <1>2 DEF SelectWithoutRegistry
<1>3. QED BY <1>1, <1>2 DEF Uninformed

LEMMA ChooseType ==
  ASSUME TypeOK, NEW t \in Tasks, NEW c \in SUBSET Photos, NEW m \in SUBSET Photos,
         NEW to \in {"rank", "mark"}, Choose(t, c, m, to),
         saw' \in [Tasks -> SUBSET Tasks]
  PROVE  TypeOK'
<1>1. stage' \in [Tasks -> Choosing \cup Working \cup Ends]
  BY GoesType DEF Choose, Stages, Choosing
<1>2. chosen' \in [Tasks -> SUBSET Photos] /\ marks' \in [Tasks -> SUBSET Photos]
  BY DEF Choose, TypeOK
<1>3. QED BY <1>1, <1>2 DEF Choose, TypeOK, budgetVars, storeVars

LEMMA WorkerTypeOK ==
  ASSUME TypeOK, LockInv, NEW t \in Tasks, Worker(t)
  PROVE  TypeOK'
<1>0. TypeOK
  OBVIOUS
<1>g. ASSUME NEW to \in Stages, Goes(t, to)
      PROVE  stage' \in [Tasks -> Choosing \cup Working \cup Ends]
  BY <1>g, GoesType
\* A step that writes the stage and the row at most.
<1>s. ASSUME NEW to \in Stages, Goes(t, to),
             \/ UNCHANGED row
             \/ \E s \in {"RUNNING", "PENDING_REVIEW", "FAILED"} : row' = [row EXCEPT ![t] = s],
             \/ UNCHANGED chosen
             \/ \E c \in SUBSET Photos : chosen' = [chosen EXCEPT ![t] = c],
             UNCHANGED <<call, plan, marks, tries, saw, budgetVars, source, usage, old, kills>>
      PROVE  TypeOK'
  <2>1. row' \in [Tasks -> {"absent", "RUNNING", "PENDING_REVIEW", "FAILED"}]
    BY <1>s DEF TypeOK
  <2>2. chosen' \in [Tasks -> SUBSET Photos]
    BY <1>s DEF TypeOK
  <2>3. QED BY <1>s, <1>g, <2>1, <2>2 DEF TypeOK, budgetVars
<1> USE DEF taskVars, storeVars, Stages, Choosing, Working, Ends
<1>1. CASE Start(t) \/ StartFails(t)
  BY <1>1, <1>s DEF Start, StartFails
<1>2. CASE Informed(t)
  <2>1. PICK c \in SUBSET Photos, to \in {"rank", "mark"} : Choose(t, c, c, to)
    BY <1>2, InformedChoice
  <2>2. saw' \in [Tasks -> SUBSET Tasks]
    <3>1. Remember(t)
      BY <1>2, InformedChoice
    <3>2. QED BY <1>0, <3>1 DEF Remember, TypeOK
  <2>3. QED BY <2>1, <2>2, ChooseType
<1>3. CASE Uninformed(t)
  <2>1. saw' \in [Tasks -> SUBSET Tasks]
    BY <1>3, UninformedChoice DEF TypeOK
  <2>2. QED BY <1>3, <2>1, UninformedChoice, ChooseType
<1>4. CASE NothingFound(t) \/ SearchFails(t)
  BY <1>4, <1>s DEF NothingFound, SearchFails
<1>5. CASE MarkPending(t)
  <2>1. stage' \in [Tasks -> Choosing \cup Working \cup Ends]
    BY <1>5, <1>g, AppliesStage DEF MarkPending
  <2>2. usage' \in [Tasks -> [Photos -> {"none", "pending", "released"}]]
    BY <1>5 DEF MarkPending, TypeOK
  <2>3. marks' \in [Tasks -> SUBSET Photos]
    BY <1>5 DEF MarkPending, TypeOK
  <2>4. QED BY <1>5, <2>1, <2>2, <2>3 DEF MarkPending, TypeOK, budgetVars
<1>6. CASE MarkFails(t)
  <2>1. stage' \in [Tasks -> Choosing \cup Working \cup Ends]
    BY <1>6, <1>g, AppliesStage DEF MarkFails
  <2>2. marks' \in [Tasks -> SUBSET Photos]
    BY <1>6 DEF MarkFails, TypeOK
  <2>3. QED BY <1>6, <2>1, <2>2 DEF MarkFails, TypeOK, budgetVars
<1>7. CASE Count(t)
  <2>1. Kind(t) \in Kinds
    BY DEF Kind, KindOf, Kinds
  <2>2. holder' \in [Kinds -> Tasks \cup {NoTask}] /\ call' \in [Tasks -> {"none", "counted", "granted"}]
    BY <1>7, <2>1 DEF Count, TypeOK
  <2>3. QED BY <1>7, <2>2 DEF Count, TypeOK
<1>8. CASE Grant(t)
  <2>1. Kind(t) \in Kinds
    BY DEF Kind, KindOf, Kinds
  <2>2. used' \in [Kinds -> Nat]
    BY <1>8, <2>1 DEF Grant, TypeOK
  <2>3. holder' \in [Kinds -> Tasks \cup {NoTask}] /\ call' \in [Tasks -> {"none", "counted", "granted"}]
    BY <1>8, <2>1 DEF Grant, Frees, TypeOK
  <2>4. QED BY <1>8, <2>2, <2>3 DEF Grant, TypeOK
<1>9. CASE Refuse(t) \/ Answer(t) \/ CannotAsk(t)
  <2>1. stage[t] \in CallStages
    BY <1>9 DEF Refuse, Answer, CannotAsk, Asks, LockInv
  <2>2. QED BY <1>0, <1>9, <2>1, OutcomeType DEF Refuse, Answer, CannotAsk
<1>10. CASE Render(t)
  <2>1. Described(t) \in Stages
    BY DEF Described
  <2>2. \E c \in SUBSET Photos : chosen' = [chosen EXCEPT ![t] = c]
    <3>1. chosen[t] \in SUBSET Photos
      BY DEF TypeOK
    <3>2. \A c \in {chosen[t]} \cup {{p} : p \in chosen[t]} : c \in SUBSET Photos
      BY <3>1
    <3>3. QED BY <1>10, <3>2 DEF Render
  <2>3. QED BY <1>10, <1>s, <2>1, <2>2 DEF Render
<1>11. CASE Embed(t) \/ Notify(t) \/ StepFails(t)
  BY <1>11, <1>s DEF Embed, Notify, StepFails
<1>12. CASE Save(t)
  <2>1. source' \in [Tasks -> SUBSET Photos] /\ chosen' \in [Tasks -> SUBSET Photos]
    BY <1>12 DEF Save, TypeOK
  <2>2. row' \in [Tasks -> {"absent", "RUNNING", "PENDING_REVIEW", "FAILED"}]
    BY <1>12 DEF Save, TypeOK
  <2>3. stage' \in [Tasks -> Choosing \cup Working \cup Ends]
    BY <1>12, <1>g DEF Save
  <2>4. QED BY <1>12, <2>1, <2>2, <2>3 DEF Save, TypeOK, budgetVars
<1>13. CASE Fail(t)
  BY <1>13, <1>s DEF Fail
<1>14. CASE Release(t)
  <2>1. usage' \in [Tasks -> [Photos -> {"none", "pending", "released"}]]
    BY <1>14 DEF Release, TypeOK
  <2>2. stage' \in [Tasks -> Choosing \cup Working \cup Ends]
    BY <1>14, <1>g DEF Release
  <2>3. QED BY <1>14, <2>1, <2>2 DEF Release, TypeOK, budgetVars
<1>15. CASE ReleaseFails(t)
  BY <1>15, <1>s DEF ReleaseFails
<1>16. QED
  BY <1>1, <1>2, <1>3, <1>4, <1>5, <1>6, <1>7, <1>8, <1>9, <1>10, <1>11, <1>12, <1>13, <1>14, <1>15
  DEF Worker, Informed, Uninformed

LEMMA NextTypeOK == TypeOK /\ LockInv /\ [Next]_vars => TypeOK'
<1> SUFFICES ASSUME TypeOK, LockInv, [Next]_vars PROVE TypeOK'
  OBVIOUS
<1>1. ASSUME NEW t \in Tasks, Worker(t) PROVE TypeOK'
  BY <1>1, WorkerTypeOK
<1>2. ASSUME NEW t \in Tasks, Kill(t) PROVE TypeOK'
  <2>1. stage' \in [Tasks -> Choosing \cup Working \cup Ends]
    BY <1>2, GoesType DEF Kill, Stages, Ends
  <2>2. kills' \in 0..MaxKills
    BY <1>2, PipelineAssumption DEF Kill, TypeOK, PipelineAssumption
  <2>3. holder' \in [Kinds -> Tasks \cup {NoTask}]
    BY <1>2 DEF Kill, Frees, TypeOK
  <2>4. /\ chosen' \in [Tasks -> SUBSET Photos] /\ marks' \in [Tasks -> SUBSET Photos]
        /\ tries' \in [Tasks -> 0..1] /\ call' \in [Tasks -> {"none", "counted", "granted"}]
    BY <1>2 DEF Kill, Forgets, TypeOK
  <2>5. QED BY <1>2, <2>1, <2>2, <2>3, <2>4 DEF Kill, TypeOK, storeVars
<1>3. ASSUME NEW k \in Kinds, Hour(k) PROVE TypeOK'
  <2>1. used' \in [Kinds -> Nat]
    BY <1>3 DEF Hour, TypeOK
  <2>2. QED BY <1>3, <2>1 DEF Hour, TypeOK, taskVars, storeVars
<1>4. CASE UNCHANGED vars
  BY <1>4 DEF vars, TypeOK, taskVars, budgetVars, storeVars
<1>5. QED BY <1>1, <1>2, <1>3, <1>4 DEF Next

-----------------------------------------------------------------------------
(* The budget.                                                             *)

LEMMA KindType == \A t \in Tasks : Kind(t) \in Kinds
BY DEF Kind, KindOf, Kinds

\* Steps that do not reserve: a call may end, no other call is begun, and a
\* worker that is asking stays where it is.
LEMMA NothingReserved ==
  ASSUME LockInv, UNCHANGED budgetVars,
         \A t \in Tasks : call'[t] = "none" \/ (call'[t] = call[t] /\ stage'[t] = stage[t])
  PROVE  LockInv'
BY DEF LockInv, budgetVars, Kind

\* What a step of a worker does to the reservations.
LEMMA WorkerKeepsCalls ==
  ASSUME TypeOK, LockInv, NEW t \in Tasks, Worker(t), ~Count(t), ~Grant(t)
  PROVE  /\ UNCHANGED budgetVars
         /\ \A u \in Tasks : call'[u] = "none" \/ (call'[u] = call[u] /\ stage'[u] = stage[u])
<1>t. /\ stage \in [Tasks -> Choosing \cup Working \cup Ends]
      /\ call \in [Tasks -> {"none", "counted", "granted"}]
  BY DEF TypeOK
<1>s. ASSUME stage[t] \notin CallStages, NEW to, Goes(t, to), UNCHANGED <<call, budgetVars>>
      PROVE  /\ UNCHANGED budgetVars
             /\ \A u \in Tasks : call'[u] = "none" \/ (call'[u] = call[u] /\ stage'[u] = stage[u])
  BY <1>t, <1>s DEF Goes, LockInv
<1> USE DEF CallStages
<1>1. CASE Refuse(t) \/ Answer(t) \/ CannotAsk(t)
  <2>1. UNCHANGED budgetVars /\ \E o : Outcome(t, o)
    BY <1>1 DEF Refuse, Answer, CannotAsk
  <2>2. QED BY <1>t, <2>1 DEF Outcome, Goes
<1>2. CASE Start(t) \/ StartFails(t) \/ NothingFound(t) \/ SearchFails(t) \/ MarkPending(t)
           \/ MarkFails(t)
  BY <1>2, <1>s DEF Start, StartFails, NothingFound, SearchFails, MarkPending, MarkFails
<1>3. CASE Informed(t)
  <2>1. stage[t] = "search" /\ \E to : Goes(t, to) /\ UNCHANGED <<call, budgetVars>>
    BY <1>3, InformedChoice DEF Choose
  <2>2. QED BY <1>s, <2>1
<1>4. CASE Uninformed(t)
  <2>1. stage[t] = "search" /\ \E to : Goes(t, to) /\ UNCHANGED <<call, budgetVars>>
    BY <1>4, UninformedChoice DEF Choose
  <2>2. QED BY <1>s, <2>1
<1>5. CASE Render(t) \/ Embed(t) \/ Save(t) \/ Notify(t) \/ StepFails(t) \/ Fail(t) \/ Release(t)
           \/ ReleaseFails(t)
  BY <1>5, <1>s DEF Render, Embed, Save, Notify, StepFails, Fail, Release, ReleaseFails
<1>6. QED BY <1>1, <1>2, <1>3, <1>4, <1>5 DEF Worker, Informed, Uninformed

LEMMA NextLockInv == TypeOK /\ LockInv /\ [Next]_vars => LockInv'
<1> SUFFICES ASSUME TypeOK, LockInv, [Next]_vars PROVE LockInv'
  OBVIOUS
<1>t. /\ call \in [Tasks -> {"none", "counted", "granted"}]
      /\ stage \in [Tasks -> Choosing \cup Working \cup Ends]
      /\ holder \in [Kinds -> Tasks \cup {NoTask}] /\ used \in [Kinds -> Nat]
      /\ NoTask \notin Tasks /\ Limit \in [Kinds -> Nat]
  BY PipelineAssumption DEF TypeOK, PipelineAssumption
<1>1. ASSUME NEW t \in Tasks, Count(t) PROVE LockInv'
  <2>1. \A u \in Tasks : Kind(u)' = Kind(u)
    BY <1>1 DEF Count, Kind
  <2>2. \A u \in Tasks : call'[u] # "none" => stage'[u] \in CallStages
    BY <1>t, <1>1 DEF Count, Asks, LockInv
  <2>3. ASSUME NEW u \in Tasks, call'[u] = "counted"
        PROVE  holder'[Kind(u)] = u /\ used'[Kind(u)] < Limit[Kind(u)]
    <3>1. CASE u = t
      BY <1>t, <1>1, <3>1, KindType DEF Count
    <3>2. CASE u # t
      BY <1>t, <1>1, <2>3, <3>2, KindType DEF Count, LockInv
    <3>3. QED BY <3>1, <3>2
  <2>4. QED BY <2>1, <2>2, <2>3 DEF LockInv
<1>2. ASSUME NEW t \in Tasks, Grant(t) PROVE LockInv'
  <2>1. \A u \in Tasks : Kind(u)' = Kind(u)
    BY <1>2 DEF Grant, Kind
  <2>2. \A u \in Tasks : call'[u] # "none" => stage'[u] \in CallStages
    BY <1>t, <1>2 DEF Grant, LockInv
  <2>3. ASSUME NEW u \in Tasks, call'[u] = "counted"
        PROVE  holder'[Kind(u)] = u /\ used'[Kind(u)] < Limit[Kind(u)]
    <3>1. u # t /\ call[u] = "counted"
      BY <1>t, <1>2, <2>3 DEF Grant
    <3>2. holder[Kind(u)] = u /\ holder[Kind(t)] = t
      BY <1>2, <3>1 DEF Grant, LockInv
    <3>3. QED BY <1>t, <1>2, <3>1, <3>2, KindType DEF Grant, Frees, LockInv
  <2>4. QED BY <2>1, <2>2, <2>3 DEF LockInv
<1>3. ASSUME NEW t \in Tasks, Worker(t), ~Count(t), ~Grant(t) PROVE LockInv'
  BY <1>3, WorkerKeepsCalls, NothingReserved
<1>4. ASSUME NEW t \in Tasks, Kill(t) PROVE LockInv'
  <2>1. \A u \in Tasks \ {t} : call'[u] = call[u] /\ stage'[u] = stage[u] /\ Kind(u)' = Kind(u)
    BY <1>t, <1>4 DEF Kill, Goes, Kind
  <2>2. call'[t] = "none" /\ UNCHANGED used
    BY <1>t, <1>4 DEF Kill
  <2>3. \A u \in Tasks \ {t} : holder[Kind(u)] = u => holder'[Kind(u)] = u
    BY <1>t, <1>4, KindType DEF Kill, Frees
  <2>4. QED BY <2>1, <2>2, <2>3 DEF LockInv
<1>5. ASSUME NEW k \in Kinds, Hour(k) PROVE LockInv'
  <2>1. \A u \in Tasks : Kind(u)' = Kind(u)
    BY <1>5 DEF Hour, Kind
  <2>2. \A j \in Kinds : used[j] < Limit[j] => used'[j] < Limit[j]
    BY <1>t, <1>5 DEF Hour
  <2>3. QED BY <1>5, <2>1, <2>2, KindType DEF Hour, LockInv
<1>6. CASE UNCHANGED vars
  BY <1>6, NothingReserved DEF vars
<1>7. QED BY <1>1, <1>2, <1>3, <1>4, <1>5, <1>6 DEF Next

\* What a step does to the events of the last hour.
LEMMA BudgetStep ==
  ASSUME TypeOK, LockInv, [Next]_vars
  PROVE  \/ UNCHANGED used
         \/ \E k \in Kinds : Budget!Grant(k) \/ Budget!Expire(k)
<1>1. ASSUME NEW t \in Tasks, Grant(t)
      PROVE  \E k \in Kinds : Budget!Grant(k)
  <2>1. used[Kind(t)] < Limit[Kind(t)]
    BY <1>1 DEF Grant, LockInv
  <2>2. Budget!Grant(Kind(t))
    BY <1>1, <2>1 DEF Grant, Budget!Grant
  <2>3. QED BY <2>2, KindType
<1>2. ASSUME NEW t \in Tasks, Count(t) PROVE UNCHANGED used
  BY <1>2 DEF Count
<1>3. ASSUME NEW t \in Tasks, Worker(t), ~Count(t), ~Grant(t) PROVE UNCHANGED used
  BY <1>3, WorkerKeepsCalls DEF budgetVars
<1>4. ASSUME NEW t \in Tasks, Kill(t) PROVE UNCHANGED used
  BY <1>4 DEF Kill
<1>5. ASSUME NEW k \in Kinds, Hour(k) PROVE Budget!Expire(k)
  BY <1>5 DEF Hour, Budget!Expire
<1>6. CASE UNCHANGED vars
  BY <1>6 DEF vars, budgetVars
<1>7. QED BY <1>1, <1>2, <1>3, <1>4, <1>5, <1>6 DEF Next

LEMMA InitBudget == Init => LockInv /\ BudgetHolds /\ Budget!Init
<1> SUFFICES ASSUME Init PROVE LockInv /\ BudgetHolds /\ Budget!Init
  OBVIOUS
<1>1. LockInv
  BY DEF Init, LockInv
<1>2. BudgetHolds
  BY PipelineAssumption DEF Init, BudgetHolds, PipelineAssumption
<1>3. QED BY <1>1, <1>2 DEF Init, Budget!Init

LEMMA NextBudgetHolds == TypeOK /\ LockInv /\ BudgetHolds /\ [Next]_vars => BudgetHolds'
<1> SUFFICES ASSUME TypeOK, LockInv, BudgetHolds, [Next]_vars PROVE BudgetHolds'
  OBVIOUS
<1>t. used \in [Kinds -> Nat] /\ Limit \in [Kinds -> Nat]
  BY PipelineAssumption DEF TypeOK, PipelineAssumption
<1>1. CASE UNCHANGED used
  BY <1>1 DEF BudgetHolds
<1>2. ASSUME NEW k \in Kinds, Budget!Grant(k) PROVE BudgetHolds'
  BY <1>t, <1>2 DEF BudgetHolds, Budget!Grant
<1>3. ASSUME NEW k \in Kinds, Budget!Expire(k) PROVE BudgetHolds'
  BY <1>t, <1>3 DEF BudgetHolds, Budget!Expire
<1>4. QED BY <1>1, <1>2, <1>3, BudgetStep

-----------------------------------------------------------------------------
(* The photos.                                                             *)

\* Of one task: nothing is marked while it chooses; it will mark what it has
\* chosen, or nothing; its picture is made of marked photos, or of photos none
\* of which is marked.
Keeps(t) ==
  /\ stage[t] \in {"ready", "search"} => saw[t] = {}
  /\ stage[t] \in Choosing => Entries(t) = {}
  /\ stage[t] \in {"rank", "mark"} => marks[t] = {} \/ chosen[t] \subseteq marks[t]
  /\ stage[t] \in Working \ {"stored", "failing", "releasing"} =>
       Entries(t) = {} \/ chosen[t] \subseteq Pending(t)
  /\ stage[t] \in {"stored", "done"} => Entries(t) = {} \/ source[t] \subseteq Pending(t)
  /\ stage[t] = "failed" => Pending(t) = {}

\* Of two tasks, one of which has seen what the other had marked: the other
\* marks nothing any more, and what the first will mark is none of it.
Apart(t, u) ==
  /\ u # t
  /\ Entries(u) # {}
  /\ stage[t] \in {"rank", "mark"} => marks[t] \cap Pending(u) = {}
  /\ Pending(t) \cap Pending(u) = {}

PhotoInv ==
  /\ \A t \in Tasks : Keeps(t)
  /\ \A t, u \in Tasks : u \in saw[t] => Apart(t, u)

LEMMA InitPhotoInv == Init => PhotoInv
BY DEF Init, PhotoInv, Keeps, Entries, Pending, Working

\* A step of one worker: what is the others' stays.
OthersKeep(t) ==
  \A u \in Tasks \ {t} :
    /\ stage'[u] = stage[u] /\ chosen'[u] = chosen[u] /\ marks'[u] = marks[u]
    /\ saw'[u] = saw[u] /\ source'[u] = source[u] /\ usage'[u] = usage[u]

LEMMA OthersKept ==
  ASSUME TypeOK, NEW t \in Tasks, Worker(t) \/ Kill(t)
  PROVE  OthersKeep(t)
<1>t. /\ stage \in [Tasks -> Choosing \cup Working \cup Ends]
      /\ chosen \in [Tasks -> SUBSET Photos] /\ marks \in [Tasks -> SUBSET Photos]
      /\ source \in [Tasks -> SUBSET Photos] /\ saw \in [Tasks -> SUBSET Tasks]
      /\ usage \in [Tasks -> [Photos -> {"none", "pending", "released"}]]
  BY DEF TypeOK
<1> USE DEF OthersKeep, taskVars, storeVars
<1>1. CASE Start(t) \/ StartFails(t) \/ NothingFound(t) \/ SearchFails(t)
  BY <1>t, <1>1 DEF Start, StartFails, NothingFound, SearchFails, Goes
<1>2. CASE Informed(t)
  <2>1. Remember(t) /\ \E c, to : Choose(t, c, c, to)
    BY <1>2, InformedChoice
  <2>2. \A u \in Tasks \ {t} : saw'[u] = saw[u]
    BY <1>t, <2>1 DEF Remember
  <2>3. QED BY <1>t, <2>1, <2>2 DEF Choose, Goes
<1>3. CASE Uninformed(t)
  <2>1. UNCHANGED saw /\ \E c, m : Choose(t, c, m, "mark")
    BY <1>3, UninformedChoice
  <2>2. QED BY <1>t, <2>1 DEF Choose, Goes
<1>4. CASE MarkPending(t) \/ MarkFails(t)
  <2>1. \A u \in Tasks \ {t} : usage'[u] = usage[u]
    BY <1>t, <1>4 DEF MarkPending, MarkFails
  <2>2. QED BY <1>t, <1>4, <2>1 DEF MarkPending, MarkFails, Goes
<1>5. CASE Count(t) \/ Grant(t)
  BY <1>5 DEF Count, Grant
<1>6. CASE Refuse(t) \/ Answer(t) \/ CannotAsk(t)
  <2>1. PICK o : Outcome(t, o)
    BY <1>6 DEF Refuse, Answer, CannotAsk
  <2>2. \A u \in Tasks \ {t} : chosen'[u] = chosen[u]
    BY <1>t, <2>1 DEF Outcome
  <2>3. QED BY <1>t, <2>1, <2>2 DEF Outcome, Goes
<1>7. CASE Render(t) \/ Embed(t) \/ Save(t) \/ Notify(t) \/ StepFails(t)
  BY <1>t, <1>7 DEF Render, Embed, Save, Notify, StepFails, Goes
<1>8. CASE Fail(t) \/ Release(t) \/ ReleaseFails(t)
  <2>1. \A u \in Tasks \ {t} : usage'[u] = usage[u]
    BY <1>t, <1>8 DEF Fail, Release, ReleaseFails
  <2>2. QED BY <1>t, <1>8, <2>1 DEF Fail, Release, ReleaseFails, Goes
<1>9. CASE Kill(t)
  BY <1>t, <1>9 DEF Kill, Forgets, Goes
<1>10. QED
  BY <1>1, <1>2, <1>3, <1>4, <1>5, <1>6, <1>7, <1>8, <1>9 DEF Worker, Informed, Uninformed

\* So the invariant of each of the others stays true.
LEMMA OthersKeepKeeps ==
  ASSUME NEW t \in Tasks, OthersKeep(t), NEW u \in Tasks \ {t}, Keeps(u)
  PROVE  Keeps(u)'
<1>1. Entries(u)' = Entries(u) /\ Pending(u)' = Pending(u)
  BY DEF OthersKeep, Entries, Pending
<1>2. QED BY <1>1 DEF OthersKeep, Keeps

\* Steps that see nothing and mark nothing.
LEMMA StayApart ==
  ASSUME PhotoInv, UNCHANGED saw,
         \A u \in Tasks : Pending(u)' \subseteq Pending(u) /\ Entries(u)' = Entries(u),
         \A u \in Tasks : stage'[u] \in {"rank", "mark"} =>
                            \/ saw[u] = {}
                            \/ stage[u] \in {"rank", "mark"} /\ marks'[u] \subseteq marks[u]
  PROVE  \A t, u \in Tasks : u \in saw'[t] => Apart(t, u)'
<1> SUFFICES ASSUME NEW t \in Tasks, NEW u \in Tasks, u \in saw'[t]
             PROVE  Apart(t, u)'
  OBVIOUS
<1>1. Apart(t, u)
  BY DEF PhotoInv
<1>2. Entries(u)' # {}
  BY <1>1 DEF Apart
<1>3. stage'[t] \in {"rank", "mark"} => marks'[t] \cap Pending(u)' = {}
  BY <1>1 DEF Apart
<1>4. Pending(t)' \cap Pending(u)' = {}
  BY <1>1 DEF Apart
<1>5. QED BY <1>1, <1>2, <1>3, <1>4 DEF Apart

LEMMA OwnKeeps ==
  ASSUME TypeOK, LockInv, NEW t \in Tasks, Keeps(t), Worker(t) \/ Kill(t)
  PROVE  Keeps(t)'
<1>t. /\ stage \in [Tasks -> Choosing \cup Working \cup Ends]
      /\ chosen \in [Tasks -> SUBSET Photos] /\ marks \in [Tasks -> SUBSET Photos]
      /\ source \in [Tasks -> SUBSET Photos] /\ saw \in [Tasks -> SUBSET Tasks]
      /\ usage \in [Tasks -> [Photos -> {"none", "pending", "released"}]]
  BY DEF TypeOK
<1>k. Keeps(t)
  OBVIOUS
<1>g. ASSUME NEW to, Goes(t, to) PROVE stage'[t] = to
  BY <1>t, <1>g DEF Goes
<1>e. ASSUME UNCHANGED usage PROVE Entries(t)' = Entries(t) /\ Pending(t)' = Pending(t)
  BY <1>e DEF Entries, Pending
<1>n. Pending(t) \subseteq Entries(t)
  BY DEF Entries, Pending
<1> USE DEF taskVars, storeVars, Choosing, Working
<1>1. CASE Start(t) \/ StartFails(t) \/ NothingFound(t) \/ SearchFails(t)
  <2>1. UNCHANGED <<chosen, marks, saw, source, usage>> /\ stage[t] \in {"ready", "search"} /\
        (stage'[t] \in {"failed", "failing"} \/ stage'[t] = "search")
    BY <1>1, <1>g DEF Start, StartFails, NothingFound, SearchFails
  <2>2. QED BY <1>k, <1>e, <1>n, <2>1 DEF Keeps
<1>2. CASE Informed(t)
  <2>1. PICK c \in SUBSET Photos, to \in {"rank", "mark"} : Choose(t, c, c, to)
    BY <1>2, InformedChoice
  <2>2. stage[t] = "search" /\ stage'[t] \in {"rank", "mark"} /\ chosen'[t] = c /\ marks'[t] = c /\
        UNCHANGED <<source, usage>>
    BY <1>2, <1>t, <1>g, <2>1, InformedChoice DEF Choose
  <2>3. QED BY <1>k, <1>e, <2>2 DEF Keeps
<1>3. CASE Uninformed(t)
  <2>1. PICK c \in SUBSET Photos : Choose(t, c, c, "mark") \/ Choose(t, c, {}, "mark")
    BY <1>3, UninformedChoice
  <2>2. stage[t] = "search" /\ stage'[t] = "mark" /\ chosen'[t] = c /\ marks'[t] \in {c, {}} /\
        UNCHANGED <<source, usage>>
    BY <1>3, <1>t, <1>g, <2>1, UninformedChoice DEF Choose
  <2>3. QED BY <1>k, <1>e, <2>2 DEF Keeps
<1>4. CASE MarkPending(t)
  <2>1. /\ stage[t] = "mark" /\ stage'[t] = Applies(t) /\ UNCHANGED <<chosen, saw, source>>
        /\ usage'[t] = [p \in Photos |-> IF p \in marks[t] /\ usage[t][p] = "none"
                                         THEN "pending" ELSE usage[t][p]]
    BY <1>4, <1>t, <1>g DEF MarkPending
  <2>2. \A p \in Photos : usage[t][p] = "none"
    BY <1>k, <2>1 DEF Keeps, Entries
  <2>3. Entries(t)' = marks[t] /\ Pending(t)' = marks[t]
    BY <1>t, <2>1, <2>2 DEF Entries, Pending
  <2>4. marks[t] = {} \/ chosen'[t] \subseteq marks[t]
    BY <1>k, <2>1 DEF Keeps
  <2>5. QED BY <2>1, <2>3, <2>4, AppliesStage DEF Keeps
<1>5. CASE MarkFails(t)
  <2>1. stage[t] = "mark" /\ stage'[t] = Applies(t) /\ UNCHANGED <<chosen, saw, source, usage>>
    BY <1>5, <1>g DEF MarkFails
  <2>2. Entries(t)' = {}
    BY <1>k, <1>e, <2>1 DEF Keeps
  <2>3. QED BY <2>1, <2>2, AppliesStage DEF Keeps
<1>6. CASE Count(t) \/ Grant(t)
  BY <1>6, <1>k, <1>e DEF Count, Grant, Keeps
<1>7. CASE Refuse(t) \/ Answer(t) \/ CannotAsk(t)
  <2>1. PICK o : Outcome(t, o)
    BY <1>7 DEF Refuse, Answer, CannotAsk
  <2>2. stage[t] \in CallStages
    BY <1>7 DEF Refuse, Answer, CannotAsk, Asks, LockInv
  <2>3. stage'[t] = After(t, o) /\ UNCHANGED <<marks, saw, source, usage>>
    BY <1>g, <2>1 DEF Outcome
  <2>4. chosen'[t] \subseteq chosen[t]
    <3>1. UNCHANGED chosen \/ \E p \in chosen[t] : chosen' = [chosen EXCEPT ![t] = {p}]
      BY <2>1 DEF Outcome
    <3>2. QED BY <1>t, <3>1
  <2>5. CASE stage[t] = "rank"
    <3>1. stage'[t] \in {"rank", "mark"}
      BY <2>2, <2>3, <2>5, AfterStage
    <3>2. QED BY <1>k, <1>e, <2>3, <2>4, <2>5, <3>1 DEF Keeps
  <2>6. CASE stage[t] # "rank"
    <3>1. stage'[t] \in {"fuse", "image", "failing", "render", "source", "final", "exif"}
      BY <2>2, <2>3, <2>6, AfterStage
    <3>2. stage[t] \in Working \ {"stored", "failing", "releasing"}
      BY <2>2, <2>6 DEF CallStages
    <3>3. QED BY <1>k, <1>e, <2>3, <2>4, <3>1, <3>2 DEF Keeps
  <2>7. QED BY <2>5, <2>6
<1>8. CASE Render(t)
  <2>1. stage[t] = "render" /\ stage'[t] = Described(t) /\ UNCHANGED <<marks, saw, source, usage>>
    BY <1>8, <1>g DEF Render
  <2>2. chosen'[t] \subseteq chosen[t]
    BY <1>8, <1>t DEF Render
  <2>3. QED BY <1>k, <1>e, <2>1, <2>2 DEF Keeps, Described
<1>9. CASE Embed(t)
  BY <1>9, <1>k, <1>e, <1>g DEF Embed, Keeps
<1>10. CASE Save(t)
  <2>1. stage[t] = "save" /\ stage'[t] = "stored" /\ source'[t] = chosen[t] /\
        UNCHANGED <<marks, saw, usage>>
    BY <1>10, <1>t, <1>g DEF Save
  <2>2. QED BY <1>k, <1>e, <2>1 DEF Keeps
<1>11. CASE Notify(t) \/ StepFails(t) \/ ReleaseFails(t)
  BY <1>11, <1>k, <1>e, <1>g DEF Notify, StepFails, ReleaseFails, Keeps
<1>12. CASE Fail(t)
  BY <1>12, <1>k, <1>e, <1>g DEF Fail, Keeps
<1>13. CASE Release(t)
  <2>1. stage'[t] = "failed" /\ Pending(t)' = {}
    BY <1>13, <1>t, <1>g DEF Release, Pending
  <2>2. QED BY <2>1 DEF Keeps
<1>14. CASE Kill(t)
  BY <1>14, <1>g DEF Kill, Keeps
<1>15. QED
  BY <1>1, <1>2, <1>3, <1>4, <1>5, <1>6, <1>7, <1>8, <1>9, <1>10, <1>11, <1>12, <1>13, <1>14
  DEF Worker, Informed, Uninformed

\* A worker that reads the registry sees what is marked, and takes none of it.
LEMMA SeeingIsApart ==
  ASSUME TypeOK, PhotoInv, NEW t \in Tasks, Informed(t)
  PROVE  \A v, u \in Tasks : u \in saw'[v] => Apart(v, u)'
<1> SUFFICES ASSUME NEW v \in Tasks, NEW u \in Tasks, u \in saw'[v]
             PROVE  Apart(v, u)'
  OBVIOUS
<1>t. /\ saw \in [Tasks -> SUBSET Tasks] /\ marks \in [Tasks -> SUBSET Photos]
      /\ stage \in [Tasks -> Choosing \cup Working \cup Ends]
  BY DEF TypeOK
<1>1. PICK c \in SUBSET Photos, to \in {"rank", "mark"} :
        Choose(t, c, c, to) /\ \A p \in c : ~HasPending(p)
  BY InformedChoice
<1>2. stage[t] = "search" /\ Remember(t) /\ UNCHANGED usage
  BY <1>1, InformedChoice DEF Choose, storeVars
<1>3. \A w \in Tasks : Entries(w)' = Entries(w) /\ Pending(w)' = Pending(w)
  BY <1>2 DEF Entries, Pending
<1>4. CASE v = t
  <2>1. Entries(u) # {}
    BY <1>t, <1>2, <1>4 DEF Remember
  <2>2. Entries(t) = {} /\ Pending(t) = {}
    BY <1>2 DEF PhotoInv, Keeps, Choosing, Entries, Pending
  <2>3. marks'[t] \cap Pending(u) = {}
    BY <1>t, <1>1 DEF Choose, HasPending
  <2>4. QED BY <1>3, <1>4, <2>1, <2>2, <2>3 DEF Apart
<1>5. CASE v # t
  <2>1. u \in saw[v] /\ stage'[v] = stage[v] /\ marks'[v] = marks[v]
    BY <1>t, <1>1, <1>2, <1>5 DEF Remember, Choose, Goes
  <2>2. QED BY <1>3, <2>1 DEF PhotoInv, Apart
<1>6. QED BY <1>4, <1>5

\* A worker that marks its photos: nobody who has seen others' marks is
\* disturbed, for the seen mark nothing any more.
LEMMA MarkingIsApart ==
  ASSUME TypeOK, PhotoInv, NEW t \in Tasks, MarkPending(t)
  PROVE  \A v, u \in Tasks : u \in saw'[v] => Apart(v, u)'
<1> SUFFICES ASSUME NEW v \in Tasks, NEW u \in Tasks, u \in saw'[v]
             PROVE  Apart(v, u)'
  OBVIOUS
<1>t. /\ marks \in [Tasks -> SUBSET Photos]
      /\ stage \in [Tasks -> Choosing \cup Working \cup Ends]
      /\ usage \in [Tasks -> [Photos -> {"none", "pending", "released"}]]
  BY DEF TypeOK
<1>1. Apart(v, u) /\ stage[t] = "mark"
  BY DEF MarkPending, PhotoInv
<1>2. \A w \in Tasks \ {t} :
        /\ Entries(w)' = Entries(w) /\ Pending(w)' = Pending(w)
        /\ stage'[w] = stage[w] /\ marks'[w] = marks[w]
  BY <1>t DEF MarkPending, Goes, Entries, Pending
<1>3. u # t
  BY <1>1 DEF PhotoInv, Keeps, Choosing, Apart
<1>4. Pending(t)' \subseteq Pending(t) \cup marks[t]
  BY <1>t DEF MarkPending, Pending
<1>5. stage'[t] \notin {"rank", "mark"}
  BY <1>t, AppliesStage DEF MarkPending, Goes
<1>6. QED BY <1>1, <1>2, <1>3, <1>4, <1>5 DEF Apart

\* The other steps of workers leave the registry as it is, or free photos.
LEMMA OthersStayApart ==
  ASSUME TypeOK, LockInv, PhotoInv, NEW t \in Tasks, Worker(t) \/ Kill(t),
         ~Informed(t), ~MarkPending(t)
  PROVE  /\ UNCHANGED saw
         /\ \A u \in Tasks : Pending(u)' \subseteq Pending(u) /\ Entries(u)' = Entries(u)
         /\ \A u \in Tasks : stage'[u] \in {"rank", "mark"} =>
                              \/ saw[u] = {}
                              \/ stage[u] \in {"rank", "mark"} /\ marks'[u] \subseteq marks[u]
<1>t. /\ stage \in [Tasks -> Choosing \cup Working \cup Ends]
      /\ marks \in [Tasks -> SUBSET Photos]
      /\ usage \in [Tasks -> [Photos -> {"none", "pending", "released"}]]
  BY DEF TypeOK
<1>u. ASSUME UNCHANGED usage
      PROVE  \A u \in Tasks : Pending(u)' \subseteq Pending(u) /\ Entries(u)' = Entries(u)
  BY <1>u DEF Pending, Entries
<1>s. ASSUME NEW to, to \notin {"rank", "mark"}, Goes(t, to),
             \A u \in Tasks \ {t} : marks'[u] = marks[u]
      PROVE  \A u \in Tasks : stage'[u] \in {"rank", "mark"} =>
                               stage[u] \in {"rank", "mark"} /\ marks'[u] \subseteq marks[u]
  BY <1>t, <1>s DEF Goes
<1>o. \A u \in Tasks \ {t} : marks'[u] = marks[u]
  BY OthersKept DEF OthersKeep
<1> USE DEF taskVars, storeVars
<1>1. CASE Start(t) \/ StartFails(t) \/ NothingFound(t) \/ SearchFails(t)
  BY <1>1, <1>u, <1>s, <1>o DEF Start, StartFails, NothingFound, SearchFails
<1>2. CASE Uninformed(t)
  <2>1. UNCHANGED saw /\ stage[t] = "search" /\ \E c, m : Choose(t, c, m, "mark")
    BY <1>2, UninformedChoice
  <2>2. saw[t] = {}
    BY <2>1 DEF PhotoInv, Keeps
  <2>3. UNCHANGED usage /\ \A u \in Tasks \ {t} : stage'[u] = stage[u]
    BY <1>t, <2>1 DEF Choose, Goes
  <2>4. QED BY <1>u, <1>o, <2>1, <2>2, <2>3
<1>3. CASE MarkFails(t)
  <2>1. Applies(t) \notin {"rank", "mark"}
    BY AppliesStage
  <2>2. QED BY <1>3, <1>u, <1>s, <1>o, <2>1 DEF MarkFails
<1>4. CASE Count(t) \/ Grant(t)
  BY <1>4, <1>u DEF Count, Grant
<1>5. CASE Refuse(t) \/ Answer(t) \/ CannotAsk(t)
  <2>1. PICK o : Outcome(t, o)
    BY <1>5 DEF Refuse, Answer, CannotAsk
  <2>2. stage[t] \in CallStages
    BY <1>5 DEF Refuse, Answer, CannotAsk, Asks, LockInv
  <2>3. stage'[t] \in {"rank", "mark"} => stage[t] = "rank"
    BY <1>t, <2>1, <2>2, AfterStage DEF Outcome, Goes
  <2>4. \A u \in Tasks \ {t} : stage'[u] = stage[u]
    BY <1>t, <2>1 DEF Outcome, Goes
  <2>5. UNCHANGED <<marks, saw, usage>>
    BY <2>1 DEF Outcome
  <2>6. QED BY <1>u, <2>3, <2>4, <2>5
<1>6. CASE Render(t)
  <2>1. Described(t) \notin {"rank", "mark"}
    BY DEF Described
  <2>2. QED BY <1>6, <1>u, <1>s, <2>1 DEF Render
<1>7. CASE Embed(t) \/ Save(t) \/ Notify(t) \/ StepFails(t) \/ Fail(t) \/ ReleaseFails(t)
  BY <1>7, <1>u, <1>s DEF Embed, Save, Notify, StepFails, Fail, ReleaseFails
<1>8. CASE Release(t)
  <2>1. \A u \in Tasks : Pending(u)' \subseteq Pending(u) /\ Entries(u)' = Entries(u)
    BY <1>t, <1>8 DEF Release, Pending, Entries
  <2>2. QED BY <1>8, <1>s, <2>1 DEF Release
<1>9. CASE Kill(t)
  BY <1>9, <1>u, <1>s, <1>o DEF Kill
<1>10. QED
  BY <1>1, <1>2, <1>3, <1>4, <1>5, <1>6, <1>7, <1>8, <1>9 DEF Worker, Uninformed, Informed

LEMMA NextPhotoInv == TypeOK /\ LockInv /\ PhotoInv /\ [Next]_vars => PhotoInv'
<1> SUFFICES ASSUME TypeOK, LockInv, PhotoInv, [Next]_vars PROVE PhotoInv'
  OBVIOUS
<1>1. ASSUME NEW t \in Tasks, Worker(t) \/ Kill(t) PROVE PhotoInv'
  <2>1. \A u \in Tasks : Keeps(u)
    BY DEF PhotoInv
  <2>2. \A u \in Tasks \ {t} : Keeps(u)'
    BY <1>1, <2>1, OthersKept, OthersKeepKeeps
  <2>3. Keeps(t)'
    BY <1>1, <2>1, OwnKeeps
  <2>4. \A v, u \in Tasks : u \in saw'[v] => Apart(v, u)'
    BY <1>1, SeeingIsApart, MarkingIsApart, OthersStayApart, StayApart
  <2>5. QED BY <2>2, <2>3, <2>4 DEF PhotoInv
<1>2. CASE UNCHANGED <<stage, chosen, marks, saw, source, usage>>
  BY <1>2 DEF PhotoInv, Keeps, Apart, Entries, Pending
<1>3. ASSUME NEW k \in Kinds, Hour(k) PROVE PhotoInv'
  BY <1>2, <1>3 DEF Hour, taskVars, storeVars
<1>4. CASE UNCHANGED vars
  BY <1>2, <1>4 DEF vars, taskVars, storeVars
<1>5. QED BY <1>1, <1>3, <1>4 DEF Next

-----------------------------------------------------------------------------
\* The inductive invariant.
PipelineInv == TypeOK /\ LockInv /\ BudgetHolds /\ PhotoInv

LEMMA PipelineInvariant == Spec => []PipelineInv
<1>1. Init => PipelineInv
  BY InitTypeOK, InitBudget, InitPhotoInv DEF PipelineInv
<1>2. PipelineInv /\ [Next]_vars => PipelineInv'
  BY NextTypeOK, NextLockInv, NextBudgetHolds, NextPhotoInv DEF PipelineInv
<1>3. QED BY <1>1, <1>2, PTL DEF Spec

\* Every variable of the workers keeps its type.
THEOREM PipelineTypeCorrect == Spec => []TypeOK
<1>1. PipelineInv => TypeOK
  BY DEF PipelineInv
<1>2. QED BY <1>1, PipelineInvariant, PTL

\* However many workers ask at once, no more calls are granted than the limit.
THEOREM BudgetNeverExceeded == Spec => []BudgetHolds
<1>1. PipelineInv => BudgetHolds
  BY DEF PipelineInv
<1>2. QED BY <1>1, PipelineInvariant, PTL

\* reserve_ai_usage, in its two steps, is the atomic reservation of AIBudget.
THEOREM RefinesBudget == Spec => ImplementsBudget
<1>1. Init => Budget!Init
  BY InitBudget
<1>2. PipelineInv /\ [Next]_vars => [Budget!Next]_used
  BY BudgetStep DEF PipelineInv, Budget!Next
<1>3. QED BY <1>1, <1>2, PipelineInvariant, PTL DEF Spec, ImplementsBudget, Budget!Spec

\* What was marked when the registry was read is not marked a second time.
THEOREM PhotosMarkedOnce == Spec => []MarkedPhotosKept
<1>1. PipelineInv => MarkedPhotosKept
  BY DEF PipelineInv, PhotoInv, Apart, MarkedPhotosKept
<1>2. QED BY <1>1, PipelineInvariant, PTL

\* A stored picture is made of photos that are marked for its task.
THEOREM StoredSourcesMarked == Spec => []SourcesAreMarked
<1>1. PipelineInv => SourcesAreMarked
  BY DEF PipelineInv, PhotoInv, Keeps, SourcesAreMarked
<1>2. QED BY <1>1, PipelineInvariant, PTL

\* A failure at any stage leaves no photo marked.
THEOREM FailuresFreePhotos == Spec => []FailureFreesPhotos
<1>1. PipelineInv => FailureFreesPhotos
  BY DEF PipelineInv, PhotoInv, Keeps, FailureFreesPhotos
<1>2. QED BY <1>1, PipelineInvariant, PTL
=============================================================================
