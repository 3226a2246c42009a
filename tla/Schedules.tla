------------------------------- MODULE Schedules --------------------------------
(***************************************************************************)
(* Schedules and the presets they name: the requests of the API that write    *)
(* them (routes_schedules.py, routes_presets.py), the tick of the scheduler    *)
(* that turns a due schedule into a task, and the calendar both of them use    *)
(* (schedule_parser.py).                                                    *)
(*                                                                         *)
(* A request reads in one step and commits in another: nothing keeps other    *)
(* requests or the scheduler from committing in between, and a save writes    *)
(* only the columns that differ from what it has read. What happens to the    *)
(* tasks is in GenerationQueue.                                             *)
(***************************************************************************)
EXTENDS Integers, FiniteSets

CONSTANTS
  Schedules,        \* ids of rows
  Presets,          \* ids of people and effect presets ...
  Notifications,    \* ... and of notification presets
  Requests,         \* requests of the API that run at the same time
  Forms,            \* what a save may ask for
  Stored,           \* schedules there may be at the start
  DaysPerWeek, SlotsPerDay,
  Zone,             \* slots that the local time is ahead of UTC
  Horizon,          \* bound: slots the clock runs for
  MaxRequests,      \* bound: requests that are made
  MaxCrashes,       \* bound: restarts of the scheduler
  NoTime, Nobody

Moments == 0..Horizon
Names   == Presets \cup Notifications

\* kind@days@time; an expression that cannot be parsed is "weekly" and not valid.
ExprSet == [kind : {"daily", "weekly", "days"}, days : SUBSET (0..(DaysPerWeek - 1)),
            at : 0..(SlotsPerDay - 1) \cup {NoTime}, valid : BOOLEAN]

FormSet == [enabled : BOOLEAN, expr : ExprSet, preset : Presets, notes : SUBSET Notifications]

\* preset stands for people_preset_id and for effect_preset_id, which are treated
\* alike; notes are the notification_presets.
RowSet == [enabled : BOOLEAN, deleted : BOOLEAN, expr : ExprSet,
           preset : Presets, notes : SUBSET Notifications,
           last : Int \cup {NoTime}, next : Int \cup {NoTime}]

SchedulesAssumption ==
  /\ IsFiniteSet(Schedules) /\ IsFiniteSet(Names) /\ Presets \cap Notifications = {}
  /\ DaysPerWeek \in Nat \ {0} /\ SlotsPerDay \in Nat \ {0}
  /\ Zone \in 0..(SlotsPerDay - 1)
  /\ {Horizon, MaxRequests, MaxCrashes} \subseteq Nat
  /\ Forms \subseteq FormSet
  /\ \A f \in Stored : DOMAIN f \subseteq Schedules /\ \A s \in DOMAIN f : f[s] \in RowSet
  /\ NoTime \notin Int /\ Nobody \notin Schedules

VARIABLES
  clock,    \* now, in slots
  rows,     \* the schedules that were created
  presets,  \* rows of the preset tables
  request,  \* what each request of the API has read
  made,     \* requests so far
  tick,     \* the scheduler
  crashes,
  auto,     \* history: ticks that enqueued the schedule since its last change of expression
  again,    \* history: schedules enqueued twice for one period
  by,       \* history: who wrote next_run_at last
  lost      \* history: presets deleted while a save that names them overlapped

scheduleVars == <<rows, presets>>
historyVars  == <<auto, again, by, lost>>
vars == <<clock, rows, presets, request, made, tick, crashes, historyVars>>

-----------------------------------------------------------------------------
(* The calendar. Days begin at midnight of the zone that the moment is given  *)
(* in: _local_now for the scheduler and for a save, UTC for a run-now.        *)

Day(m, z)     == (m + z) \div SlotsPerDay
Weekday(d)    == d % DaysPerWeek
Week(m, z)    == Day(m, z) \div DaysPerWeek
Midnight      == 0
At(x)         == IF x.at = NoTime THEN Midnight ELSE x.at
\* _scheduled_moment
On(d, x, z)   == d * SlotsPerDay + At(x) - z

\* should_run_automation. The kind "daily" ignores its days; a schedule that has
\* never run is due.
OnDay(x, d) == x.kind = "daily" \/ Weekday(d) \in x.days
ShouldRun(x, last, now) ==
  LET d == Day(now, Zone) IN
  last # NoTime =>
    IF x.kind = "daily" /\ x.at = NoTime THEN Day(last, Zone) < d
    ELSE IF x.kind # "daily" /\ x.days = {} THEN Week(last, Zone) < Week(now, Zone)
    ELSE OnDay(x, d) /\ On(d, x, Zone) <= now /\ last < On(d, x, Zone)

\* _compute_next_run
Before(last, m) == last = NoTime \/ last < m
\* Mutant: the moment that has just come is upcoming.
UpcomingNow(x, last, now, z) ==
  {m \in {On(d, x, z) : d \in Day(now, z)..(Day(now, z) + 2 * DaysPerWeek)} :
     /\ m >= now
     /\ Weekday(Day(m, z)) \in x.days}

Upcoming(x, last, now, z) ==
  {m \in {On(d, x, z) : d \in Day(now, z)..(Day(now, z) + 2 * DaysPerWeek)} :
     /\ m > now /\ Before(last, m)
     /\ Weekday(Day(m, z)) \in x.days}
First(S) == CHOOSE m \in S : \A n \in S : m <= n
NextRun(x, last, now, z) ==
  LET today == On(Day(now, z), x, z) IN
  CASE ~x.valid -> NoTime
    [] x.valid /\ x.kind = "daily" ->
         IF now < today /\ Before(last, today) THEN today ELSE today + SlotsPerDay
    [] x.valid /\ x.kind # "daily" /\ x.days # {} ->
         IF Upcoming(x, last, now, z) = {} THEN NoTime ELSE First(Upcoming(x, last, now, z))
    [] OTHER ->
         IF last = NoTime THEN now + DaysPerWeek * SlotsPerDay
         ELSE On(Day(now, z) + DaysPerWeek, x, z)

-----------------------------------------------------------------------------
Refs(row) == {row.preset} \cup row.notes
Live(s) == s \in DOMAIN rows /\ ~rows[s].deleted
Uses(p) == \E s \in DOMAIN rows : p \in Refs(rows[s])

Idle == [op |-> "none"]
Saves(r)    == request[r].op \in {"create", "update"}
Dropping(r) == request[r].op = "drop"

TypeOK ==
  /\ clock \in Moments
  /\ DOMAIN rows \subseteq Schedules /\ \A s \in DOMAIN rows : rows[s] \in RowSet
  /\ presets \subseteq Names
  /\ made \in 0..MaxRequests /\ crashes \in 0..MaxCrashes
  /\ tick.at \in {"idle", "loop", "queued"} /\ tick.left \subseteq DOMAIN rows
  /\ lost \subseteq Names /\ again \subseteq Schedules

Init ==
  /\ clock = 0
  /\ rows \in Stored
  /\ presets = Names
  /\ request = [r \in Requests |-> Idle] /\ made = 0
  /\ tick = [at |-> "idle", now |-> 0, left |-> {}, seen |-> [s \in {} |-> Idle], cur |-> Nobody]
  /\ crashes = 0
  /\ auto = [s \in Schedules |-> {}] /\ again = {}
  /\ by = [s \in Schedules |-> "edit"] /\ lost = {}

-----------------------------------------------------------------------------
(* Requests.                                                               *)

Begin(r, what) ==
  /\ request[r] = Idle
  /\ made < MaxRequests /\ made' = made + 1
  /\ request' = [request EXCEPT ![r] = what]
  /\ UNCHANGED <<clock, scheduleVars, tick, crashes, historyVars>>

Ends(r) == request' = [request EXCEPT ![r] = Idle]

\* _validate_presets, and the look at the notification presets.
Valid(form) == Refs(form) \subseteq presets

CreateBegins(r, s, form) ==
  /\ s \notin DOMAIN rows /\ \A q \in Requests : request[q].op = "create" => request[q].row # s
  /\ Valid(form)
  /\ Begin(r, [op |-> "create", row |-> s, form |-> form])

\* Mutant: the presets are looked at when a schedule is created, not when it is saved.
UpdateBeginsUnchecked(r, s, form) ==
  /\ Live(s)
  /\ Begin(r, [op |-> "update", row |-> s, form |-> form, seen |-> rows[s]])

UpdateBegins(r, s, form) ==
  /\ Live(s) /\ Valid(form)
  /\ Begin(r, [op |-> "update", row |-> s, form |-> form, seen |-> rows[s]])

DeleteBegins(r, s) ==
  /\ Live(s)
  /\ Begin(r, [op |-> "delete", row |-> s, seen |-> rows[s]])

\* A preset is not deleted while a row names it, deleted schedules included.
DropBegins(r, p) ==
  /\ p \in presets /\ ~Uses(p)
  /\ Begin(r, [op |-> "drop", preset |-> p])

RunNowBegins(r, s) ==
  /\ Live(s) /\ rows[s].preset \in presets
  /\ Begin(r, [op |-> "run", row |-> s])

\* A save of these presets overlaps the deletion of one of them.
Meets(form) == {p \in Refs(form) : \E q \in Requests : Dropping(q) /\ request[q].preset = p}

Create(r) ==
  LET s == request[r].row  form == request[r].form IN
  /\ request[r].op = "create" /\ Ends(r)
  /\ rows' = [q \in DOMAIN rows \cup {s} |-> IF q # s THEN rows[q] ELSE
               [enabled |-> form.enabled, deleted |-> FALSE, expr |-> form.expr,
                preset |-> form.preset, notes |-> form.notes, last |-> NoTime,
                next |-> IF form.enabled THEN NextRun(form.expr, NoTime, clock, Zone) ELSE NoTime]]
  /\ lost' = lost \cup Meets(form)
  /\ UNCHANGED <<clock, presets, made, tick, crashes, auto, again, by>>

\* Only what differs from the row as it was read is written. To add a notification
\* that another request has added, or to take away one that is gone, is an error.
Update(r) ==
  LET s == request[r].row  form == request[r].form  seen == request[r].seen  row == rows[s]
      next == IF form.enabled THEN NextRun(form.expr, seen.last, clock, Zone) ELSE NoTime
      added == form.notes \ seen.notes  taken == seen.notes \ form.notes
      Written(new, read, current) == IF new # read THEN new ELSE current
  IN
  /\ request[r].op = "update" /\ Ends(r)
  /\ added \cap row.notes = {} /\ taken \subseteq row.notes
  /\ rows' = [rows EXCEPT ![s] =
       [row EXCEPT !.enabled = Written(form.enabled, seen.enabled, row.enabled),
                   !.expr = Written(form.expr, seen.expr, row.expr),
                   !.preset = Written(form.preset, seen.preset, row.preset),
                   !.notes = (row.notes \ taken) \cup added,
                   !.next = Written(next, seen.next, row.next)]]
  /\ lost' = lost \cup Meets(form)
  /\ auto' = IF rows'[s].expr = rows[s].expr THEN auto ELSE [auto EXCEPT ![s] = {}]
  /\ by' = [by EXCEPT ![s] = "edit"]
  /\ UNCHANGED <<clock, presets, made, tick, crashes, again>>

Delete(r) ==
  LET s == request[r].row  seen == request[r].seen  row == rows[s] IN
  /\ request[r].op = "delete" /\ Ends(r)
  /\ rows' = [rows EXCEPT ![s] =
       [row EXCEPT !.deleted = TRUE,
                   !.enabled = IF seen.enabled THEN FALSE ELSE row.enabled,
                   !.next = IF seen.next = NoTime THEN row.next ELSE NoTime]]
  /\ UNCHANGED <<clock, presets, made, tick, crashes, historyVars>>

\* The deletion of a notification preset takes it from the schedules that name
\* it by then; the other presets are named by a column of the schedule.
Drop(r) ==
  LET p == request[r].preset IN
  /\ Dropping(r) /\ Ends(r)
  /\ presets' = presets \ {p}
  /\ rows' = IF p \notin Notifications THEN rows
             ELSE [s \in DOMAIN rows |-> [rows[s] EXCEPT !.notes = @ \ {p}]]
  /\ lost' = IF \E q \in Requests : Saves(q) /\ p \in Refs(request[q].form)
             THEN lost \cup {p} ELSE lost
  /\ UNCHANGED <<clock, made, tick, crashes, auto, again, by>>

\* A new preset may get the id of one that was deleted: ids are max + 1.
CreatePreset(r, p) ==
  /\ p \notin presets
  /\ request[r] = Idle /\ made < MaxRequests /\ made' = made + 1
  /\ presets' = presets \cup {p}
  /\ UNCHANGED <<clock, rows, request, tick, crashes, historyVars>>

\* The end of trigger_schedule_run_now: the row is read again, the moment is
\* given in UTC.
RunNow(r) ==
  LET s == request[r].row  row == rows[s] IN
  /\ request[r].op = "run" /\ Ends(r)
  /\ rows' = [rows EXCEPT ![s] =
       [row EXCEPT !.last = clock,
                   !.next = IF row.enabled THEN NextRun(row.expr, clock, clock, 0) ELSE row.next]]
  /\ by' = [by EXCEPT ![s] = IF row.enabled THEN "run-now" ELSE "edit"]
  /\ UNCHANGED <<clock, presets, made, tick, crashes, auto, again, lost>>

\* A preview that fails, an error of the database.
RequestFails(r) ==
  /\ request[r] # Idle /\ Ends(r)
  /\ UNCHANGED <<clock, scheduleVars, made, tick, crashes, historyVars>>

-----------------------------------------------------------------------------
(* The scheduler: _perform_tick.                                            *)

Runs == [tick EXCEPT !.at = "idle", !.left = {}, !.cur = Nobody, !.seen = [s \in {} |-> Idle]]

\* The schedules are read at once; the time of a tick is the time of its start.
TickBegins ==
  LET found == {s \in DOMAIN rows : Live(s) /\ rows[s].enabled} IN
  /\ tick.at = "idle"
  /\ tick' = [tick EXCEPT !.at = "loop", !.now = clock, !.left = found,
                          !.seen = [s \in found |-> rows[s]]]
  /\ UNCHANGED <<clock, scheduleVars, request, made, crashes, historyVars>>

\* A commit makes the session read every row again when it is used next.
Seen(s) == IF s \in DOMAIN tick.seen THEN tick.seen[s] ELSE rows[s]
\* Mutant: the time that is shown decides.
DueByNext(s) == IF Seen(s).next = NoTime THEN FALSE ELSE Seen(s).next <= tick.now
Due(s)  == ShouldRun(Seen(s).expr, Seen(s).last, tick.now)
Ready(s) == Due(s) /\ Seen(s).preset \in presets

TickSkips(s) ==
  /\ tick.at = "loop" /\ s \in tick.left /\ ~Ready(s)
  /\ tick' = [tick EXCEPT !.left = @ \ {s}]
  /\ UNCHANGED <<clock, scheduleVars, request, made, crashes, historyVars>>

\* A period of the expression begins: for an expression of weeks at midnight, whatever
\* time it gives.
PeriodBegins(x, m) ==
  LET d == Day(m, Zone) IN
  IF x.kind # "daily" /\ x.days = {} THEN m = d * SlotsPerDay - Zone /\ Weekday(d) = 0
  ELSE OnDay(x, d) /\ m = On(d, x, Zone)
SamePeriod(x, m, now) == \A n \in (m + 1)..now : ~PeriodBegins(x, n)

\* ensure_task commits the task ...
Enqueue(s) ==
  LET x == Seen(s).expr IN
  /\ tick.at = "loop" /\ s \in tick.left /\ Ready(s)
  /\ tick' = [tick EXCEPT !.at = "queued", !.cur = s, !.left = @ \ {s},
                          !.seen = [q \in {} |-> Idle]]
  /\ again' = IF \E m \in auto[s] : SamePeriod(x, m, tick.now)
              THEN again \cup {s} ELSE again
  /\ auto' = [auto EXCEPT ![s] = @ \cup {tick.now}]
  /\ UNCHANGED <<clock, scheduleVars, request, made, crashes, by, lost>>

\* Mutant: the end of the run is computed, and last_run_at left as it is.
RecordNextOnly ==
  LET s == tick.cur IN
  /\ tick.at = "queued" /\ tick' = [tick EXCEPT !.at = "loop", !.cur = Nobody]
  /\ rows' = [rows EXCEPT ![s] = [@ EXCEPT !.next = NextRun(rows[s].expr, tick.now, tick.now, Zone)]]
  /\ UNCHANGED <<clock, presets, request, made, crashes, historyVars>>

\* ... and a second commit the run of the schedule.
Record ==
  LET s == tick.cur IN
  /\ tick.at = "queued" /\ tick' = [tick EXCEPT !.at = "loop", !.cur = Nobody]
  /\ rows' = [rows EXCEPT ![s] =
       [@ EXCEPT !.last = tick.now, !.next = NextRun(rows[s].expr, tick.now, tick.now, Zone)]]
  /\ by' = [by EXCEPT ![s] = "tick"]
  /\ UNCHANGED <<clock, presets, request, made, crashes, auto, again, lost>>

TickEnds ==
  /\ tick.at = "loop" /\ tick.left = {} /\ tick' = Runs
  /\ UNCHANGED <<clock, scheduleVars, request, made, crashes, historyVars>>

\* The scheduler is restarted. Between the two commits the task stays and the
\* schedule does not know of it.
Crash ==
  /\ tick.at # "idle" /\ crashes < MaxCrashes /\ crashes' = crashes + 1
  /\ tick' = Runs
  /\ auto' = IF tick.at = "queued" THEN [auto EXCEPT ![tick.cur] = {}] ELSE auto
  /\ UNCHANGED <<clock, scheduleVars, request, made, again, by, lost>>

Tick == clock < Horizon /\ clock' = clock + 1
        /\ UNCHANGED <<scheduleVars, request, made, tick, crashes, historyVars>>

-----------------------------------------------------------------------------
Api ==
  \E r \in Requests :
    \/ \E s \in Schedules :
         \/ \E form \in Forms : CreateBegins(r, s, form) \/ UpdateBegins(r, s, form)
         \/ DeleteBegins(r, s) \/ RunNowBegins(r, s)
    \/ \E p \in Names : DropBegins(r, p) \/ CreatePreset(r, p)
    \/ Create(r) \/ Update(r) \/ Delete(r) \/ Drop(r) \/ RunNow(r) \/ RequestFails(r)

Scheduler ==
  \/ TickBegins \/ Record \/ TickEnds
  \/ \E s \in Schedules : TickSkips(s) \/ Enqueue(s)

Next == Api \/ Scheduler \/ Crash \/ Tick

Spec == Init /\ [][Next]_vars

\* The scheduler's loop goes on whatever a tick has done; it is restarted when it
\* ends. Nothing is assumed of requests.
FairSpec == Spec /\ WF_vars(Scheduler)

-----------------------------------------------------------------------------
(* A schedule that exists names presets that exist: the scheduler passes over  *)
(* a schedule whose preset is gone, and nobody is told. Only a deletion that   *)
(* overlaps a save of the schedule leaves it so (routes_presets.py,           *)
(* _preset_in_use; routes_schedules.py, _validate_presets).                  *)
LivePresetsExist ==
  \A s \in DOMAIN rows : Live(s) => Refs(rows[s]) \subseteq presets \cup lost

(* One period of a schedule is enqueued once, whatever is saved or run by hand  *)
(* meanwhile; unless the scheduler dies between its two commits.              *)
OncePerPeriod == again = {}

(* What is shown as the next run after a tick is when the scheduler runs the   *)
(* schedule next: due then, and at no moment between. Two functions compute    *)
(* the two (schedule_parser.py). An expression of weeks without days is       *)
(* excepted: next_run_at is seven days later, the run with the next week.     *)
Keeps(row) ==
  LET x == row.expr IN
  (x.kind = "daily" \/ x.days # {}) /\ x.valid =>
    /\ row.next # NoTime /\ row.next > row.last
    /\ ShouldRun(x, row.last, row.next)
    /\ \A m \in (row.last + 1)..(row.next - 1) : ~ShouldRun(x, row.last, m)
NextRunKept ==
  \A s \in DOMAIN rows : Live(s) /\ rows[s].enabled /\ by[s] = "tick" => Keeps(rows[s])

(* The same after a run that a user started: a scheduled job keeps the time of  *)
(* the zone, says docs/self-hosting.md:44.                                    *)
NextRunShown ==
  \A s \in DOMAIN rows : Live(s) /\ rows[s].enabled /\ by[s] = "run-now" => Keeps(rows[s])

(* A schedule that is due is run: it does not stay due while it is enabled and  *)
(* its presets exist, whatever overlaps its ticks.                            *)
Waits(s) ==
  /\ Live(s) /\ rows[s].enabled /\ rows[s].preset \in presets
  /\ ShouldRun(rows[s].expr, rows[s].last, clock)
DueIsServed == \A s \in Schedules : Waits(s) ~> ~Waits(s)
================================================================================
