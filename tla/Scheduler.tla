----------------------------- MODULE Scheduler -----------------------------
(***************************************************************************)
(* The schedules: provider rows in the database, and jobs in APScheduler's *)
(* memory (app/services/scheduler.py).  The management API keeps the two   *)
(* together (app/routes/api.py): each request commits the row, loads it    *)
(* again, and sets or removes the job - three steps with no lock around    *)
(* them, while other requests do the same to the same provider.  Boot      *)
(* makes the jobs from the rows.                                           *)
(***************************************************************************)
EXTENDS Integers, FiniteSetsExt

CONSTANTS
  Threads,    \* threads of the management API
  Times,      \* values of time_of_day
  Malformed,  \* the ones with a colon that int() cannot read
  None,       \* a column that is NULL; as a time, midnight
  Asked,      \* bound: the schedules requests ask for
  MaxId       \* bound: provider ids

Types == {"disabled", "monthly", "weekly", "daily", "interval"}
Weekdays == 0..6

\* The columns of a schedule.  A request that passes the validation can leave
\* any of them NULL.
Schedules ==
  [type : Types, dom : 1..31 \cup {None}, dow : Weekdays \cup {None},
   time : Times \cup {None}, hours : 1..168 \cup {None}]

ASSUME SchedulerAssumption ==
  /\ MaxId \in Nat \ {0} /\ None \notin Int \cup Times
  /\ Malformed \subseteq Times /\ Asked \subseteq Schedules

Ids == 1..MaxId

VARIABLES
  up,       \* the process runs
  row,      \* the columns of each provider, or Gone
  job,      \* the trigger of each provider's job, or NoJob
  th,       \* the API request each thread is in
  amiss     \* history: the last request on the provider was not alone or
            \* raised, or the rows could not be loaded at boot

vars == <<up, row, job, th, amiss>>

-----------------------------------------------------------------------------
Disabled == [type |-> "disabled", dom |-> None, dow |-> None, time |-> None,
             hours |-> None]
Gone == [on |-> FALSE, plan |-> Disabled, there |-> FALSE]
New(plan) == [on |-> TRUE, plan |-> plan, there |-> TRUE]

\* `seen` holds the columns as the request last loaded them, `asks` the ones
\* its JSON sets them to.
Idle == [pc |-> "idle", id |-> 0, seen |-> Gone, asks |-> Gone]

At(t, pc) == th[t].pc = pc
Busy(p) == {t \in Threads : th[t].pc # "idle" /\ th[t].id = p}

\* A request on provider p begins.
Start(t, p, state) ==
  /\ up /\ At(t, "idle")
  /\ th' = [th EXCEPT ![t] = state]
  /\ amiss' = [amiss EXCEPT ![p] = Busy(p) # {}]

Finish(t) == th' = [th EXCEPT ![t] = Idle]

\* Triggers: `at` is the day of the month, the weekday (0 is Monday) or the hours.
Trigger(type, at, time) == [type |-> type, at |-> at, time |-> time]
NoJob == Trigger("none", 0, None)
Raises == Trigger("raises", 0, None)

\* _build_trigger: the time is read first; CronTrigger takes a day that is NULL
\* for every day, IntervalTrigger raises.
Every(plan) ==
  CASE plan.type = "monthly"  -> plan.dom
    [] plan.type = "weekly"   -> plan.dow
    [] plan.type = "interval" -> plan.hours
    [] OTHER                  -> None

Unbuildable(plan) ==
  plan.time \in Malformed \/ (plan.type = "interval" /\ plan.hours = None)

Build(plan) ==
  IF plan.type = "disabled" THEN NoJob
  ELSE IF Unbuildable(plan) THEN Raises
  ELSE IF Every(plan) = None THEN Trigger("daily", 0, plan.time)
  ELSE Trigger(plan.type, Every(plan),
               IF plan.type = "interval" THEN None ELSE plan.time)

\* A disabled provider has no trigger.
Calls(r) == IF r.on THEN Build(r.plan) ELSE NoJob

\* The job a row calls for.
JobOf(r) == IF Calls(r) = Raises THEN NoJob ELSE Calls(r)

-----------------------------------------------------------------------------
\* POST: the row is committed under the id after the highest in the table.
Create(t, plan) ==
  LET p == 1 + Max({i \in Ids : row[i].there} \cup {0})
  IN  /\ p \in Ids
      /\ row' = [row EXCEPT ![p] = New(plan)]
      /\ Start(t, p, [Idle EXCEPT !.pc = "load", !.id = p])
      /\ UNCHANGED <<up, job>>

\* PATCH finds the provider ...
Patch(t, p, asks) ==
  /\ row[p].there
  /\ Start(t, p, [pc |-> "commit", id |-> p, seen |-> row[p], asks |-> asks])
  /\ UNCHANGED <<up, row, job>>

\* ... and commits the columns it changes; the UPDATE fails if the row is gone.
MergePlan(now, seen, asks) ==
  [type  |-> IF asks.type # seen.type THEN asks.type ELSE now.type,
   dom   |-> IF asks.dom # seen.dom THEN asks.dom ELSE now.dom,
   dow   |-> IF asks.dow # seen.dow THEN asks.dow ELSE now.dow,
   time  |-> IF asks.time # seen.time THEN asks.time ELSE now.time,
   hours |-> IF asks.hours # seen.hours THEN asks.hours ELSE now.hours]

Merge(now, seen, asks) ==
  [on    |-> IF asks.on # seen.on THEN asks.on ELSE now.on,
   plan  |-> MergePlan(now.plan, seen.plan, asks.plan),
   there |-> TRUE]

\* Mutant of Commit: the job is made of the columns from before the commit.
CommitStale(t) ==
  LET p == th[t].id
  IN  /\ At(t, "commit")
      /\ IF row[p].there
         THEN /\ row' = [row EXCEPT ![p] = Merge(@, th[t].seen, th[t].asks)]
              /\ th' = [th EXCEPT ![t] = [@ EXCEPT !.pc = "schedule", !.asks = Gone]]
         ELSE Finish(t) /\ UNCHANGED row
      /\ UNCHANGED <<up, job, amiss>>

Commit(t) ==
  LET p == th[t].id
  IN  /\ At(t, "commit")
      /\ IF row[p].there
         THEN /\ row' = [row EXCEPT ![p] = Merge(@, th[t].seen, th[t].asks)]
              /\ th' = [th EXCEPT ![t] = [Idle EXCEPT !.pc = "load", !.id = p]]
         ELSE Finish(t) /\ UNCHANGED row
      /\ UNCHANGED <<up, job, amiss>>

\* reschedule_provider loads the columns the commit expired ...
Load(t) ==
  /\ At(t, "load")
  /\ IF row[th[t].id].there
     THEN th' = [th EXCEPT ![t].pc = "schedule", ![t].seen = row[th[t].id]]
     ELSE Finish(t)
  /\ UNCHANGED <<up, row, job, amiss>>

\* ... and adds, replaces or removes the job, unless no trigger can be built: the
\* request answers 500, and the job stays as it was.
Schedule(t) ==
  LET p == th[t].id
      raises == Calls(th[t].seen) = Raises
  IN  /\ At(t, "schedule")
      /\ job' = IF raises THEN job ELSE [job EXCEPT ![p] = Calls(th[t].seen)]
      /\ amiss' = [amiss EXCEPT ![p] = @ \/ raises]
      /\ Finish(t)
      /\ UNCHANGED <<up, row>>

\* DELETE finds the provider ...
Delete(t, p) ==
  /\ row[p].there
  /\ Start(t, p, [Idle EXCEPT !.pc = "delete", !.id = p])
  /\ UNCHANGED <<up, row, job>>

\* ... deletes whatever has its id by now ...
DeleteRow(t) ==
  /\ At(t, "delete")
  /\ row' = [row EXCEPT ![th[t].id] = Gone]
  /\ th' = [th EXCEPT ![t].pc = "remove"]
  /\ UNCHANGED <<up, job, amiss>>

\* ... and removes its job.
RemoveJob(t) ==
  /\ At(t, "remove")
  /\ job' = [job EXCEPT ![th[t].id] = NoJob]
  /\ Finish(t)
  /\ UNCHANGED <<up, row, amiss>>

Crash ==
  /\ up /\ up' = FALSE
  /\ job' = [p \in Ids |-> NoJob]
  /\ th' = [t \in Threads |-> Idle]
  /\ UNCHANGED <<row, amiss>>

\* Mutant of Boot: disabled providers are scheduled as well.
BootAll ==
  /\ ~up /\ up' = TRUE
  /\ job' = [p \in Ids |-> JobOf([row[p] EXCEPT !.on = TRUE])]
  /\ amiss' = [p \in Ids |-> FALSE]
  /\ UNCHANGED <<row, th>>

\* init_scheduler, before the first request: a provider without a trigger does
\* not keep the others from theirs ...
Boot ==
  /\ ~up /\ up' = TRUE
  /\ job' = [p \in Ids |-> JobOf(row[p])]
  /\ amiss' = [p \in Ids |-> FALSE]
  /\ UNCHANGED <<row, th>>

\* ... and without the rows there are no jobs.
BootUnloaded ==
  /\ ~up /\ up' = TRUE
  /\ amiss' = [p \in Ids |-> TRUE]
  /\ UNCHANGED <<row, job, th>>

-----------------------------------------------------------------------------
Init ==
  /\ up = FALSE
  /\ row = [p \in Ids |-> Gone]
  /\ job = [p \in Ids |-> NoJob]
  /\ th = [t \in Threads |-> Idle]
  /\ amiss = [p \in Ids |-> FALSE]

Handle(t) ==
  Commit(t) \/ Load(t) \/ Schedule(t) \/ DeleteRow(t) \/ RemoveJob(t)

Next ==
  \/ \E t \in Threads :
       \/ \E plan \in Asked : Create(t, plan)
       \/ \E p \in Ids, on \in BOOLEAN : \E plan \in Asked \cup {row[p].plan} :
            Patch(t, p, [on |-> on, plan |-> plan, there |-> TRUE])
       \/ \E p \in Ids : Delete(t, p)
       \/ Handle(t)
  \/ Crash \/ Boot \/ BootUnloaded

Spec == Init /\ [][Next]_vars

-----------------------------------------------------------------------------
(* Properties *)

Columns == [on : BOOLEAN, plan : Schedules, there : BOOLEAN]
Jobs == [type : {"none"} \cup Types, at : 0..168, time : Times \cup {None}]

\* Every variable has its type; a process that is down has no jobs.
TypeOK ==
  /\ up \in BOOLEAN
  /\ row \in [Ids -> Columns]
  /\ job \in [Ids -> Jobs]
  /\ th \in [Threads ->
       [pc : {"idle", "commit", "load", "schedule", "delete", "remove"},
        id : Ids \cup {0}, seen : Columns, asks : Columns]]
  /\ amiss \in [Ids -> BOOLEAN]
  /\ ~up => \A p \in Ids : job[p] = NoJob /\ Busy(p) = {}

\* API changes take effect without a restart: once the requests on a provider
\* are done, and the last of them began and ended alone and did not raise, its
\* job is the one its row calls for, whatever was deleted, created again under
\* the same id, cut short by a crash, raised or raced before, or not loaded at
\* boot.
JobsMatch ==
  up => \A p \in Ids :
    Busy(p) = {} /\ ~amiss[p] => job[p] = JobOf(row[p])

\* Deleted and disabled providers have no active job.
NoOrphanJob ==
  \A p \in Ids : Busy(p) = {} /\ Calls(row[p]) = NoJob => job[p] = NoJob

\* One request at a time cannot leave a job the row does not call for.
SoloMatches ==
  [][\A t \in Threads, p \in Ids :
       Schedule(t) /\ th[t].id = p /\ ~amiss[p] => job'[p] = JobOf(row[p])]_vars

\* A job fires on the weekday the page shows: 0 is Sunday there.
DayAsShown ==
  \A p \in Ids : job[p].type = "weekly" /\ row[p].plan.dow \in Weekdays =>
    job[p].at = (row[p].plan.dow + 6) % 7

-----------------------------------------------------------------------------
(* The inductive invariant behind JobsMatch: a request that is alone has     *)
(* loaded what is still in the row.                                          *)

AloneInv ==
  \A t \in Threads :
    LET p == th[t].id IN
    th[t].pc # "idle" /\ ~amiss[p] =>
      /\ Busy(p) = {t}
      /\ th[t].pc = "commit" => th[t].seen = row[p] /\ row[p].there
      /\ th[t].pc = "load" => row[p].there
      /\ th[t].pc = "schedule" => th[t].seen = row[p]
      /\ th[t].pc = "remove" => row[p] = Gone

IInv == TypeOK /\ AloneInv /\ JobsMatch
=============================================================================
