-------------------------- MODULE SchedulerProofs --------------------------
(***************************************************************************)
(* Proofs about Scheduler, for any threads, schedule types and ids.        *)
(***************************************************************************)
EXTENDS Scheduler, TLAPS

\* The part of IInv that speaks of one thread.
Alone(t) ==
  LET p == th[t].id IN
  th[t].pc # "idle" /\ ~amiss[p] =>
    /\ Busy(p) = {t}
    /\ th[t].pc = "commit" => th[t].seen = row[p] /\ row[p].there
    /\ th[t].pc = "load" => row[p].there
    /\ th[t].pc = "schedule" => th[t].seen = row[p]
    /\ th[t].pc = "remove" => row[p] = Gone

States == [pc : {"idle", "commit", "load", "schedule", "delete", "remove"},
           id : Ids \cup {0}, seen : Columns, asks : Columns]

\* A thread at work is at work on a provider.
Placed == \A t \in Threads : th[t].pc # "idle" => th[t].id \in Ids

\* The inductive invariant.
Inductive == IInv /\ Placed

LEMMA BuildType ==
  ASSUME NEW plan \in Schedules
  PROVE  Build(plan) = Raises \/ Build(plan) \in Jobs
<1>1. Every(plan) = None \/ Every(plan) \in 0..168
  BY SchedulerAssumption DEF Every, Schedules, Weekdays
<1>2. plan.type \in Types /\ plan.time \in Times \cup {None}
  BY DEF Schedules
<1> QED
  BY <1>1, <1>2 DEF Build, NoJob, Raises, Trigger, Jobs, Types

LEMMA MergeType ==
  ASSUME NEW a \in Columns, NEW b \in Columns, NEW c \in Columns
  PROVE  Merge(a, b, c) \in Columns /\ Merge(a, b, c).there
<1>1. a.plan \in Schedules /\ b.plan \in Schedules /\ c.plan \in Schedules
  BY DEF Columns
<1>2. MergePlan(a.plan, b.plan, c.plan) \in Schedules
  BY <1>1 DEF MergePlan, Schedules
<1> QED
  BY <1>2 DEF Merge, Columns

LEMMA Types0 ==
  /\ Gone \in Columns /\ NoJob \in Jobs
  /\ \A plan \in Schedules, on \in BOOLEAN :
       /\ New(plan) \in Columns
       /\ [on |-> on, plan |-> plan, there |-> TRUE] \in Columns
  /\ \A r \in Columns : /\ JobOf(r) \in Jobs
                        /\ Calls(r) # Raises => Calls(r) \in Jobs
  /\ Idle \in States
<1>1. Disabled \in Schedules
  BY DEF Disabled, Schedules, Types
<1>2. NoJob \in Jobs
  BY DEF NoJob, Trigger, Jobs
<1>3. Gone \in Columns
  BY <1>1 DEF Gone, Columns
<1>4. ASSUME NEW r \in Columns
      PROVE  JobOf(r) \in Jobs /\ (Calls(r) # Raises => Calls(r) \in Jobs)
  <2>1. r.plan \in Schedules
    BY DEF Columns
  <2> QED
    BY <1>2, <2>1, BuildType DEF JobOf, Calls
<1> QED
  BY <1>2, <1>3, <1>4 DEF New, Columns, Idle, States, Ids

LEMMA InitInductive == Init => Inductive
<1> SUFFICES ASSUME Init PROVE Inductive
  OBVIOUS
<1>1. TypeOK
  BY Types0 DEF Init, TypeOK, States, Busy, Idle
<1> QED
  BY <1>1 DEF Init, Inductive, IInv, AloneInv, JobsMatch, Placed, Idle

\* What a step of thread t on provider p does to who is busy.
LEMMA BusyAfter ==
  ASSUME TypeOK, NEW t \in Threads, NEW s \in States,
         th' = [th EXCEPT ![t] = s]
  PROVE  \A p \in Ids :
           Busy(p)' = (Busy(p) \ {t}) \cup
                        (IF s.pc # "idle" /\ s.id = p THEN {t} ELSE {})
BY DEF Busy, TypeOK

\* A request that begins keeps the invariant, when it changes at most the row
\* of a provider that was not there.
LEMMA StartKeeps ==
  ASSUME Inductive, NEW t \in Threads, NEW p \in Ids, NEW s \in States,
         Start(t, p, s), s.pc \in {"commit", "load", "delete"}, s.id = p,
         row' \in [Ids -> Columns], \A q \in Ids \ {p} : row'[q] = row[q],
         s.pc = "commit" => s.seen = row'[p] /\ row'[p].there,
         s.pc = "load" => row'[p].there,
         UNCHANGED <<up, job>>
  PROVE  Inductive'
<1> USE DEF Inductive, IInv
<1>1. /\ th' = [th EXCEPT ![t] = s] /\ up /\ th[t].pc = "idle"
      /\ amiss' = [amiss EXCEPT ![p] = Busy(p) # {}]
  BY DEF Start, At
<1>2. /\ th' \in [Threads -> States] /\ th'[t] = s
      /\ \A u \in Threads \ {t} : th'[u] = th[u]
  BY <1>1 DEF TypeOK, States
<1>3. /\ amiss' \in [Ids -> BOOLEAN]
      /\ amiss'[p] = (Busy(p) # {}) /\ \A q \in Ids \ {p} : amiss'[q] = amiss[q]
  BY <1>1 DEF TypeOK
<1>4. /\ Busy(p)' = Busy(p) \cup {t}
      /\ \A q \in Ids \ {p} : Busy(q)' = Busy(q)
  <2>1. \A q \in Ids : t \notin Busy(q)
    BY <1>1 DEF Busy
  <2>2. \A q \in Ids :
          Busy(q)' = (Busy(q) \ {t}) \cup
                       (IF s.pc # "idle" /\ s.id = q THEN {t} ELSE {})
    <3>1. TypeOK
      OBVIOUS
    <3> QED
      BY <1>1, <3>1, BusyAfter
  <2>3. Busy(p)' = Busy(p) \cup {t}
    BY <2>1, <2>2
  <2>4. ASSUME NEW q \in Ids \ {p} PROVE Busy(q)' = Busy(q)
    BY <2>1, <2>2
  <2> QED
    BY <2>3, <2>4
<1>5. TypeOK'
  BY <1>1, <1>2, <1>3 DEF TypeOK, States
<1>6. AloneInv'
  <2> SUFFICES ASSUME NEW u \in Threads, th'[u].pc # "idle", ~amiss'[th'[u].id]
               PROVE  Alone(u)'
    BY DEF AloneInv, Alone
  <2>1. CASE u = t
    <3>1. Busy(p)' = {t}
      BY <1>2, <1>3, <1>4, <2>1
    <3> QED
      BY <1>2, <2>1, <3>1 DEF Alone
  <2>2. CASE u # t
    <3>1. th'[u] = th[u] /\ th[u].id \in Ids
      BY <1>2, <2>2 DEF Placed
    <3>2. th[u].id # p
      <4>1. th[u].id = p => u \in Busy(p)
        BY <3>1 DEF Busy
      <4> QED
        BY <1>3, <3>1, <4>1
    <3>3. Alone(u)
      BY DEF AloneInv, Alone
    <3> QED
      BY <1>3, <1>4, <3>1, <3>2, <3>3 DEF Alone
  <2> QED
    BY <2>1, <2>2
<1>7. JobsMatch'
  <2> SUFFICES ASSUME NEW q \in Ids, Busy(q)' = {}, ~amiss'[q]
               PROVE  job'[q] = JobOf(row'[q])
    BY DEF JobsMatch
  <2> QED
    BY <1>1, <1>3, <1>4 DEF JobsMatch
<1>8. Placed'
  BY <1>2 DEF Placed
<1> QED
  BY <1>5, <1>6, <1>7, <1>8

\* A step of a request in progress on provider p, that goes on or ends, keeps
\* the invariant, when it touches the row and the job of p only.
LEMMA StepKeeps ==
  ASSUME Inductive, NEW t \in Threads, NEW p \in Ids, NEW s \in States,
         th[t].pc # "idle", th[t].id = p, th' = [th EXCEPT ![t] = s],
         s.pc # "idle" => s.id = p,
         row' \in [Ids -> Columns], \A q \in Ids \ {p} : row'[q] = row[q],
         job' \in [Ids -> Jobs],
         \A q \in Ids \ {p} : job'[q] = job[q],
         up' = up, amiss' \in [Ids -> BOOLEAN], amiss[p] => amiss'[p],
         \A q \in Ids \ {p} : amiss'[q] = amiss[q],
         Alone(t) =>
           IF s.pc = "idle"
           THEN ~amiss'[p] => job'[p] = JobOf(row'[p])
           ELSE ~amiss'[p] =>
             /\ s.pc = "commit" => s.seen = row'[p] /\ row'[p].there
             /\ s.pc = "load" => row'[p].there
             /\ s.pc = "schedule" => s.seen = row'[p]
             /\ s.pc = "remove" => row'[p] = Gone
  PROVE  Inductive'
<1> USE DEF Inductive, IInv
<1>1. /\ th' \in [Threads -> States] /\ th'[t] = s
      /\ \A u \in Threads \ {t} : th'[u] = th[u]
  BY DEF TypeOK, States
<1>2. t \in Busy(p) /\ \A q \in Ids \ {p} : t \notin Busy(q)
  BY DEF Busy
<1>3. up
  BY <1>2 DEF TypeOK
<1>4. \A q \in Ids :
        Busy(q)' = (Busy(q) \ {t}) \cup
                     (IF s.pc # "idle" /\ s.id = q THEN {t} ELSE {})
  <2>1. TypeOK
    OBVIOUS
  <2> QED
    BY <2>1, BusyAfter
<1>5. ASSUME NEW q \in Ids \ {p} PROVE Busy(q)' = Busy(q)
  <2>1. ~(s.pc # "idle" /\ s.id = q)
    OBVIOUS
  <2>2. Busy(q)' = Busy(q) \ {t}
    BY <1>4, <2>1
  <2> QED
    BY <1>2, <2>2
<1>6. Busy(p)' = IF s.pc = "idle" THEN Busy(p) \ {t} ELSE Busy(p)
  <2>1. Busy(p)' = (Busy(p) \ {t}) \cup
                     (IF s.pc # "idle" /\ s.id = p THEN {t} ELSE {})
    BY <1>4
  <2>2. CASE s.pc = "idle"
    BY <2>1, <2>2
  <2>3. CASE s.pc # "idle"
    BY <1>2, <2>1, <2>3
  <2> QED
    BY <2>2, <2>3
<1>7. Alone(t)
  BY DEF AloneInv, Alone
<1>8. TypeOK'
  BY <1>1, <1>3 DEF TypeOK, States
<1>9. AloneInv'
  <2> SUFFICES ASSUME NEW u \in Threads, th'[u].pc # "idle", ~amiss'[th'[u].id]
               PROVE  Alone(u)'
    BY DEF AloneInv, Alone
  <2>1. CASE u = t
    <3>1. s.pc # "idle" /\ s.id = p /\ ~amiss[p]
      BY <1>1, <2>1
    <3>2. Busy(p)' = {t}
      BY <1>6, <1>7, <3>1 DEF Alone
    <3> QED
      BY <1>1, <1>7, <2>1, <3>1, <3>2 DEF Alone
  <2>2. CASE u # t
    <3>1. th'[u] = th[u] /\ th[u].id \in Ids /\ ~amiss[th[u].id]
      BY <1>1, <2>2 DEF Placed
    <3>2. Alone(u)
      BY DEF AloneInv, Alone
    <3>3. th[u].id # p
      BY <1>2, <2>2, <3>1, <3>2 DEF Alone
    <3> QED
      BY <1>5, <3>1, <3>2, <3>3 DEF Alone
  <2> QED
    BY <2>1, <2>2
<1>10. JobsMatch'
  <2> SUFFICES ASSUME NEW q \in Ids, Busy(q)' = {}, ~amiss'[q]
               PROVE  job'[q] = JobOf(row'[q])
    BY DEF JobsMatch
  <2>1. CASE q = p
    BY <1>2, <1>6, <1>7, <2>1
  <2>2. CASE q # p
    BY <1>3, <1>5, <2>2 DEF JobsMatch
  <2> QED
    BY <2>1, <2>2
<1>11. Placed'
  BY <1>1 DEF Placed
<1> QED
  BY <1>8, <1>9, <1>10, <1>11

LEMMA StepInductive == Inductive /\ [Next]_vars => Inductive'
<1> SUFFICES ASSUME Inductive, [Next]_vars
             PROVE  Inductive'
  OBVIOUS
<1> USE DEF Inductive, IInv
<1>0. /\ row \in [Ids -> Columns] /\ job \in [Ids -> Jobs]
      /\ th \in [Threads -> States] /\ amiss \in [Ids -> BOOLEAN]
  BY DEF TypeOK, States
<1>1. ASSUME NEW t \in Threads, NEW plan \in Asked, Create(t, plan)
      PROVE  Inductive'
  <2> DEFINE p == 1 + Max({i \in Ids : row[i].there} \cup {0})
             s == [Idle EXCEPT !.pc = "load", !.id = p]
  <2>1. /\ p \in Ids /\ row' = [row EXCEPT ![p] = New(plan)] /\ Start(t, p, s)
        /\ UNCHANGED <<up, job>>
    BY <1>1 DEF Create
  <2> HIDE DEF p
  <2>2. /\ s \in States /\ s.pc = "load" /\ s.id = p
    BY <2>1, Types0 DEF States, Idle
  <2>3. /\ row' \in [Ids -> Columns] /\ row'[p] = New(plan)
        /\ \A q \in Ids \ {p} : row'[q] = row[q]
    BY <1>0, <2>1, Types0, SchedulerAssumption
  <2>4. row'[p].there
    BY <2>3 DEF New
  <2> HIDE DEF s
  <2> QED
    BY <2>1, <2>2, <2>3, <2>4, StartKeeps
<1>2. ASSUME NEW t \in Threads, NEW p \in Ids, NEW on \in BOOLEAN,
             NEW plan \in Asked \cup {row[p].plan},
             Patch(t, p, [on |-> on, plan |-> plan, there |-> TRUE])
      PROVE  Inductive'
  <2> DEFINE s == [pc |-> "commit", id |-> p, seen |-> row[p],
                   asks |-> [on |-> on, plan |-> plan, there |-> TRUE]]
  <2>1. row[p].there /\ Start(t, p, s) /\ UNCHANGED <<up, row, job>>
    BY <1>2 DEF Patch
  <2>2. /\ s \in States /\ s.pc = "commit" /\ s.id = p /\ s.seen = row[p]
    <3>1. plan \in Schedules
      BY <1>0, SchedulerAssumption DEF Columns
    <3> QED
      BY <1>0, <3>1, Types0 DEF States
  <2> HIDE DEF s
  <2> QED
    BY <1>0, <2>1, <2>2, StartKeeps
<1>3. ASSUME NEW t \in Threads, NEW p \in Ids, Delete(t, p)
      PROVE  Inductive'
  <2> DEFINE s == [Idle EXCEPT !.pc = "delete", !.id = p]
  <2>1. Start(t, p, s) /\ UNCHANGED <<up, row, job>>
    BY <1>3 DEF Delete
  <2>2. s \in States /\ s.pc = "delete" /\ s.id = p
    BY Types0 DEF States, Idle
  <2> HIDE DEF s
  <2> QED
    BY <1>0, <2>1, <2>2, StartKeeps
<1>4. ASSUME NEW t \in Threads, Handle(t)
      PROVE  Inductive'
  <2> DEFINE p == th[t].id
             c == th[t]
  <2>1. c.pc # "idle" /\ p \in Ids /\ c \in States /\ Idle \in States /\ Idle.pc = "idle"
    BY <1>0, <1>4, Types0
       DEF Handle, Commit, Load, Schedule, DeleteRow, RemoveJob, At, Placed, Idle
  <2>2. CASE Commit(t)
    <3>0. c.pc = "commit"
      BY <2>2 DEF Commit, At
    <3>1. CASE row[p].there
      <4> DEFINE s == [Idle EXCEPT !.pc = "load", !.id = p]
                 r == Merge(row[p], c.seen, c.asks)
      <4>1. /\ th' = [th EXCEPT ![t] = s] /\ row' = [row EXCEPT ![p] = r]
            /\ UNCHANGED <<up, job, amiss>>
        BY <2>2, <3>1 DEF Commit
      <4>2. r \in Columns /\ r.there
        <5>1. row[p] \in Columns /\ c.seen \in Columns /\ c.asks \in Columns
          BY <1>0, <2>1 DEF States
        <5> QED
          BY <5>1, MergeType
      <4>3. s \in States /\ s.pc = "load" /\ s.id = p
        BY <2>1, Types0 DEF States, Idle
      <4> HIDE DEF s, r
      <4> QED
        BY <1>0, <2>1, <3>0, <4>1, <4>2, <4>3, StepKeeps
    <3>2. CASE ~row[p].there
      <4>1. th' = [th EXCEPT ![t] = Idle] /\ UNCHANGED <<up, row, job, amiss>>
        BY <2>2, <3>2 DEF Commit, Finish
      <4>2. Alone(t) => amiss[p]
        BY <2>1, <3>0, <3>2 DEF Alone
      <4> QED
        BY <1>0, <2>1, <4>1, <4>2, StepKeeps
    <3> QED
      BY <3>1, <3>2
  <2>3. CASE Load(t)
    <3>0. c.pc = "load"
      BY <2>3 DEF Load, At
    <3>1. CASE row[p].there
      <4> DEFINE s == [c EXCEPT !.pc = "schedule", !.seen = row[p]]
      <4>1. th' = [th EXCEPT ![t] = s] /\ UNCHANGED <<up, row, job, amiss>>
        BY <1>0, <2>3, <3>1 DEF Load
      <4>2. s \in States /\ s.pc = "schedule" /\ s.id = p /\ s.seen = row[p]
        BY <1>0, <2>1 DEF States
      <4> HIDE DEF s
      <4> QED
        BY <1>0, <2>1, <4>1, <4>2, StepKeeps
    <3>2. CASE ~row[p].there
      <4>1. th' = [th EXCEPT ![t] = Idle] /\ UNCHANGED <<up, row, job, amiss>>
        BY <2>3, <3>2 DEF Load, Finish
      <4>2. Alone(t) => amiss[p]
        BY <2>1, <3>0, <3>2 DEF Alone
      <4> QED
        BY <1>0, <2>1, <4>1, <4>2, StepKeeps
    <3> QED
      BY <3>1, <3>2
  <2>4. CASE Schedule(t)
    <3>1. /\ c.pc = "schedule" /\ th' = [th EXCEPT ![t] = Idle]
          /\ UNCHANGED <<up, row>> /\ c.seen \in Columns
      BY <2>1, <2>4 DEF Schedule, Finish, At, States
    <3>2. Alone(t) => amiss[p] \/ c.seen = row[p]
      BY <2>1, <3>1 DEF Alone
    <3>3. CASE Calls(c.seen) = Raises
      <4>1. /\ job' = job /\ amiss' = [amiss EXCEPT ![p] = TRUE]
        BY <2>4, <3>3 DEF Schedule, TypeOK
      <4>2. /\ amiss' \in [Ids -> BOOLEAN] /\ amiss'[p]
            /\ \A q \in Ids \ {p} : amiss'[q] = amiss[q]
        BY <2>1, <4>1 DEF TypeOK
      <4> QED
        BY <1>0, <2>1, <3>1, <4>1, <4>2, StepKeeps
    <3>4. CASE Calls(c.seen) # Raises
      <4>1. /\ job' = [job EXCEPT ![p] = Calls(c.seen)] /\ amiss' = amiss
        BY <2>4, <3>4 DEF Schedule, TypeOK
      <4>2. Calls(c.seen) \in Jobs /\ JobOf(c.seen) = Calls(c.seen)
        BY <3>1, <3>4, Types0 DEF JobOf
      <4>3. job' \in [Ids -> Jobs] /\ job'[p] = JobOf(c.seen)
        BY <1>0, <2>1, <4>1, <4>2
      <4>4. \A q \in Ids \ {p} : job'[q] = job[q]
        BY <1>0, <4>1
      <4> QED
        BY <1>0, <2>1, <3>1, <3>2, <4>1, <4>3, <4>4, StepKeeps DEF TypeOK
    <3> QED
      BY <3>3, <3>4
  <2>5. CASE DeleteRow(t)
    <3> DEFINE s == [c EXCEPT !.pc = "remove"]
    <3>1. /\ th' = [th EXCEPT ![t] = s] /\ row' = [row EXCEPT ![p] = Gone]
          /\ UNCHANGED <<up, job, amiss>>
      BY <2>5 DEF DeleteRow
    <3>2. s \in States /\ s.pc = "remove" /\ s.id = p
      BY <2>1 DEF States
    <3> HIDE DEF s
    <3> QED
      BY <1>0, <2>1, <3>1, <3>2, Types0, StepKeeps
  <2>6. CASE RemoveJob(t)
    <3>1. /\ c.pc = "remove" /\ th' = [th EXCEPT ![t] = Idle]
          /\ job' = [job EXCEPT ![p] = NoJob]
          /\ UNCHANGED <<up, row, amiss>>
      BY <2>6 DEF RemoveJob, Finish, At
    <3>2. JobOf(Gone) = NoJob
      BY DEF JobOf, Calls, Gone
    <3>3. Alone(t) => amiss[p] \/ row[p] = Gone
      BY <2>1, <3>1 DEF Alone
    <3>4. job' \in [Ids -> Jobs] /\ job'[p] = JobOf(Gone)
      BY <1>0, <2>1, <3>1, <3>2, Types0
    <3>5. \A q \in Ids \ {p} : job'[q] = job[q]
      BY <1>0, <3>1
    <3>6. row[p] = Gone => job'[p] = JobOf(row[p])
      BY <3>4
    <3> QED
      BY <1>0, <2>1, <3>1, <3>3, <3>4, <3>5, <3>6, StepKeeps DEF TypeOK
  <2> QED
    BY <1>4, <2>2, <2>3, <2>4, <2>5, <2>6 DEF Handle
<1>5. CASE Crash
  <2>1. /\ ~up' /\ UNCHANGED <<row, amiss>> /\ job' = [p \in Ids |-> NoJob]
        /\ \A t \in Threads : th'[t] = Idle
    BY <1>5 DEF Crash
  <2>2. TypeOK'
    BY <1>0, <1>5, <2>1, Types0 DEF Crash, TypeOK, Busy, States, Idle
  <2> QED
    BY <2>1, <2>2 DEF AloneInv, JobsMatch, Placed, Idle
<1>6. CASE Boot
  <2>1. /\ ~up /\ up' /\ UNCHANGED <<row, th>>
        /\ job' = [p \in Ids |-> JobOf(row[p])]
        /\ amiss' = [p \in Ids |-> FALSE]
    BY <1>6 DEF Boot
  <2>2. \A t \in Threads : th[t].pc = "idle"
    BY <2>1 DEF TypeOK, Busy, Placed
  <2>3. TypeOK'
    BY <1>0, <2>1, Types0 DEF TypeOK, Busy
  <2>4. AloneInv'
    BY <2>1, <2>2 DEF AloneInv
  <2>5. JobsMatch'
    BY <2>1 DEF JobsMatch
  <2> QED
    BY <2>1, <2>3, <2>4, <2>5 DEF Placed
<1>8. CASE BootUnloaded
  <2>1. /\ ~up /\ up' /\ UNCHANGED <<row, job, th>>
        /\ amiss' = [p \in Ids |-> TRUE]
    BY <1>8 DEF BootUnloaded
  <2>2. \A t \in Threads : th[t].pc = "idle"
    BY <2>1 DEF TypeOK, Busy, Placed
  <2>3. TypeOK'
    BY <1>0, <2>1 DEF TypeOK, Busy
  <2>4. AloneInv' /\ JobsMatch'
    BY <2>1, <2>2 DEF AloneInv, JobsMatch
  <2> QED
    BY <2>1, <2>3, <2>4 DEF Placed
<1>7. CASE UNCHANGED vars
  BY <1>7 DEF vars, TypeOK, AloneInv, JobsMatch, Placed, Busy
<1> QED
  BY <1>1, <1>2, <1>3, <1>4, <1>5, <1>6, <1>7, <1>8 DEF Next

-----------------------------------------------------------------------------
\* The inductive invariant holds of every behaviour: a request that is alone on
\* its provider has loaded what is still in the row (api.py, scheduler.py).
THEOREM Invariance == Spec => []IInv
<1>1. Spec => []Inductive
  BY InitInductive, StepInductive, PTL DEF Spec
<1>2. Inductive => IInv
  BY DEF Inductive
<1> QED
  BY <1>1, <1>2, PTL

\* Once the requests on a provider are done, and the last of them was alone, its
\* job is the one its row calls for.
THEOREM JobsFollowRows == Spec => []JobsMatch
<1>1. IInv => JobsMatch
  BY DEF IInv
<1> QED
  BY <1>1, Invariance, PTL
=============================================================================
