------------------------------ MODULE Refresh ------------------------------
(***************************************************************************)
(* The refresh of ONE provider (app/services/updater.py) under everything  *)
(* that triggers it and everything that races with it: threads started by  *)
(* the management API or the scheduler (Jobs), threads answering the       *)
(* public subscription URL (Requests, app/routes/subscriptions.py), and    *)
(* the management API rotating the token or deleting the provider.         *)
(*                                                                         *)
(* Every database commit is a step of its own.  A refresh owns a database  *)
(* session in which a failed flush is never rolled back: the handler's own *)
(* commit then raises too, and the exception leaves refresh with the run   *)
(* row as it was.  A commit fails by itself ("commit" in Faults) or        *)
(* because the row it updates has been deleted.                            *)
(*                                                                         *)
(* The version store is the register LastGood (module VersionStore         *)
(* implements it): the newest row, and which sequences have their files.   *)
(***************************************************************************)
EXTENDS Integers, FiniteSets, Sequences

CONSTANTS
  Docs,       \* contents the provider's source can answer with
  NoDoc,      \* no content
  Requests,   \* threads answering the public URL
  Jobs,       \* threads of the management API and of the scheduler
  Nobody,     \* no thread
  Faults,     \* what happens besides: "commit", "crash", "rotate", "delete"
  MaxRuns,    \* bound: no thread starts that could add a run beyond these
  MaxIds      \* bound: tokens handed out

Threads == Requests \cup Jobs

ASSUME RefreshAssumption ==
  /\ NoDoc \notin Docs
  /\ Nobody \notin Threads
  /\ Requests \cap Jobs = {}
  /\ Faults \subseteq {"commit", "crash", "rotate", "delete"}
  /\ MaxRuns \in Nat /\ MaxIds \in Nat \ {0}

VARIABLES
  up,       \* the process runs
  prov,     \* the provider row: its incarnation, token, whether last_error is
            \* set, the age of last_success_at, current_version
  cur,      \* the newest version row with the provider's id
  files,    \* sequences whose two files are in the provider's directory
  runs,     \* rows of update_runs: SQLite numbers them on from the highest id,
            \* and they are only deleted all together
  lock,     \* the thread that holds the provider's refresh lock
  th,       \* what each thread is doing, and the objects it has loaded
  del,      \* api_delete_provider has removed the files, not yet the rows
  used,     \* tokens handed out
  cut       \* history: a commit that raised, a provider gone before its refresh
            \* was under way, or a crash has cut a refresh short

vars == <<up, prov, cur, files, runs, lock, th, del, used, cut>>

db == <<prov, cur, files, runs>>
rest == <<up, del, used, cut>>

-----------------------------------------------------------------------------
NewProv(id) == [inc |-> id, tok |-> id, err |-> FALSE, last |-> "never", cur |-> 0]
NoProv == NewProv(0)
NoRow == [seq |-> 0, doc |-> NoDoc, src |-> 0]

\* A thread at rest.  `was` and `err` are attributes of the Provider object the
\* request loaded first; `run`, `doc`, `src`, `seq` belong to its refresh, with
\* the last stage it published; `body`, `tag`, `stale`, `status` to its answer.
\* `from` (newest sequence when the request came in) and `tried` (how its own
\* refresh ended) are history.
Idle ==
  [pc |-> "idle", tok |-> 0, was |-> TRUE, err |-> FALSE, from |-> 0,
   tried |-> "no", run |-> 0, doc |-> NoDoc, src |-> 0, seq |-> 0,
   evt |-> "none", body |-> NoRow, tag |-> NoRow, stale |-> FALSE,
   status |-> "none"]

\* Thread t goes on at `pc`.
Go(t, pc) == th' = [th EXCEPT ![t].pc = pc]

\* Where a refresh is when it is about to commit its run row, or the provider's.
RunCommits ==
  {"querying", "received", "same", "closesame", "converting", "storing",
   "finish", "closefail"}
ProvCommits == {"check", "health", "fail"}
Refreshing ==
  RunCommits \cup ProvCommits
    \cup {"begin", "create", "named", "fetch", "compare", "convert", "store",
          "write", "insert", "prune"}

\* The public endpoint answers with an error page.
Error(t, status) ==
  th' = [th EXCEPT ![t].pc = "answered", ![t].status = status]

-----------------------------------------------------------------------------
(* refresh(): the non-blocking lock around _do_refresh *)

Locked(t) == lock = t

\* Every thread that is busy could still add a run.
Room ==
  Len(runs) + Cardinality({t \in Threads : th[t].pc # "idle"})
    < MaxRuns

\* A job is a daemon thread: it calls refresh and ends.
StartJob(t) ==
  /\ up /\ th[t].pc = "idle" /\ Room
  /\ Go(t, "acquire")
  /\ UNCHANGED <<db, lock, rest>>

\* Whoever finds the lock taken gets None at once.
Skip(t) ==
  /\ th[t].pc = "acquire" /\ lock # Nobody
  /\ IF t \in Jobs THEN th' = [th EXCEPT ![t] = Idle] ELSE Go(t, "relookup")
  /\ UNCHANGED <<db, lock, rest>>

\* Mutant of Acquire: the lock is not looked at.
AcquireAnyway(t) ==
  /\ th[t].pc = "acquire"
  /\ lock' = t
  /\ Go(t, "begin")
  /\ UNCHANGED <<db, rest>>

Acquire(t) ==
  /\ th[t].pc = "acquire" /\ lock = Nobody
  /\ lock' = t
  /\ Go(t, "begin")
  /\ UNCHANGED <<db, rest>>

\* Mutant of Leave: a failed refresh is an error of the request.
LeaveRaises(t, outcome) ==
  /\ lock' = Nobody
  /\ CASE t \in Jobs -> th' = [th EXCEPT ![t] = Idle]
       [] t \notin Jobs /\ outcome = "failure" -> Error(t, "500")
       [] OTHER -> Go(t, "relookup")

\* refresh returns: the lock is released, a request goes on to serve.
Leave(t, outcome) ==
  /\ lock' = Nobody
  /\ IF t \in Jobs
     THEN th' = [th EXCEPT ![t] = Idle]
     ELSE th' = [th EXCEPT ![t].pc = "relookup", ![t].tried = outcome]

\* An exception leaves refresh: the lock is released by `finally`, a job dies,
\* a request answers 500.
Escape(t) ==
  /\ lock' = Nobody
  /\ IF t \in Jobs
     THEN th' = [th EXCEPT ![t] = Idle]
     ELSE th' = [th EXCEPT ![t].pc = "answered", ![t].status = "500",
                           ![t].tried = "raised"]

-----------------------------------------------------------------------------
(* _do_refresh, step by step *)

Begin(t) ==
  /\ Locked(t) /\ th[t].pc = "begin"
  /\ IF prov = NoProv THEN Leave(t, "no") ELSE Go(t, "create") /\ UNCHANGED lock
  /\ UNCHANGED <<db, rest>>

\* Mutant of CreateRun: the refresh takes the run before its own for its own.
CreateRunBefore(t) ==
  /\ Locked(t) /\ th[t].pc = "create"
  /\ runs' = Append(runs, [stage |-> "querying", status |-> "running"])
  /\ th' = [th EXCEPT ![t].pc = "named",
                      ![t].run = IF runs = <<>> THEN 1 ELSE Len(runs)]
  /\ UNCHANGED <<prov, cur, files, lock, rest>>

\* The run row names the provider although it may be gone by now.
CreateRun(t) ==
  /\ Locked(t) /\ th[t].pc = "create"
  /\ runs' = Append(runs, [stage |-> "querying", status |-> "running"])
  /\ th' = [th EXCEPT ![t].pc = "named", ![t].run = Len(runs) + 1]
  /\ UNCHANGED <<prov, cur, files, lock, rest>>

\* The commit expired the provider: its name is loaded again, outside the try.
Named(t) ==
  /\ Locked(t) /\ th[t].pc = "named"
  /\ IF prov = NoProv
     THEN Escape(t) /\ cut' = TRUE
     ELSE /\ th' = [th EXCEPT ![t].pc = "querying", ![t].evt = "querying"]
          /\ UNCHANGED <<lock, cut>>
  /\ UNCHANGED <<db, up, del, used>>

\* A commit that moves the run row to `stage`.
Stage(t, pc, stage, next) ==
  /\ Locked(t) /\ th[t].pc = pc /\ th[t].run \in DOMAIN runs
  /\ runs' = [runs EXCEPT ![th[t].run].stage = stage]
  /\ Go(t, next)
  /\ UNCHANGED <<prov, cur, files, lock, rest>>

\* The commit that closes the run row.
Close(t, pc, stage, status) ==
  /\ Locked(t) /\ th[t].pc = pc /\ th[t].run \in DOMAIN runs
  /\ runs' = [runs EXCEPT ![th[t].run] = [stage |-> stage, status |-> status]]
  /\ Leave(t, status)
  /\ UNCHANGED <<prov, cur, files, rest>>

\* The source answers: "received" is published, then committed.
Fetch(t, d) ==
  /\ Locked(t) /\ th[t].pc = "fetch" /\ prov # NoProv
  /\ th' = [th EXCEPT ![t].pc = "received", ![t].evt = "received",
                      ![t].doc = d, ![t].src = prov.inc]
  /\ UNCHANGED <<db, lock, rest>>

\* Anything the try block catches while its session is sound: a fetch error,
\* input that does not convert, a file that cannot be written, a provider row
\* that is gone when it is read.
Caught(t) ==
  /\ Locked(t)
  /\ \/ th[t].pc \in {"fetch", "convert", "write"}
     \/ th[t].pc = "store" /\ prov = NoProv
  /\ Go(t, "fail")
  /\ UNCHANGED <<db, lock, rest>>

\* Mutant of Unchanged: no version counts as an unchanged one.
UnchangedOrNone(t) == cur.doc \in {NoDoc, th[t].doc} /\ cur.src \in {0, th[t].src}

\* The fetched bytes have the hash of the newest version's raw file.
Unchanged(t) == cur.doc = th[t].doc /\ cur.src = th[t].src

CompareSame(t) ==
  /\ Locked(t) /\ th[t].pc = "compare" /\ Unchanged(t)
  /\ Go(t, "same")
  /\ UNCHANGED <<db, lock, rest>>

CompareChanged(t) ==
  /\ Locked(t) /\ th[t].pc = "compare" /\ ~Unchanged(t)
  /\ th' = [th EXCEPT ![t].pc = "converting", ![t].evt = "converting"]
  /\ UNCHANGED <<db, lock, rest>>

\* Mutant of Check: the unchanged branch returns without closing its run.
CheckReturns(t) ==
  /\ Locked(t) /\ th[t].pc = "check" /\ prov # NoProv
  /\ prov' = [prov EXCEPT !.last = "fresh"]
  /\ Leave(t, "success")
  /\ UNCHANGED <<cur, files, runs, rest>>

\* Unchanged content: last_error is left alone; the event goes out next.
Check(t) ==
  /\ Locked(t) /\ th[t].pc = "check" /\ prov # NoProv
  /\ prov' = [prov EXCEPT !.last = "fresh"]
  /\ th' = [th EXCEPT ![t].pc = "closesame", ![t].evt = "comparing"]
  /\ UNCHANGED <<cur, files, runs, lock, rest>>

Convert(t) ==
  /\ Locked(t) /\ th[t].pc = "convert"
  /\ th' = [th EXCEPT ![t].pc = "storing", ![t].evt = "storing"]
  /\ UNCHANGED <<db, lock, rest>>

\* store_version takes its sequence from the newest row ...
StoreBegin(t) ==
  /\ Locked(t) /\ th[t].pc = "store" /\ prov # NoProv
  /\ th' = [th EXCEPT ![t].pc = "write", ![t].seq = cur.seq + 1]
  /\ UNCHANGED <<db, lock, rest>>

\* ... creates the directory if it has to and writes the two files ...
WriteFiles(t) ==
  /\ Locked(t) /\ th[t].pc = "write"
  /\ files' = files \cup {th[t].seq}
  /\ Go(t, "insert")
  /\ UNCHANGED <<prov, cur, runs, lock, rest>>

\* ... and commits the row, whether or not the provider is still there.
InsertRow(t) ==
  /\ Locked(t) /\ th[t].pc = "insert"
  /\ cur' = [seq |-> th[t].seq, doc |-> th[t].doc, src |-> th[t].src]
  /\ Go(t, "prune")
  /\ UNCHANGED <<prov, files, runs, lock, rest>>

\* Mutant of Prune: the newest version goes instead of the oldest.
PruneNewest(t) ==
  /\ Locked(t) /\ th[t].pc = "prune"
  /\ cur' = IF cur.seq > 1 THEN [cur EXCEPT !.seq = @ - 1] ELSE cur
  /\ Go(t, "health")
  /\ UNCHANGED <<prov, files, runs, lock, rest>>

Prune(t) ==
  /\ Locked(t) /\ th[t].pc = "prune"
  /\ Go(t, "health")
  /\ UNCHANGED <<db, lock, rest>>

\* Mutant of Health: current_version is not written.
HealthOnly(t) ==
  /\ Locked(t) /\ th[t].pc = "health" /\ prov # NoProv
  /\ prov' = [prov EXCEPT !.last = "fresh", !.err = FALSE]
  /\ Go(t, "finish")
  /\ UNCHANGED <<cur, files, runs, lock, rest>>

Health(t) ==
  /\ Locked(t) /\ th[t].pc = "health" /\ prov # NoProv
  /\ prov' = [prov EXCEPT !.last = "fresh", !.err = FALSE, !.cur = cur.seq]
  /\ Go(t, "finish")
  /\ UNCHANGED <<cur, files, runs, lock, rest>>

\* Mutant of Fail: a failed refresh takes the version back.
FailDrops(t) ==
  /\ Locked(t) /\ th[t].pc = "fail" /\ prov # NoProv
  /\ prov' = [prov EXCEPT !.err = TRUE]
  /\ cur' = NoRow
  /\ Go(t, "closefail")
  /\ UNCHANGED <<files, runs, lock, rest>>

\* The except branch.
Fail(t) ==
  /\ Locked(t) /\ th[t].pc = "fail" /\ prov # NoProv
  /\ prov' = [prov EXCEPT !.err = TRUE]
  /\ Go(t, "closefail")
  /\ UNCHANGED <<cur, files, runs, lock, rest>>

\* Mutant of RowGone: the handler tries again.
RowGoneRetries(t) ==
  /\ Locked(t)
  /\ \/ th[t].pc \in RunCommits /\ th[t].run \notin DOMAIN runs
     \/ th[t].pc \in ProvCommits /\ prov = NoProv
  /\ Go(t, "fail")
  /\ UNCHANGED <<db, lock, rest>>

\* A commit updates a row that is gone: StaleDataError, and the handler's
\* commit in the same session raises as well.
RowGone(t) ==
  /\ Locked(t)
  /\ \/ th[t].pc \in RunCommits /\ th[t].run \notin DOMAIN runs
     \/ th[t].pc \in ProvCommits /\ prov = NoProv
  /\ Escape(t)
  /\ cut' = TRUE
  /\ UNCHANGED <<db, up, del, used>>

\* A commit fails by itself; store_version unlinks what it wrote.
CommitFails(t) ==
  /\ "commit" \in Faults
  /\ Locked(t)
  /\ th[t].pc \in RunCommits \cup ProvCommits \cup {"create", "insert", "prune"}
  /\ files' = IF th[t].pc = "insert" THEN files \ {th[t].seq} ELSE files
  /\ Escape(t)
  /\ cut' = TRUE
  /\ UNCHANGED <<prov, cur, runs, up, del, used>>

RefreshStep(t) ==
  \/ Skip(t) \/ Acquire(t) \/ Begin(t) \/ CreateRun(t) \/ Named(t)
  \/ Stage(t, "querying", "querying", "fetch")
  \/ \E d \in Docs : Fetch(t, d)
  \/ Caught(t)
  \/ Stage(t, "received", "received", "compare")
  \/ CompareSame(t) \/ CompareChanged(t)
  \/ Stage(t, "same", "comparing", "check")
  \/ Check(t)
  \/ Close(t, "closesame", "finished", "success")
  \/ Stage(t, "converting", "converting", "convert")
  \/ Convert(t)
  \/ Stage(t, "storing", "storing", "store")
  \/ StoreBegin(t) \/ WriteFiles(t) \/ InsertRow(t) \/ Prune(t) \/ Health(t)
  \/ Close(t, "finish", "finished", "success")
  \/ Fail(t)
  \/ Close(t, "closefail", "failed", "failure")
  \/ RowGone(t) \/ CommitFails(t)

-----------------------------------------------------------------------------
(* serve_subscription *)

\* The provider is found by its token; freshness is judged on that object.
StartRequest(t) ==
  /\ up /\ th[t].pc = "idle" /\ prov # NoProv /\ Room
  /\ th' = [th EXCEPT ![t].pc = IF prov.last = "fresh" THEN "read" ELSE "acquire",
                      ![t].tok = prov.tok, ![t].was = (prov.last = "fresh"),
                      ![t].err = prov.err, ![t].from = cur.seq]
  /\ UNCHANGED <<db, lock, rest>>

\* The second lookup finds a row or none; the session hands out the object it
\* already has, with the attributes loaded before the refresh.
Relookup(t) ==
  /\ th[t].pc = "relookup"
  /\ IF prov.tok = th[t].tok THEN Go(t, "read") ELSE Error(t, "500")
  /\ UNCHANGED <<db, lock, rest>>

\* get_current selects the newest row and opens its file ...
Read(t) ==
  /\ th[t].pc = "read"
  /\ CASE cur = NoRow -> Error(t, "503")
       [] cur # NoRow /\ cur.seq \notin files -> Error(t, "500")
       [] OTHER -> th' = [th EXCEPT ![t].pc = "etag", ![t].body = cur]
  /\ UNCHANGED <<db, lock, rest>>

\* ... and get_current_hash selects the newest row again, for the ETag.
Answer(t) ==
  /\ th[t].pc = "etag"
  /\ th' = [th EXCEPT ![t].pc = "answered", ![t].status = "200", ![t].tag = cur,
                      ![t].stale = (~th[t].was /\ th[t].err)]
  /\ UNCHANGED <<db, lock, rest>>

Done(t) ==
  /\ th[t].pc = "answered"
  /\ th' = [th EXCEPT ![t] = Idle]
  /\ UNCHANGED <<db, lock, rest>>

ServeStep(t) == Relookup(t) \/ Read(t) \/ Answer(t) \/ Done(t)

-----------------------------------------------------------------------------
(* The management API, time, death and boot *)

\* Bound: MaxIds tokens in all.
Rotate ==
  /\ "rotate" \in Faults /\ up /\ prov # NoProv /\ used < MaxIds
  /\ used' = used + 1
  /\ prov' = [prov EXCEPT !.tok = used + 1]
  /\ UNCHANGED <<up, cur, files, runs, lock, th, del, cut>>

\* api_delete_provider takes no lock: first the directory goes ...
DeleteFiles ==
  /\ "delete" \in Faults /\ up /\ prov # NoProv /\ ~del
  /\ files' = {} /\ del' = TRUE
  /\ UNCHANGED <<up, prov, cur, runs, lock, th, used, cut>>

\* ... then the row, and by cascade its versions and runs.
DeleteRows ==
  /\ up /\ del
  /\ prov' = NoProv /\ cur' = NoRow /\ runs' = <<>> /\ del' = FALSE
  /\ UNCHANGED <<up, files, lock, th, used, cut>>

\* A new provider takes the id of the one deleted (the highest one).
Create ==
  /\ up /\ prov = NoProv /\ used < MaxIds
  /\ used' = used + 1
  /\ prov' = NewProv(used + 1)
  /\ UNCHANGED <<up, cur, files, runs, lock, th, del, cut>>

\* FRESHNESS_THRESHOLD_HOURS have passed since the last success.
Expire ==
  /\ prov.last = "fresh"
  /\ prov' = [prov EXCEPT !.last = "stale"]
  /\ UNCHANGED <<cur, files, runs, lock, th, rest>>

Crash ==
  /\ "crash" \in Faults /\ up
  /\ up' = FALSE /\ del' = FALSE /\ lock' = Nobody
  /\ th' = [t \in Threads |-> Idle]
  /\ cut' = (cut \/ lock # Nobody)
  /\ UNCHANGED <<db, used>>

Boot ==
  /\ ~up /\ up' = TRUE
  /\ UNCHANGED <<db, lock, th, del, used, cut>>

-----------------------------------------------------------------------------
Init ==
  /\ up = FALSE
  /\ prov = NewProv(1)
  /\ cur = NoRow /\ files = {} /\ runs = <<>>
  /\ lock = Nobody
  /\ th = [t \in Threads |-> Idle]
  /\ del = FALSE /\ used = 1 /\ cut = FALSE

Step(t) == RefreshStep(t) \/ ServeStep(t)

Next ==
  \/ \E t \in Jobs : StartJob(t)
  \/ \E t \in Requests : StartRequest(t)
  \/ \E t \in Threads : Step(t)
  \/ Rotate \/ DeleteFiles \/ DeleteRows \/ Create
  \/ Expire \/ Crash \/ Boot

Spec == Init /\ [][Next]_vars

\* The operating system runs every thread; a fetch ends by its timeouts.
FairSpec == Spec /\ \A t \in Threads : WF_vars(Step(t))

-----------------------------------------------------------------------------
(* Properties *)

Rows == [seq : Nat, doc : Docs \cup {NoDoc}, src : 0..MaxIds]
Stages == {"querying", "received", "comparing", "converting", "storing",
           "finished", "failed"}

Pcs == Refreshing \cup {"idle", "acquire", "relookup", "read", "etag", "answered"}
Run == [stage : Stages, status : {"running", "success", "failure"}]
Provider == [inc : 0..MaxIds, tok : 0..MaxIds, err : BOOLEAN,
             last : {"never", "fresh", "stale"}, cur : Nat]
Thread ==
  [pc : Pcs, tok : 0..MaxIds, was : BOOLEAN, err : BOOLEAN, from : Nat,
   tried : {"no", "success", "failure", "raised"}, run : Nat,
   doc : Docs \cup {NoDoc}, src : 0..MaxIds, seq : Nat,
   evt : Stages \cup {"none"}, body : Rows, tag : Rows, stale : BOOLEAN,
   status : {"none", "200", "500", "503"}]

\* Every variable has its type, and a thread at rest has loaded nothing.
TypeOK ==
  /\ up \in BOOLEAN /\ del \in BOOLEAN /\ used \in 1..MaxIds /\ cut \in BOOLEAN
  /\ prov \in Provider
  /\ cur \in Rows /\ files \subseteq Nat \ {0}
  /\ runs \in Seq(Run)
  /\ lock \in Threads \cup {Nobody}
  /\ th \in [Threads -> Thread]
  /\ \A t \in Threads : th[t].pc = "idle" => th[t] = Idle

\* Simultaneous public, manual and scheduled triggers perform one fetch: only
\* the holder of the provider's lock is inside _do_refresh, and it holds the
\* lock until it has left, whatever is raised in between.
OneRefresh == \A t \in Threads : th[t].pc \in Refreshing <=> lock = t

\* A running run is the one the holder of the lock works on.
RunsClosed ==
  \A r \in DOMAIN runs :
    runs[r].status = "running" => lock # Nobody /\ th[lock].run = r

\* No run is left behind as "running" for ever, also when the provider is deleted
\* and another one takes its id, unless a commit that raised, a provider that was
\* gone at once or a crash has cut a refresh short: nothing closes the run then.
RunsOwned == cut \/ RunsClosed

\* The stages of a refresh, in their order.
Order(stage) ==
  CASE stage \in {"none", "querying"} -> 0
    [] stage = "received" -> 1
    [] stage \in {"comparing", "converting"} -> 2
    [] stage = "storing" -> 3
    [] stage \in {"finished", "failed"} -> 4

\* The record of a run only moves forward, and what is closed stays as it was
\* closed, for as long as the row is there: a refresh writes to no run but its
\* own, although commits fail, processes die in the middle, and the provider is
\* deleted with its runs: its lock, which goes by its id, keeps the provider that
\* takes the id, and the run ids, from creating a run before the refresh has left.
RunsAdvance ==
  [][\A r \in DOMAIN runs \cap DOMAIN runs' :
       /\ Order(runs[r].stage) <= Order(runs'[r].stage)
       /\ runs[r].status # "running" => runs'[r] = runs[r]]_runs

\* What the provider row claims is there: a provider that has ever succeeded
\* has a newest version with its files, and current_version is never ahead.
HealthBacked ==
  prov # NoProv =>
    /\ prov.last # "never" => cur.seq \in files
    /\ prov.cur <= cur.seq

\* The provider row names the version that is served, also while refreshes that
\* find nothing new or fail go on: only between the two commits of a refresh
\* that stores, or after one was cut short there, is it behind.
NamesCurrent ==
  \/ cut
  \/ prov.cur = cur.seq
  \/ lock # Nobody /\ th[lock].pc \in {"prune", "health"}

\* An answer is at least as new as what was current when the request came in,
\* and its ETag is at least as new as its body.
NeverOlder ==
  \A t \in Requests : th[t].status = "200" =>
    th[t].from <= th[t].body.seq /\ th[t].body.seq <= th[t].tag.seq

\* The latest successful subscription remains available: a request that came in
\* when there was one is answered with content, whatever its refresh met, unless
\* a commit of its own refresh raised or its URL was rotated away meanwhile ...
LastGoodServed ==
  \A t \in Requests :
    th[t].pc = "answered" /\ th[t].from > 0 =>
      th[t].status = "200" \/ th[t].tried = "raised" \/ th[t].tok # prov.tok

\* ... even if a commit of its own refresh raised.
AlwaysServed ==
  \A t \in Requests :
    th[t].pc = "answered" /\ th[t].from > 0 /\ th[t].tok = prov.tok =>
      th[t].status = "200"

LG == INSTANCE LastGood
        WITH version <- cur.seq, doc <- cur.doc, served <- cur.doc,
             whole <- TRUE, up <- up

\* As long as nobody deletes the provider, its newest version is the register
\* LastGood: nothing but a complete, converted document replaces it.
ServesLastGood == LG!Spec

\* Every request is answered and every job ends, also when commits fail or the
\* provider is rotated or deleted meanwhile; by OneRefresh the lock is then free.
Answered == \A t \in Threads : th[t].pc # "idle" ~> th[t].pc = "idle"

\* The stale headers tell how the refresh this request waited for has ended.
StaleHeaders ==
  \A t \in Requests : th[t].status = "200" =>
    /\ th[t].tried = "failure" => th[t].stale
    /\ th[t].tried = "success" => ~th[t].stale

\* After a successful check no earlier fetch error is left.
ErrorCleared ==
  lock = Nobody /\ runs # <<>> /\ runs[Len(runs)].status = "success"
    => ~prov.err

\* The ETag is the hash of the content it is sent with.
EtagOfBody ==
  \A t \in Requests : th[t].status = "200" =>
    th[t].tag.doc = th[t].body.doc /\ th[t].tag.src = th[t].body.src

\* An event tells a stage the database has committed.
EventsCommitted ==
  lock # Nobody /\ th[lock].run \in DOMAIN runs =>
    Order(th[lock].evt) <= Order(runs[th[lock].run].stage)

\* Deletion leaves no version of the provider behind, neither row nor files.
DeletionComplete ==
  prov = NoProv /\ lock = Nobody => cur = NoRow /\ files = {}

-----------------------------------------------------------------------------
(* The inductive invariants behind OneRefresh, HealthBacked, NeverOlder,     *)
(* ServesLastGood, RunsOwned and LastGoodServed.                             *)

NoDelete == "delete" \notin Faults

\* Nobody takes the provider away.
Alive == prov.inc > 0 /\ ~del

\* The newest row is complete.
RowInv == cur # NoRow => cur.doc \in Docs /\ cur.seq \in files

\* What the refresh in thread state x has fetched and is storing, when `row` is
\* the newest row and the files of the sequences `there` are on disk.
JobOK(x, row, there) ==
  /\ x.pc \in {"received", "compare", "converting", "convert", "storing",
               "store", "write", "insert"} => x.doc \in Docs
  /\ x.pc \in {"write", "insert"} => x.seq = row.seq + 1
  /\ x.pc = "insert" => x.seq \in there
  /\ x.pc \in {"same", "check", "prune", "health"} => row # NoRow

JobInv == \A t \in Threads : lock = t => JobOK(th[t], cur, files)

\* What a request in thread state x has read lies between its arrival and `now`.
ReadOK(x, now) ==
  /\ x.from <= now
  /\ x.pc = "etag" => x.from <= x.body.seq /\ x.body.seq <= now
  /\ x.status = "200" =>
       x.pc = "answered" /\ x.from <= x.body.seq /\ x.body.seq <= x.tag.seq

ReadInv == \A t \in Threads : ReadOK(th[t], cur.seq)

IInv ==
  /\ TypeOK
  /\ OneRefresh
  /\ Alive
  /\ HealthBacked
  /\ RowInv
  /\ JobInv
  /\ ReadInv

\* A sequence to write has been chosen, after the newest row's.
Numbered == \A t \in Threads : th[t].pc = "write" => th[t].seq > 0

\* What holds of the lock while the provider may be deleted and created again.
LockInv ==
  /\ TypeOK
  /\ OneRefresh
  /\ Numbered

\* Before it creates its run the holder of the lock finds none running; later its
\* run is there, unless the provider was deleted, and its runs with it.
RunWhole ==
  /\ RunsClosed
  /\ \A t \in Threads : lock = t =>
       IF th[t].pc \in {"begin", "create"}
       THEN \A r \in DOMAIN runs : runs[r].status # "running"
       ELSE runs = <<>> \/ th[t].run \in DOMAIN runs

RunInv == cut \/ RunWhole

\* How far the run of a refresh can be that stands at `pc`.
Reached(pc) ==
  CASE pc \in {"named", "querying", "fetch", "received"} -> 0
    [] pc \in {"compare", "same", "converting"} -> 1
    [] pc \in {"check", "closesame", "convert", "storing"} -> 2
    [] OTHER -> 3

\* The run of the refresh in progress is open, and no further than the refresh.
OpenRun ==
  \A t \in Threads :
    lock = t /\ th[t].pc \notin {"begin", "create"} /\ th[t].run \in DOMAIN runs =>
      /\ runs[th[t].run].status = "running"
      /\ Order(runs[th[t].run].stage) <= Reached(th[t].pc)

\* No thread knows a token that has not been handed out.
TokenInv == prov.tok <= used /\ \A t \in Threads : th[t].tok <= used
=============================================================================
