---------------------------- MODULE RefreshProofs ----------------------------
(***************************************************************************)
(* Proofs about Refresh, for any sets of threads and contents.             *)
(*                                                                         *)
(* The argument has two layers.  Preserved says when a step of one thread  *)
(* keeps the invariant IInv, whatever the step is; Works, Quiet, LeaveInv, *)
(* EscapeInv, Outside and their variants reduce to it the few ways a step  *)
(* can end.  Each action of Refresh then has one lemma that names the new  *)
(* state x of its thread and cites the way it ends.                        *)
(*                                                                         *)
(* IInv needs that nobody deletes the provider.  LockInv is what is left   *)
(* of it when the provider is deleted and created again: it needs nothing, *)
(* and gives SingleRefresh and TypeCorrect.  RunInv and OpenRun are kept   *)
(* on top of LockInv, and give NoRunLeft and RunsForward.                  *)
(***************************************************************************)
EXTENDS Refresh, SequenceTheorems, TLAPS

\* The program counters of a refresh and those of the other steps, apart.
LEMMA Strings ==
  /\ Refreshing = {"querying", "received", "same", "closesame", "converting",
                   "storing", "finish", "closefail", "check", "health", "fail",
                   "begin", "create", "named", "fetch", "compare", "convert",
                   "store", "write", "insert", "prune"}
  /\ Refreshing \subseteq Pcs
  /\ {"idle", "acquire", "relookup", "read", "etag", "answered"} \subseteq Pcs \ Refreshing
  /\ Stages = {"querying", "received", "comparing", "converting", "storing",
               "finished", "failed"}
<1>1. Refreshing = {"querying", "received", "same", "closesame", "converting",
                    "storing", "finish", "closefail", "check", "health", "fail",
                    "begin", "create", "named", "fetch", "compare", "convert",
                    "store", "write", "insert", "prune"}
  BY DEF Refreshing, RunCommits, ProvCommits
<1> QED
  BY <1>1 DEF Pcs, Stages

\* A thread at rest is typed and has read nothing.
LEMMA IdleThread == Idle \in Thread /\ Idle.pc = "idle" /\ ReadOK(Idle, 0) /\ Idle.from = 0 /\ Idle.status = "none"
BY Strings, RefreshAssumption DEF Thread, Idle, Rows, NoRow, ReadOK

\* A step of thread t that leaves it in state x preserves the invariant if it
\* takes or gives back the lock with the program counter, moves the newest row
\* only forward, and x fits the new row and files.
LEMMA Preserved ==
  ASSUME IInv, NEW t \in Threads, NEW x \in Thread,
         th' = [th EXCEPT ![t] = x],
         x.pc = "idle" => x = Idle,
         \/ lock' = t /\ lock \in {t, Nobody} /\ x.pc \in Refreshing
              /\ JobOK(x, cur', files')
         \/ lock' = Nobody /\ lock = t /\ x.pc \notin Refreshing
         \/ lock' = lock /\ lock # t /\ x.pc \notin Refreshing /\ UNCHANGED <<cur, files>>,
         ReadOK(x, cur'.seq),
         UNCHANGED <<up, del, used>>, cut' \in BOOLEAN,
         prov' \in Provider, prov'.inc = prov.inc,
         cur' \in Rows, cur.seq <= cur'.seq,
         files' \subseteq Nat \ {0}, runs' \in Seq(Run),
         RowInv', HealthBacked'
  PROVE  IInv'
<1> USE RefreshAssumption
<1>1. TypeOK'
  BY DEF IInv, TypeOK
<1>2. OneRefresh'
  BY DEF IInv, TypeOK, OneRefresh
<1>3. Alive'
  BY DEF IInv, Alive
<1>4. JobInv'
  BY DEF IInv, TypeOK, JobInv, JobOK
<1>5. ReadInv'
  <2> SUFFICES ASSUME NEW u \in Threads
               PROVE  ReadOK(th'[u], cur'.seq)
    BY DEF ReadInv
  <2>1. CASE u = t
    BY <2>1 DEF IInv, TypeOK
  <2>2. CASE u # t
    <3>1. th'[u] = th[u] /\ ReadOK(th[u], cur.seq)
      BY <2>2 DEF IInv, TypeOK, ReadInv
    <3>2. th[u].from \in Nat /\ th[u].body \in Rows /\ cur.seq \in Nat /\ cur'.seq \in Nat
      BY DEF IInv, TypeOK, Thread, Rows
    <3>3. th[u].body.seq \in Nat
      BY <3>2 DEF Rows
    <3> QED
      BY <3>1, <3>2, <3>3 DEF ReadOK
  <2> QED
    BY <2>1, <2>2
<1> QED
  BY <1>1, <1>2, <1>3, <1>4, <1>5 DEF IInv

-----------------------------------------------------------------------------
(* How a step ends *)

\* x is thread state y at another program counter, with the same request.
SameRequest(x, y) ==
  x.from = y.from /\ x.body = y.body /\ x.tag = y.tag /\ x.status = y.status
SameJob(x, y) == x.doc = y.doc /\ x.src = y.src /\ x.seq = y.seq /\ x.run = y.run

\* Setting the program counter alone.
LEMMA GoState ==
  ASSUME TypeOK, NEW t \in Threads, NEW p \in Pcs, Go(t, p)
  PROVE  \E x \in Thread : /\ th' = [th EXCEPT ![t] = x] /\ x.pc = p
                           /\ SameRequest(x, th[t]) /\ SameJob(x, th[t])
<1>1. PICK x : x = [th[t] EXCEPT !.pc = p]
  OBVIOUS
<1>2. th[t] \in Thread
  BY DEF TypeOK
<1>3. x \in Thread /\ x.pc = p /\ SameRequest(x, th[t]) /\ SameJob(x, th[t])
  BY <1>1, <1>2 DEF Thread, SameRequest, SameJob
<1>4. th' = [th EXCEPT ![t] = x]
  BY <1>1 DEF Go
<1> QED
  BY <1>3, <1>4

\* The holder of the lock goes on inside _do_refresh.
LEMMA Works ==
  ASSUME IInv, NEW t \in Threads, lock = t, lock' = lock,
         th[t].pc \in Refreshing,
         NEW x \in Thread, th' = [th EXCEPT ![t] = x], x.pc \in Refreshing,
         SameRequest(x, th[t]), JobOK(x, cur', files'),
         UNCHANGED rest,
         prov' \in Provider, prov'.inc = prov.inc,
         cur' \in Rows, cur.seq <= cur'.seq,
         files' \subseteq Nat \ {0}, runs' \in Seq(Run),
         RowInv', HealthBacked'
  PROVE  IInv'
<1>1. ReadOK(th[t], cur.seq)
  BY DEF IInv, ReadInv
<1>2. x.from \in Nat /\ cur.seq \in Nat /\ cur'.seq \in Nat
  BY DEF Thread, Rows, IInv, TypeOK
<1>3. x.pc # "etag" /\ x.pc # "idle" /\ th[t].pc # "answered"
  BY Strings
<1>4. ReadOK(x, cur'.seq)
  BY <1>1, <1>2, <1>3 DEF ReadOK, SameRequest
<1>5. UNCHANGED <<up, del, used>> /\ cut' \in BOOLEAN
  BY DEF rest, IInv, TypeOK
<1> QED
  BY <1>3, <1>4, <1>5, Preserved

\* refresh returns.
LEMMA LeaveInv ==
  ASSUME IInv, NEW t \in Threads, lock = t,
         NEW o \in {"no", "success", "failure"}, Leave(t, o),
         UNCHANGED <<prov, cur, files, rest>>, runs' \in Seq(Run)
  PROVE  IInv'
<1>1. /\ cur' \in Rows /\ cur'.seq = cur.seq /\ cur.seq \in Nat /\ prov' \in Provider
      /\ files' \subseteq Nat \ {0} /\ th[t] \in Thread
      /\ cur.seq <= cur'.seq /\ prov'.inc = prov.inc
      /\ UNCHANGED <<up, del, used>> /\ cut' \in BOOLEAN
  BY DEF IInv, TypeOK, Rows, rest
<1>5. lock' = Nobody
  BY DEF Leave
<1>6. ReadOK(th[t], cur.seq) /\ th[t].pc # "answered"
  BY Strings DEF IInv, ReadInv, OneRefresh
<1>2. RowInv' /\ HealthBacked'
  BY DEF IInv, RowInv, HealthBacked
<1>3. CASE t \in Jobs
  <2>1. th' = [th EXCEPT ![t] = Idle]
    BY <1>3 DEF Leave
  <2>2. ReadOK(Idle, cur'.seq)
    BY <1>1, IdleThread DEF ReadOK
  <2> QED
    BY <1>1, <1>2, <1>5, <2>1, <2>2, IdleThread, Strings, Preserved
<1>4. CASE t \notin Jobs
  <2>1. PICK x : x = [th[t] EXCEPT !.pc = "relookup", !.tried = o]
    OBVIOUS
  <2>2. x \in Thread /\ x.pc = "relookup" /\ SameRequest(x, th[t])
    BY <1>1, <2>1, Strings DEF Thread, SameRequest
  <2>3. th' = [th EXCEPT ![t] = x]
    BY <1>4, <2>1 DEF Leave
  <2>4. ReadOK(x, cur'.seq)
    BY <1>1, <1>6, <2>2 DEF ReadOK, SameRequest
  <2> QED
    BY <1>1, <1>2, <1>5, <2>2, <2>3, <2>4, Strings, Preserved
<1> QED
  BY <1>3, <1>4

\* An exception leaves refresh.
LEMMA EscapeInv ==
  ASSUME IInv, NEW t \in Threads, lock = t, Escape(t),
         UNCHANGED <<prov, cur, runs, up, del, used>>, cut' \in BOOLEAN,
         files' \subseteq files,
         RowInv', HealthBacked'
  PROVE  IInv'
<1>1. /\ cur' \in Rows /\ cur'.seq = cur.seq /\ cur.seq \in Nat /\ prov' \in Provider
      /\ runs' \in Seq(Run) /\ files' \subseteq Nat \ {0} /\ th[t] \in Thread
      /\ cur.seq <= cur'.seq /\ prov'.inc = prov.inc
  BY DEF IInv, TypeOK, Rows
<1>5. lock' = Nobody
  BY DEF Escape
<1>2. CASE t \in Jobs
  <2>1. th' = [th EXCEPT ![t] = Idle]
    BY <1>2 DEF Escape
  <2>2. ReadOK(Idle, cur'.seq)
    BY <1>1, IdleThread DEF ReadOK
  <2> QED
    BY <1>1, <1>5, <2>1, <2>2, IdleThread, Strings, Preserved
<1>3. CASE t \notin Jobs
  <2>1. PICK x : x = [th[t] EXCEPT !.pc = "answered", !.status = "500",
                           !.tried = "raised"]
    OBVIOUS
  <2>2. x \in Thread /\ x.pc = "answered" /\ x.from = th[t].from /\ x.status = "500"
    BY <1>1, <2>1, Strings DEF Thread
  <2>3. th' = [th EXCEPT ![t] = x]
    BY <1>3, <2>1 DEF Escape
  <2>4. ReadOK(x, cur'.seq)
    BY <1>1, <2>2 DEF ReadOK, IInv, ReadInv
  <2> QED
    BY <1>1, <1>5, <2>2, <2>3, <2>4, Strings, Preserved
<1> QED
  BY <1>2, <1>3

-----------------------------------------------------------------------------
(* The steps of a refresh *)

\* The holder of the lock goes on without touching provider, versions or files.
LEMMA Quiet ==
  ASSUME IInv, NEW t \in Threads, lock = t, th[t].pc \in Refreshing,
         NEW x \in Thread, th' = [th EXCEPT ![t] = x], x.pc \in Refreshing,
         SameRequest(x, th[t]), JobOK(x, cur, files),
         UNCHANGED <<prov, cur, files, lock, rest>>, runs' \in Seq(Run)
  PROVE  IInv'
<1>1. /\ cur' = cur /\ files' = files /\ prov' = prov /\ lock' = lock
      /\ UNCHANGED rest
  OBVIOUS
<1>2. /\ cur' \in Rows /\ cur.seq <= cur'.seq /\ prov' \in Provider
      /\ files' \subseteq Nat \ {0} /\ prov'.inc = prov.inc
  BY <1>1 DEF IInv, TypeOK, Rows
<1>3. RowInv' /\ HealthBacked'
  BY <1>1 DEF IInv, RowInv, HealthBacked
<1>4. JobOK(x, cur', files')
  BY <1>1
<1> QED
  BY <1>1, <1>2, <1>3, <1>4, Works

\* The same when only the program counter moves.
LEMMA GoQuiet ==
  ASSUME IInv, NEW t \in Threads, lock = t, th[t].pc \in Refreshing,
         NEW p \in Refreshing, Go(t, p),
         p \in {"received", "compare", "converting", "convert", "storing",
                "store", "write", "insert"} => th[t].doc \in Docs,
         p \in {"write", "insert"} => th[t].seq = cur.seq + 1,
         p = "insert" => th[t].seq \in files,
         p \in {"same", "check", "prune", "health"} => cur # NoRow,
         UNCHANGED <<prov, cur, files, lock, rest>>, runs' \in Seq(Run)
  PROVE  IInv'
<1>1. p \in Pcs /\ TypeOK
  BY Strings DEF IInv
<1>2. PICK x \in Thread : /\ th' = [th EXCEPT ![t] = x] /\ x.pc = p
                          /\ SameRequest(x, th[t]) /\ SameJob(x, th[t])
  BY <1>1, GoState
<1>3. JobOK(x, cur, files)
  BY <1>2 DEF JobOK, SameJob
<1> QED
  BY <1>2, <1>3, Quiet

\* What the invariant says of the holder of the lock.
LEMMA Holder ==
  ASSUME IInv, NEW t \in Threads, Locked(t)
  PROVE  /\ lock = t /\ th[t].pc \in Refreshing /\ th[t] \in Thread
         /\ JobOK(th[t], cur, files) /\ prov # NoProv
BY DEF IInv, Locked, OneRefresh, TypeOK, JobInv, Alive, NoProv, NewProv

\* The provider is there: the refresh goes on.
LEMMA BeginInv ==
  ASSUME IInv, NEW t \in Threads, Begin(t)
  PROVE  IInv'
<1>1. Go(t, "create") /\ lock' = lock /\ UNCHANGED <<prov, cur, files, runs, rest>>
  BY Holder DEF Begin, db
<1>2. runs' \in Seq(Run)
  BY <1>1 DEF IInv, TypeOK
<1> QED
  BY <1>1, <1>2, Holder, GoQuiet, Strings DEF Begin

\* The new run row is typed; nothing else in the database changes.
LEMMA CreateRunInv ==
  ASSUME IInv, NEW t \in Threads, CreateRun(t)
  PROVE  IInv'
<1>0. th[t] \in Thread
  BY DEF IInv, TypeOK
<1>1. PICK x : x = [th[t] EXCEPT !.pc = "named", !.run = Len(runs) + 1]
  OBVIOUS
<1>2. runs \in Seq(Run)
  BY DEF IInv, TypeOK
<1>3. Len(runs) + 1 \in Nat
  BY <1>2
<1>4. x \in Thread /\ x.pc = "named" /\ SameRequest(x, th[t])
  BY <1>1, <1>3, <1>0, Strings DEF Thread, SameRequest
<1>5. th' = [th EXCEPT ![t] = x]
  BY <1>1 DEF CreateRun
<1>6. [stage |-> "querying", status |-> "running"] \in Run
  BY Strings DEF Run
<1>7. runs' \in Seq(Run)
  BY <1>2, <1>6 DEF CreateRun
<1>8. UNCHANGED <<prov, cur, files, lock, rest>>
  BY DEF CreateRun
<1>9. JobOK(x, cur, files)
  BY <1>4 DEF JobOK
<1> QED
  BY <1>4, <1>5, <1>7, <1>8, <1>9, Holder, Quiet, Strings DEF CreateRun

\* The name can be loaded again: the provider is still there.
LEMMA NamedInv ==
  ASSUME IInv, NEW t \in Threads, Named(t)
  PROVE  IInv'
<1>0. th[t] \in Thread
  BY DEF IInv, TypeOK
<1>1. PICK x : x = [th[t] EXCEPT !.pc = "querying", !.evt = "querying"]
  OBVIOUS
<1>2. x \in Thread /\ x.pc = "querying" /\ SameRequest(x, th[t])
  BY <1>1, <1>0, Strings DEF Thread, SameRequest
<1>3. th' = [th EXCEPT ![t] = x] /\ UNCHANGED <<prov, cur, files, lock, rest>>
  BY <1>1, Holder DEF Named, db, rest
<1>4. runs' \in Seq(Run)
  BY DEF Named, db, IInv, TypeOK
<1>5. JobOK(x, cur, files)
  BY <1>2 DEF JobOK
<1> QED
  BY <1>2, <1>3, <1>4, <1>5, Holder, Quiet, Strings DEF Named

\* Moving the run row keeps the rows' type.
LEMMA RunsTyped ==
  ASSUME NEW rs \in Seq(Run), NEW i \in DOMAIN rs, NEW s \in Stages,
         NEW u \in {"running", "success", "failure"}
  PROVE  /\ [rs EXCEPT ![i].stage = s] \in Seq(Run)
         /\ [rs EXCEPT ![i] = [stage |-> s, status |-> u]] \in Seq(Run)
<1>1. i \in 1..Len(rs) /\ rs[i] \in Run
  OBVIOUS
<1>2. [stage |-> s, status |-> u] \in Run
  BY DEF Run
<1>3. PICK r : r = [rs[i] EXCEPT !.stage = s]
  OBVIOUS
<1>4. r \in Run /\ [rs EXCEPT ![i].stage = s] = [rs EXCEPT ![i] = r]
  BY <1>1, <1>3 DEF Run
<1> QED
  BY <1>1, <1>2, <1>4, ExceptSeq

\* The stages between two commits of the run row.
LEMMA StageInv ==
  ASSUME IInv, NEW t \in Threads,
         \/ Stage(t, "querying", "querying", "fetch")
         \/ Stage(t, "received", "received", "compare")
         \/ Stage(t, "same", "comparing", "check")
         \/ Stage(t, "converting", "converting", "convert")
         \/ Stage(t, "storing", "storing", "store")
  PROVE  IInv'
<1>1. /\ Locked(t) /\ th[t].run \in DOMAIN runs
      /\ UNCHANGED <<prov, cur, files, lock, rest>>
  BY DEF Stage
<1>2. runs \in Seq(Run)
  BY DEF IInv, TypeOK
<1>a. PICK s \in Stages : runs' = [runs EXCEPT ![th[t].run].stage = s]
  BY Strings DEF Stage
<1>3. runs' \in Seq(Run)
  BY <1>1, <1>2, <1>a, RunsTyped
<1>4. JobOK(th[t], cur, files) /\ lock = t /\ th[t].pc \in Refreshing
  BY <1>1, Holder
<1>5. CASE th[t].pc = "querying" /\ Go(t, "fetch")
  BY <1>1, <1>3, <1>4, <1>5, GoQuiet, Strings
<1>6. CASE th[t].pc = "received" /\ Go(t, "compare")
  <2>1. th[t].doc \in Docs
    BY <1>4, <1>6 DEF JobOK
  <2> QED
    BY <1>1, <1>3, <1>4, <1>6, <2>1, GoQuiet, Strings
<1>7. CASE th[t].pc = "same" /\ Go(t, "check")
  <2>1. cur # NoRow
    BY <1>4, <1>7 DEF JobOK
  <2> QED
    BY <1>1, <1>3, <1>4, <1>7, <2>1, GoQuiet, Strings
<1>8. CASE th[t].pc = "converting" /\ Go(t, "convert")
  <2>1. th[t].doc \in Docs
    BY <1>4, <1>8 DEF JobOK
  <2> QED
    BY <1>1, <1>3, <1>4, <1>8, <2>1, GoQuiet, Strings
<1>9. CASE th[t].pc = "storing" /\ Go(t, "store")
  <2>1. th[t].doc \in Docs
    BY <1>4, <1>9 DEF JobOK
  <2> QED
    BY <1>1, <1>3, <1>4, <1>9, <2>1, GoQuiet, Strings
<1> QED
  BY <1>5, <1>6, <1>7, <1>8, <1>9 DEF Stage

\* The run row is closed and the refresh returns.
LEMMA CloseInv ==
  ASSUME IInv, NEW t \in Threads,
         \/ Close(t, "closesame", "finished", "success")
         \/ Close(t, "finish", "finished", "success")
         \/ Close(t, "closefail", "failed", "failure")
  PROVE  IInv'
<1>1. /\ Locked(t) /\ th[t].run \in DOMAIN runs
      /\ UNCHANGED <<prov, cur, files, rest>>
  BY DEF Close
<1>2. runs \in Seq(Run)
  BY DEF IInv, TypeOK
<1>a. PICK s \in Stages, u \in {"running", "success", "failure"} :
               runs' = [runs EXCEPT ![th[t].run] = [stage |-> s, status |-> u]]
  BY Strings DEF Close
<1>3. runs' \in Seq(Run)
  BY <1>1, <1>2, <1>a, RunsTyped
<1>4. Leave(t, "success") \/ Leave(t, "failure")
  BY DEF Close
<1> QED
  BY <1>1, <1>3, <1>4, Holder, LeaveInv

\* What has been fetched is a document of the source.
LEMMA FetchInv ==
  ASSUME IInv, NEW t \in Threads, NEW d \in Docs, Fetch(t, d)
  PROVE  IInv'
<1>0. th[t] \in Thread
  BY DEF IInv, TypeOK
<1>1. PICK x : x = [th[t] EXCEPT !.pc = "received", !.evt = "received",
                                 !.doc = d, !.src = prov.inc]
  OBVIOUS
<1>2. prov.inc \in 0..MaxIds
  BY DEF IInv, TypeOK, Provider
<1>3. x \in Thread /\ x.pc = "received" /\ x.doc = d /\ SameRequest(x, th[t])
  BY <1>1, <1>2, <1>0, Strings DEF Thread, SameRequest
<1>4. th' = [th EXCEPT ![t] = x] /\ UNCHANGED <<prov, cur, files, lock, rest>>
  BY <1>1 DEF Fetch, db
<1>5. runs' \in Seq(Run)
  BY DEF Fetch, db, IInv, TypeOK
<1>6. JobOK(x, cur, files)
  BY <1>3 DEF JobOK
<1> QED
  BY <1>3, <1>4, <1>5, <1>6, Holder, Quiet, Strings DEF Fetch

\* The except branch needs nothing but the lock.
LEMMA CaughtInv ==
  ASSUME IInv, NEW t \in Threads, Caught(t)
  PROVE  IInv'
<1>1. Locked(t) /\ Go(t, "fail") /\ UNCHANGED <<prov, cur, files, lock, rest>>
  BY DEF Caught, db
<1>2. runs' \in Seq(Run)
  BY DEF Caught, db, IInv, TypeOK
<1> QED
  BY <1>1, <1>2, Holder, GoQuiet, Strings

\* Unchanged content is the content of a version that exists.
LEMMA CompareInv ==
  ASSUME IInv, NEW t \in Threads, CompareSame(t) \/ CompareChanged(t)
  PROVE  IInv'
<1>0. th[t] \in Thread
  BY DEF IInv, TypeOK
<1>1. /\ Locked(t) /\ th[t].pc = "compare"
      /\ UNCHANGED <<prov, cur, files, lock, rest>>
  BY DEF CompareSame, CompareChanged, db
<1>2. runs' \in Seq(Run)
  BY DEF CompareSame, CompareChanged, db, IInv, TypeOK
<1>3. th[t].doc \in Docs
  BY <1>1, Holder DEF JobOK
<1>4. CASE CompareSame(t)
  <2>1. cur.doc \in Docs /\ Go(t, "same")
    BY <1>3, <1>4 DEF CompareSame, Unchanged
  <2>2. cur # NoRow
    BY <2>1, RefreshAssumption DEF NoRow
  <2> QED
    BY <1>1, <1>2, <2>1, <2>2, Holder, GoQuiet, Strings
<1>5. CASE CompareChanged(t)
  <2>1. PICK x : x = [th[t] EXCEPT !.pc = "converting", !.evt = "converting"]
    OBVIOUS
  <2>2. x \in Thread /\ x.pc = "converting" /\ x.doc = th[t].doc /\ SameRequest(x, th[t])
    BY <1>1, <2>1, <1>0, Strings DEF Thread, SameRequest
  <2>3. th' = [th EXCEPT ![t] = x]
    BY <1>5, <2>1 DEF CompareChanged
  <2>4. JobOK(x, cur, files)
    BY <1>3, <2>2 DEF JobOK
  <2> QED
    BY <1>1, <1>2, <2>2, <2>3, <2>4, Holder, Quiet, Strings
<1> QED
  BY <1>4, <1>5

\* The converted document is the one that was fetched.
LEMMA ConvertInv ==
  ASSUME IInv, NEW t \in Threads, Convert(t)
  PROVE  IInv'
<1>0. th[t] \in Thread
  BY DEF IInv, TypeOK
<1>1. PICK x : x = [th[t] EXCEPT !.pc = "storing", !.evt = "storing"]
  OBVIOUS
<1>2. /\ Locked(t) /\ th[t].pc = "convert"
      /\ UNCHANGED <<prov, cur, files, lock, rest>>
  BY DEF Convert, db
<1>3. x \in Thread /\ x.pc = "storing" /\ x.doc = th[t].doc /\ SameRequest(x, th[t])
  BY <1>1, <1>2, <1>0, Strings DEF Thread, SameRequest
<1>4. th' = [th EXCEPT ![t] = x]
  BY <1>1 DEF Convert
<1>5. runs' \in Seq(Run)
  BY DEF Convert, db, IInv, TypeOK
<1>6. JobOK(x, cur, files)
  BY <1>2, <1>3, Holder DEF JobOK
<1> QED
  BY <1>2, <1>3, <1>4, <1>5, <1>6, Holder, Quiet, Strings

\* The next sequence follows the newest row.
LEMMA StoreBeginInv ==
  ASSUME IInv, NEW t \in Threads, StoreBegin(t)
  PROVE  IInv'
<1>0. th[t] \in Thread
  BY DEF IInv, TypeOK
<1>1. PICK x : x = [th[t] EXCEPT !.pc = "write", !.seq = cur.seq + 1]
  OBVIOUS
<1>2. /\ Locked(t) /\ th[t].pc = "store" /\ cur.seq + 1 \in Nat
      /\ UNCHANGED <<prov, cur, files, lock, rest>>
  BY DEF StoreBegin, db, IInv, TypeOK, Rows
<1>3. /\ x \in Thread /\ x.pc = "write" /\ x.doc = th[t].doc /\ x.seq = cur.seq + 1
      /\ SameRequest(x, th[t])
  BY <1>1, <1>2, <1>0, Strings DEF Thread, SameRequest
<1>4. th' = [th EXCEPT ![t] = x]
  BY <1>1 DEF StoreBegin
<1>5. runs' \in Seq(Run)
  BY DEF StoreBegin, db, IInv, TypeOK
<1>6. JobOK(x, cur, files)
  BY <1>2, <1>3, Holder DEF JobOK
<1> QED
  BY <1>2, <1>3, <1>4, <1>5, <1>6, Holder, Quiet, Strings

\* The provider has a version when its content is found unchanged, so it may say
\* that it is fresh.
LEMMA CheckInv ==
  ASSUME IInv, NEW t \in Threads, Check(t)
  PROVE  IInv'
<1>0. th[t] \in Thread /\ prov \in Provider /\ runs \in Seq(Run)
  BY DEF IInv, TypeOK
<1>1. PICK x : x = [th[t] EXCEPT !.pc = "closesame", !.evt = "comparing"]
  OBVIOUS
<1>2. /\ Locked(t) /\ th[t].pc = "check" /\ prov' = [prov EXCEPT !.last = "fresh"]
      /\ cur' = cur /\ files' = files /\ runs' = runs /\ lock' = lock /\ UNCHANGED rest
      /\ th' = [th EXCEPT ![t] = x]
  BY <1>1 DEF Check
<1>3. x \in Thread /\ x.pc = "closesame" /\ SameRequest(x, th[t])
  BY <1>0, <1>1, Strings DEF Thread, SameRequest
<1>4. prov' \in Provider /\ prov'.inc = prov.inc /\ prov'.cur = prov.cur
  BY <1>0, <1>2 DEF Provider
<1>5. cur' \in Rows /\ cur.seq <= cur'.seq /\ files' \subseteq Nat \ {0} /\ RowInv'
  BY <1>2 DEF IInv, TypeOK, Rows, RowInv
<1>6. cur # NoRow
  BY <1>2, Holder DEF JobOK
<1>7. HealthBacked'
  BY <1>2, <1>4, <1>6, Holder DEF IInv, HealthBacked, RowInv
<1>8. JobOK(x, cur', files')
  BY <1>3 DEF JobOK
<1> QED
  BY <1>0, <1>2, <1>3, <1>4, <1>5, <1>7, <1>8, Holder, Works, Strings

\* The files are there before the row is.
LEMMA WriteFilesInv ==
  ASSUME IInv, NEW t \in Threads, WriteFiles(t)
  PROVE  IInv'
<1>1. /\ Locked(t) /\ th[t].pc = "write" /\ Go(t, "insert")
      /\ prov' = prov /\ cur' = cur /\ runs' = runs /\ lock' = lock /\ UNCHANGED rest
      /\ files' = files \cup {th[t].seq}
  BY DEF WriteFiles
<1>2. TypeOK /\ "insert" \in Pcs
  BY Strings DEF IInv
<1>3. PICK x \in Thread : /\ th' = [th EXCEPT ![t] = x] /\ x.pc = "insert"
                          /\ SameRequest(x, th[t]) /\ SameJob(x, th[t])
  BY <1>1, <1>2, GoState
<1>4. th[t].doc \in Docs /\ th[t].seq = cur.seq + 1
  BY <1>1, Holder DEF JobOK
<1>5. JobOK(x, cur', files')
  BY <1>1, <1>3, <1>4 DEF JobOK, SameJob
<1>6. cur.seq \in Nat /\ cur \in Rows
  BY DEF IInv, TypeOK, Rows
<1>a. th[t].seq \in Nat \ {0}
  BY <1>4, <1>6
<1>b. files \subseteq Nat \ {0}
  BY DEF IInv, TypeOK
<1>7. files' \subseteq Nat \ {0}
  BY <1>1, <1>a, <1>b
<1>8. RowInv' /\ HealthBacked'
  BY <1>1 DEF IInv, RowInv, HealthBacked
<1>9. prov' \in Provider /\ prov'.inc = prov.inc /\ runs' \in Seq(Run) /\ cur.seq <= cur'.seq
  BY <1>1, <1>6 DEF IInv, TypeOK
<1> QED
  BY <1>1, <1>3, <1>5, <1>6, <1>7, <1>8, <1>9, Holder, Works, Strings

\* The new row has its files, and is newer than the one it replaces.
LEMMA InsertRowInv ==
  ASSUME IInv, NEW t \in Threads, InsertRow(t)
  PROVE  IInv'
<1>1. /\ Locked(t) /\ th[t].pc = "insert" /\ Go(t, "prune")
      /\ prov' = prov /\ files' = files /\ runs' = runs /\ lock' = lock /\ UNCHANGED rest
      /\ cur' = [seq |-> th[t].seq, doc |-> th[t].doc, src |-> th[t].src]
  BY DEF InsertRow
<1>2. TypeOK /\ "prune" \in Pcs /\ th[t] \in Thread
  BY Strings DEF IInv, TypeOK
<1>3. PICK x \in Thread : /\ th' = [th EXCEPT ![t] = x] /\ x.pc = "prune"
                          /\ SameRequest(x, th[t]) /\ SameJob(x, th[t])
  BY <1>1, <1>2, GoState
<1>4. th[t].doc \in Docs /\ th[t].seq = cur.seq + 1 /\ th[t].seq \in files
  BY <1>1, Holder DEF JobOK
<1>5. cur.seq \in Nat /\ th[t].src \in 0..MaxIds
  BY <1>2 DEF IInv, TypeOK, Rows, Thread
<1>6. cur' \in Rows /\ cur.seq <= cur'.seq /\ cur' # NoRow
  BY <1>1, <1>4, <1>5, RefreshAssumption DEF Rows, NoRow
<1>7. JobOK(x, cur', files')
  BY <1>3, <1>6 DEF JobOK
<1>8. RowInv'
  BY <1>1, <1>4 DEF RowInv
<1>9. prov \in Provider /\ prov.cur \in Nat
  BY DEF IInv, TypeOK, Provider
<1>10. HealthBacked'
  BY <1>1, <1>4, <1>5, <1>9 DEF IInv, HealthBacked
<1>11. /\ prov' \in Provider /\ prov'.inc = prov.inc /\ runs' \in Seq(Run)
       /\ files' \subseteq Nat \ {0}
  BY <1>1 DEF IInv, TypeOK
<1> QED
  BY <1>1, <1>3, <1>6, <1>7, <1>8, <1>10, <1>11, Holder, Works, Strings

\* Pruning keeps the newest row.
LEMMA PruneInv ==
  ASSUME IInv, NEW t \in Threads, Prune(t)
  PROVE  IInv'
<1>1. /\ Locked(t) /\ th[t].pc = "prune" /\ Go(t, "health")
      /\ UNCHANGED <<prov, cur, files, lock, rest>>
  BY DEF Prune, db
<1>2. runs' \in Seq(Run)
  BY DEF Prune, db, IInv, TypeOK
<1>3. cur # NoRow
  BY <1>1, Holder DEF JobOK
<1> QED
  BY <1>1, <1>2, <1>3, Holder, GoQuiet, Strings

\* The provider names the newest version, which has its files.
LEMMA HealthInv ==
  ASSUME IInv, NEW t \in Threads, Health(t)
  PROVE  IInv'
<1>1. /\ Locked(t) /\ th[t].pc = "health" /\ Go(t, "finish")
      /\ cur' = cur /\ files' = files /\ runs' = runs /\ lock' = lock /\ UNCHANGED rest
      /\ prov' = [prov EXCEPT !.last = "fresh", !.err = FALSE, !.cur = cur.seq]
  BY DEF Health
<1>2. TypeOK /\ "finish" \in Pcs /\ prov \in Provider /\ cur \in Rows /\ cur.seq \in Nat
  BY Strings DEF IInv, TypeOK, Rows
<1>3. PICK x \in Thread : /\ th' = [th EXCEPT ![t] = x] /\ x.pc = "finish"
                          /\ SameRequest(x, th[t]) /\ SameJob(x, th[t])
  BY <1>1, <1>2, GoState
<1>4. prov' \in Provider /\ prov'.inc = prov.inc /\ prov'.cur = cur.seq
  BY <1>1, <1>2 DEF Provider
<1>5. cur # NoRow
  BY <1>1, Holder DEF JobOK
<1>6. RowInv' /\ cur.seq \in files
  BY <1>1, <1>5 DEF IInv, RowInv
<1>7. HealthBacked'
  BY <1>1, <1>2, <1>4, <1>6 DEF HealthBacked
<1>8. JobOK(x, cur', files')
  BY <1>3 DEF JobOK
<1>9. cur' \in Rows /\ cur.seq <= cur'.seq /\ runs' \in Seq(Run) /\ files' \subseteq Nat \ {0}
  BY <1>1, <1>2 DEF IInv, TypeOK
<1> QED
  BY <1>1, <1>3, <1>4, <1>6, <1>7, <1>8, <1>9, Holder, Works, Strings

\* A failure is recorded without touching versions or freshness.
LEMMA FailInv ==
  ASSUME IInv, NEW t \in Threads, Fail(t)
  PROVE  IInv'
<1>1. /\ Locked(t) /\ th[t].pc = "fail" /\ Go(t, "closefail")
      /\ cur' = cur /\ files' = files /\ runs' = runs /\ lock' = lock /\ UNCHANGED rest
      /\ prov' = [prov EXCEPT !.err = TRUE]
  BY DEF Fail
<1>2. TypeOK /\ "closefail" \in Pcs /\ prov \in Provider /\ cur \in Rows /\ cur.seq \in Nat
  BY Strings DEF IInv, TypeOK, Rows
<1>3. PICK x \in Thread : /\ th' = [th EXCEPT ![t] = x] /\ x.pc = "closefail"
                          /\ SameRequest(x, th[t]) /\ SameJob(x, th[t])
  BY <1>1, <1>2, GoState
<1>4. /\ prov' \in Provider /\ prov'.inc = prov.inc /\ prov'.cur = prov.cur
      /\ prov'.last = prov.last
  BY <1>1, <1>2 DEF Provider
<1>5. RowInv' /\ HealthBacked'
  BY <1>1, <1>4, Holder DEF IInv, RowInv, HealthBacked
<1>6. JobOK(x, cur', files')
  BY <1>3 DEF JobOK
<1>7. cur' \in Rows /\ cur.seq <= cur'.seq /\ runs' \in Seq(Run) /\ files' \subseteq Nat \ {0}
  BY <1>1, <1>2 DEF IInv, TypeOK
<1> QED
  BY <1>1, <1>3, <1>4, <1>5, <1>6, <1>7, Holder, Works, Strings

\* A commit that finds its row gone leaves the refresh.
LEMMA RowGoneInv ==
  ASSUME IInv, NEW t \in Threads, RowGone(t)
  PROVE  IInv'
<1>1. /\ Locked(t) /\ Escape(t) /\ files' = files /\ cut' \in BOOLEAN
      /\ UNCHANGED <<prov, cur, runs, up, del, used>>
  BY DEF RowGone, db
<1>2. RowInv' /\ HealthBacked'
  BY <1>1 DEF IInv, RowInv, HealthBacked
<1> QED
  BY <1>1, <1>2, Holder, EscapeInv

\* When the row cannot be committed its files go; they are not the newest row's.
LEMMA CommitFailsInv ==
  ASSUME IInv, NEW t \in Threads, CommitFails(t)
  PROVE  IInv'
<1>1. /\ Locked(t) /\ Escape(t) /\ prov' = prov /\ cur' = cur /\ runs' = runs
      /\ UNCHANGED <<prov, cur, runs, up, del, used>> /\ cut' \in BOOLEAN
      /\ files' \subseteq files
  BY DEF CommitFails
<1>2. cur.seq \in Nat
  BY DEF IInv, TypeOK, Rows
<1>3. cur.seq \in files => cur.seq \in files'
  <2>1. CASE th[t].pc = "insert"
    <3>1. th[t].seq = cur.seq + 1
      BY <1>1, <2>1, Holder DEF JobOK
    <3>2. files' = files \ {th[t].seq}
      BY <2>1 DEF CommitFails
    <3> QED
      BY <1>2, <3>1, <3>2
  <2>2. CASE th[t].pc # "insert"
    BY <2>2 DEF CommitFails
  <2> QED
    BY <2>1, <2>2
<1>4. RowInv' /\ HealthBacked'
  BY <1>1, <1>3 DEF IInv, RowInv, HealthBacked
<1> QED
  BY <1>1, <1>4, Holder, EscapeInv

-----------------------------------------------------------------------------
(* The steps outside a refresh *)

\* A thread that does not hold the lock goes on without taking it.
LEMMA Outside ==
  ASSUME IInv, NEW t \in Threads, th[t].pc \notin Refreshing,
         NEW x \in Thread, th' = [th EXCEPT ![t] = x],
         x.pc \notin Refreshing, x.pc = "idle" => x = Idle,
         ReadOK(x, cur.seq), UNCHANGED <<db, lock, rest>>
  PROVE  IInv'
<1>1. /\ prov' = prov /\ cur' = cur /\ files' = files /\ runs' = runs
      /\ lock' = lock /\ UNCHANGED <<up, del, used>> /\ cut' \in BOOLEAN
  BY DEF db, rest, IInv, TypeOK
<1>2. /\ prov' \in Provider /\ cur' \in Rows /\ cur.seq <= cur'.seq
      /\ files' \subseteq Nat \ {0} /\ runs' \in Seq(Run) /\ prov'.inc = prov.inc
  BY <1>1 DEF IInv, TypeOK, Rows
<1>3. RowInv' /\ HealthBacked' /\ lock # t
  BY <1>1 DEF IInv, RowInv, HealthBacked, OneRefresh
<1>4. ReadOK(x, cur'.seq) /\ UNCHANGED <<cur, files>>
  BY <1>1
<1> QED
  BY <1>1, <1>2, <1>3, <1>4, Preserved

\* The same when only the program counter moves, and not to the ETag.
LEMMA GoOutside ==
  ASSUME IInv, NEW t \in Threads, th[t].pc \in {"idle", "acquire", "relookup"},
         NEW p \in {"acquire", "relookup", "read"}, Go(t, p),
         UNCHANGED <<db, lock, rest>>
  PROVE  IInv'
<1>1. TypeOK /\ p \in Pcs \ Refreshing /\ th[t].pc \notin Refreshing
  BY Strings DEF IInv
<1>2. PICK x \in Thread : /\ th' = [th EXCEPT ![t] = x] /\ x.pc = p
                          /\ SameRequest(x, th[t])
  BY <1>1, GoState
<1>3. ReadOK(x, cur.seq)
  BY <1>2 DEF ReadOK, SameRequest, IInv, ReadInv
<1> QED
  BY <1>1, <1>2, <1>3, Outside

\* A request ends in an error page.
LEMMA ErrorInv ==
  ASSUME IInv, NEW t \in Threads, th[t].pc \notin Refreshing,
         NEW s \in {"500", "503"}, Error(t, s), UNCHANGED <<db, lock, rest>>
  PROVE  IInv'
<1>1. PICK x : x = [th[t] EXCEPT !.pc = "answered", !.status = s]
  OBVIOUS
<1>2. th[t] \in Thread /\ ReadOK(th[t], cur.seq)
  BY DEF IInv, TypeOK, ReadInv
<1>3. x \in Thread /\ x.pc = "answered" /\ x.from = th[t].from /\ x.status = s
  BY <1>1, <1>2, Strings DEF Thread
<1>4. th' = [th EXCEPT ![t] = x]
  BY <1>1 DEF Error
<1>5. ReadOK(x, cur.seq)
  BY <1>2, <1>3 DEF ReadOK
<1> QED
  BY <1>3, <1>4, <1>5, Outside, Strings

\* A thread comes to rest.
LEMMA RestInv ==
  ASSUME IInv, NEW t \in Threads, th[t].pc \notin Refreshing,
         th' = [th EXCEPT ![t] = Idle], UNCHANGED <<db, lock, rest>>
  PROVE  IInv'
<1>1. cur.seq \in Nat
  BY DEF IInv, TypeOK, Rows
<1>2. ReadOK(Idle, cur.seq)
  BY <1>1, IdleThread DEF ReadOK
<1> QED
  BY <1>2, IdleThread, Outside, Strings

\* A thread that finds the lock taken goes on without it.
LEMMA SkipInv ==
  ASSUME IInv, NEW t \in Threads, Skip(t)
  PROVE  IInv'
<1>1. th[t].pc \notin Refreshing /\ th[t].pc = "acquire" /\ UNCHANGED <<db, lock, rest>>
  BY Strings DEF Skip
<1>2. CASE t \in Jobs
  BY <1>1, <1>2, RestInv DEF Skip
<1>3. CASE t \notin Jobs
  BY <1>1, <1>3, GoOutside DEF Skip
<1> QED
  BY <1>2, <1>3

\* A free lock is taken and the refresh starts.
LEMMA AcquireInv ==
  ASSUME IInv, NEW t \in Threads, Acquire(t)
  PROVE  IInv'
<1>1. /\ th[t].pc = "acquire" /\ lock = Nobody /\ lock' = t /\ Go(t, "begin")
      /\ prov' = prov /\ cur' = cur /\ files' = files /\ runs' = runs
      /\ UNCHANGED <<up, del, used>> /\ cut' \in BOOLEAN
  BY DEF Acquire, db, rest, IInv, TypeOK
<1>2. TypeOK /\ "begin" \in Pcs /\ ReadOK(th[t], cur.seq)
  BY Strings DEF IInv, ReadInv
<1>3. PICK x \in Thread : /\ th' = [th EXCEPT ![t] = x] /\ x.pc = "begin"
                          /\ SameRequest(x, th[t])
  BY <1>1, <1>2, GoState
<1>4. JobOK(x, cur', files')
  BY <1>3 DEF JobOK
<1>5. ReadOK(x, cur'.seq)
  BY <1>1, <1>2, <1>3 DEF ReadOK, SameRequest
<1>6. /\ prov' \in Provider /\ cur' \in Rows /\ cur.seq <= cur'.seq
      /\ files' \subseteq Nat \ {0} /\ runs' \in Seq(Run) /\ prov'.inc = prov.inc
  BY <1>1 DEF IInv, TypeOK, Rows
<1>7. RowInv' /\ HealthBacked'
  BY <1>1 DEF IInv, RowInv, HealthBacked
<1> QED
  BY <1>1, <1>3, <1>4, <1>5, <1>6, <1>7, Preserved, Strings

\* A job starts at the lock.
LEMMA StartJobInv ==
  ASSUME IInv, NEW t \in Jobs, StartJob(t)
  PROVE  IInv'
<1>1. /\ t \in Threads /\ th[t].pc = "idle" /\ Go(t, "acquire")
      /\ UNCHANGED <<db, lock, rest>>
  BY DEF StartJob, Threads
<1> QED
  BY <1>1, GoOutside

\* A request remembers the newest sequence it could be answered with.
LEMMA StartRequestInv ==
  ASSUME IInv, NEW t \in Requests, StartRequest(t)
  PROVE  IInv'
<1>1. PICK q : q = IF prov.last = "fresh" THEN "read" ELSE "acquire"
  OBVIOUS
<1>2. PICK x : x = [th[t] EXCEPT !.pc = q, !.tok = prov.tok,
                                 !.was = (prov.last = "fresh"),
                                 !.err = prov.err, !.from = cur.seq]
  OBVIOUS
<1>3. /\ t \in Threads /\ th[t].pc = "idle" /\ UNCHANGED <<db, lock, rest>>
      /\ th' = [th EXCEPT ![t] = x]
  BY <1>1, <1>2 DEF StartRequest, Threads
<1>4. th[t] \in Thread /\ th[t] = Idle /\ cur.seq \in Nat
  BY <1>3 DEF IInv, TypeOK, Rows
<1>5. prov.tok \in 0..MaxIds /\ prov.err \in BOOLEAN
  BY DEF IInv, TypeOK, Provider
<1>6. q \in Pcs \ Refreshing /\ q \in {"read", "acquire"}
  BY <1>1, Strings
<1>7. /\ x \in Thread /\ x.pc = q /\ x.from = cur.seq /\ x.status = th[t].status
  BY <1>2, <1>4, <1>5, <1>6 DEF Thread
<1>8. ReadOK(x, cur.seq)
  BY <1>4, <1>6, <1>7, IdleThread DEF ReadOK
<1> QED
  BY <1>3, <1>6, <1>7, <1>8, Outside, Strings

\* The provider is looked up again by the request's token.
LEMMA RelookupInv ==
  ASSUME IInv, NEW t \in Threads, Relookup(t)
  PROVE  IInv'
<1>1. /\ th[t].pc \notin Refreshing /\ th[t].pc = "relookup"
      /\ UNCHANGED <<db, lock, rest>>
  BY Strings DEF Relookup
<1>2. Go(t, "read") \/ Error(t, "500")
  BY DEF Relookup
<1> QED
  BY <1>1, <1>2, GoOutside, ErrorInv

\* The body is the newest version at this moment.
LEMMA ReadStepInv ==
  ASSUME IInv, NEW t \in Threads, Read(t)
  PROVE  IInv'
<1>1. th[t].pc \notin Refreshing /\ UNCHANGED <<db, lock, rest>>
  BY Strings DEF Read
<1>2. \/ Error(t, "503") \/ Error(t, "500")
      \/ th' = [th EXCEPT ![t].pc = "etag", ![t].body = cur]
  BY DEF Read
<1>3. ASSUME th' = [th EXCEPT ![t].pc = "etag", ![t].body = cur]
      PROVE  IInv'
  <2>1. PICK x : x = [th[t] EXCEPT !.pc = "etag", !.body = cur]
    OBVIOUS
  <2>2. th[t] \in Thread /\ cur \in Rows /\ ReadOK(th[t], cur.seq) /\ cur.seq \in Nat
    BY DEF IInv, TypeOK, ReadInv, Rows
  <2>3. /\ x \in Thread /\ x.pc = "etag" /\ x.from = th[t].from /\ x.status = th[t].status
        /\ x.body = cur /\ x.tag = th[t].tag
    BY <2>1, <2>2, Strings DEF Thread
  <2>4. th' = [th EXCEPT ![t] = x]
    BY <1>3, <2>1
  <2>5. th[t].status # "200"
    BY <2>2 DEF Read, ReadOK
  <2>6. ReadOK(x, cur.seq)
    BY <2>2, <2>3, <2>5 DEF ReadOK
  <2> QED
    BY <1>1, <2>3, <2>4, <2>6, Outside, Strings
<1> QED
  BY <1>1, <1>2, <1>3, ErrorInv

\* The tag is read after the body.
LEMMA AnswerInv ==
  ASSUME IInv, NEW t \in Threads, Answer(t)
  PROVE  IInv'
<1>1. PICK b : b = (~th[t].was /\ th[t].err)
  OBVIOUS
<1>2. PICK x : x = [th[t] EXCEPT !.pc = "answered", !.status = "200",
                                 !.tag = cur, !.stale = b]
  OBVIOUS
<1>3. th[t] \in Thread /\ cur \in Rows /\ ReadOK(th[t], cur.seq) /\ cur.seq \in Nat
  BY DEF IInv, TypeOK, ReadInv, Rows
<1>4. b \in BOOLEAN
  BY <1>1
<1>5. /\ x \in Thread /\ x.pc = "answered" /\ x.from = th[t].from
      /\ x.body = th[t].body /\ x.tag = cur
  BY <1>2, <1>3, <1>4, Strings DEF Thread
<1>6. /\ th[t].pc = "etag" /\ th[t].pc \notin Refreshing
      /\ UNCHANGED <<db, lock, rest>>
  BY Strings DEF Answer
<1>7. th' = [th EXCEPT ![t] = x]
  BY <1>1, <1>2 DEF Answer
<1>8. ReadOK(x, cur.seq)
  BY <1>3, <1>5, <1>6 DEF ReadOK
<1> QED
  BY <1>5, <1>6, <1>7, <1>8, Outside, Strings

\* An answered thread comes to rest.
LEMMA DoneInv ==
  ASSUME IInv, NEW t \in Threads, Done(t)
  PROVE  IInv'
<1>1. /\ th[t].pc \notin Refreshing /\ th' = [th EXCEPT ![t] = Idle]
      /\ UNCHANGED <<db, lock, rest>>
  BY Strings DEF Done
<1> QED
  BY <1>1, RestInv

-----------------------------------------------------------------------------
(* The environment *)

\* The provider row changes, but neither its incarnation nor what it claims.
LEMMA ProviderInv ==
  ASSUME IInv, Rotate \/ Expire
  PROVE  IInv'
<1> USE RefreshAssumption
<1>1. /\ UNCHANGED <<up, cur, files, runs, lock, th, del, cut>>
      /\ used' \in 1..MaxIds
  BY DEF Rotate, Expire, rest, IInv, TypeOK
<1>2. prov \in Provider /\ used \in 1..MaxIds
  BY DEF IInv, TypeOK
<1>3. /\ prov' \in Provider /\ prov'.inc = prov.inc /\ prov'.cur = prov.cur
      /\ prov'.last # "never" => prov.last # "never"
  BY <1>2 DEF Rotate, Expire, Provider
<1>4. TypeOK'
  BY <1>1, <1>3 DEF IInv, TypeOK
<1>5. OneRefresh' /\ RowInv' /\ JobInv' /\ ReadInv'
  BY <1>1 DEF IInv, OneRefresh, RowInv, JobInv, ReadInv
<1>6. Alive'
  BY <1>1, <1>3 DEF IInv, Alive
<1>7. HealthBacked'
  <2>1. prov # NoProv
    BY DEF IInv, Alive, NoProv, NewProv
  <2> QED
    BY <1>1, <1>3, <2>1 DEF IInv, HealthBacked
<1> QED
  BY <1>4, <1>5, <1>6, <1>7 DEF IInv

\* Nothing happens to the database when the process dies, and nothing is left
\* of the threads.
LEMMA CrashInv ==
  ASSUME IInv, Crash
  PROVE  IInv'
<1> USE RefreshAssumption
<1>1. /\ up' = FALSE /\ del' = FALSE /\ lock' = Nobody /\ used' = used
      /\ prov' = prov /\ cur' = cur /\ files' = files /\ runs' = runs
      /\ th' = [t \in Threads |-> Idle] /\ cut' \in BOOLEAN
  BY DEF Crash, db, IInv, TypeOK
<1>2. \A t \in Threads : th'[t] = Idle
  BY <1>1
<1>3. TypeOK'
  BY <1>1, <1>2, IdleThread DEF IInv, TypeOK
<1>4. OneRefresh'
  BY <1>1, <1>2, IdleThread, Strings DEF OneRefresh
<1>5. Alive' /\ HealthBacked' /\ RowInv'
  BY <1>1 DEF IInv, Alive, HealthBacked, RowInv
<1>6. JobInv'
  BY <1>1 DEF JobInv
<1>7. cur'.seq \in Nat
  BY <1>1 DEF IInv, TypeOK, Rows
<1>8. ReadInv'
  BY <1>2, <1>7, IdleThread DEF ReadInv, ReadOK
<1> QED
  BY <1>3, <1>4, <1>5, <1>6, <1>8 DEF IInv

\* A step that changes no variable of the invariant but `up`.
LEMMA BootInv ==
  ASSUME IInv, Boot \/ UNCHANGED vars
  PROVE  IInv'
<1>1. /\ up' \in BOOLEAN
      /\ UNCHANGED <<prov, cur, files, runs, lock, th, del, used, cut>>
  BY DEF Boot, vars, db, IInv, TypeOK
<1>2. TypeOK'
  BY <1>1 DEF IInv, TypeOK
<1>3. OneRefresh' /\ Alive' /\ HealthBacked' /\ RowInv' /\ JobInv' /\ ReadInv'
  BY <1>1 DEF IInv, OneRefresh, Alive, HealthBacked, RowInv, JobInv, ReadInv
<1> QED
  BY <1>2, <1>3 DEF IInv

\* Nobody deletes the provider, so nobody creates it again.
LEMMA NeverDeleted ==
  ASSUME NoDelete, IInv
  PROVE  ~DeleteFiles /\ ~DeleteRows /\ ~Create
BY DEF NoDelete, IInv, Alive, DeleteFiles, DeleteRows, Create, NoProv, NewProv

-----------------------------------------------------------------------------
(* The invariant and what follows from it *)

\* Every step of a refresh.
LEMMA RefreshStepInv ==
  ASSUME IInv, NEW t \in Threads, RefreshStep(t)
  PROVE  IInv'
BY SkipInv, AcquireInv, BeginInv, CreateRunInv, NamedInv, StageInv, FetchInv,
   CaughtInv, CompareInv, CheckInv, CloseInv, ConvertInv, StoreBeginInv,
   WriteFilesInv, InsertRowInv, PruneInv, HealthInv, FailInv, RowGoneInv,
   CommitFailsInv DEF RefreshStep

\* The invariant holds at first.
LEMMA InitInv == Init => IInv
<1> SUFFICES ASSUME Init PROVE IInv
  OBVIOUS
<1> USE RefreshAssumption
<1>1. /\ up = FALSE /\ prov = NewProv(1) /\ cur = NoRow /\ files = {}
      /\ runs = <<>> /\ lock = Nobody /\ del = FALSE /\ used = 1 /\ cut = FALSE
      /\ th = [t \in Threads |-> Idle]
  BY DEF Init
<1>b. 0 \in 0..MaxIds /\ 1 \in 0..MaxIds /\ 1 \in 1..MaxIds
  OBVIOUS
<1>2. /\ prov \in Provider /\ prov.inc = 1 /\ prov.last = "never" /\ prov.cur = 0
  BY <1>1, <1>b DEF Provider, NewProv
<1>3. cur \in Rows /\ cur.seq = 0
  BY <1>1 DEF NoRow, Rows
<1>4. \A t \in Threads : th[t] = Idle
  BY <1>1
<1>c. th \in [Threads -> Thread] /\ runs \in Seq(Run)
  BY <1>1, IdleThread
<1>5. TypeOK
  BY <1>1, <1>2, <1>3, <1>4, <1>b, <1>c DEF TypeOK
<1>6. OneRefresh
  BY <1>1, <1>4, IdleThread, Strings DEF OneRefresh
<1>7. Alive /\ HealthBacked /\ RowInv /\ JobInv
  BY <1>1, <1>2, <1>3 DEF Alive, HealthBacked, RowInv, JobInv
<1>8. ReadInv
  BY <1>3, <1>4, IdleThread DEF ReadInv
<1> QED
  BY <1>5, <1>6, <1>7, <1>8 DEF IInv

\* The invariant is inductive as long as the provider is not deleted.
LEMMA NextInv ==
  ASSUME NoDelete, IInv, [Next]_vars
  PROVE  IInv'
<1>1. CASE \E t \in Jobs : StartJob(t)
  BY <1>1, StartJobInv
<1>2. CASE \E t \in Requests : StartRequest(t)
  BY <1>2, StartRequestInv
<1>3. CASE \E t \in Threads : Step(t)
  BY <1>3, RefreshStepInv, RelookupInv, ReadStepInv, AnswerInv, DoneInv
     DEF Step, ServeStep
<1>4. CASE Rotate \/ Expire
  BY <1>4, ProviderInv
<1>5. CASE DeleteFiles \/ DeleteRows \/ Create
  BY <1>5, NeverDeleted
<1>6. CASE Crash
  BY <1>6, CrashInv
<1>7. CASE Boot \/ UNCHANGED vars
  BY <1>7, BootInv
<1> QED
  BY <1>1, <1>2, <1>3, <1>4, <1>5, <1>6, <1>7 DEF Next

\* The inductive invariant, as long as the provider is not deleted.
THEOREM Invariance ==
  ASSUME NoDelete
  PROVE  Spec => []IInv
<1>1. Init => IInv
  BY InitInv
<1>2. IInv /\ [Next]_vars => IInv'
  BY NextInv
<1> QED
  BY <1>1, <1>2, PTL DEF Spec

\* A provider whose row says it has succeeded has a newest version with its
\* files, and current_version is never ahead of it.
THEOREM ClaimsBacked ==
  ASSUME NoDelete
  PROVE  Spec => []HealthBacked
<1>1. IInv => HealthBacked
  BY DEF IInv
<1> QED
  BY <1>1, Invariance, PTL

\* No answer is older than what was current when its request came in.
THEOREM Freshness ==
  ASSUME NoDelete
  PROVE  Spec => []NeverOlder
<1>1. IInv => NeverOlder
  BY DEF IInv, ReadInv, ReadOK, NeverOlder, Threads
<1> QED
  BY <1>1, Invariance, PTL

-----------------------------------------------------------------------------
(* The lock, also while the provider is deleted and created again            *)

\* The tables and the disk hold what they can hold.
Stored ==
  /\ prov \in Provider /\ cur \in Rows
  /\ files \subseteq Nat \ {0} /\ runs \in Seq(Run)

\* A step of thread t that leaves it in state x: it takes or gives back the
\* lock with the program counter.
LEMMA LockMoves ==
  ASSUME LockInv, NEW t \in Threads, NEW x \in Thread,
         th' = [th EXCEPT ![t] = x],
         x.pc = "idle" => x = Idle, x.pc = "write" => x.seq > 0,
         \/ lock' = t /\ lock \in {t, Nobody} /\ x.pc \in Refreshing
         \/ lock' = Nobody /\ lock = t /\ x.pc \notin Refreshing
         \/ lock' = lock /\ lock # t /\ x.pc \notin Refreshing,
         UNCHANGED <<up, del, used>>, cut' \in BOOLEAN, Stored'
  PROVE  LockInv'
<1> USE RefreshAssumption DEF LockInv
<1>1. TypeOK'
  BY DEF TypeOK, Stored
<1>2. OneRefresh'
  BY DEF TypeOK, OneRefresh
<1>3. Numbered'
  BY DEF TypeOK, Numbered
<1> QED
  BY <1>1, <1>2, <1>3

\* refresh returns or is left by an exception.
LEMMA LockEnds ==
  ASSUME LockInv, NEW t \in Threads, Locked(t),
         Escape(t) \/ \E o \in {"no", "success", "failure"} : Leave(t, o),
         UNCHANGED <<up, del, used>>, cut' \in BOOLEAN, Stored'
  PROVE  LockInv'
<1>1. lock = t /\ lock' = Nobody /\ th[t] \in Thread
  BY DEF Locked, Escape, Leave, LockInv, TypeOK
<1>2. CASE th' = [th EXCEPT ![t] = Idle]
  BY <1>1, <1>2, IdleThread, Strings, LockMoves
<1>3. ASSUME NEW o \in {"no", "success", "failure"},
             th' = [th EXCEPT ![t].pc = "relookup", ![t].tried = o]
      PROVE  LockInv'
  <2>1. PICK x : x = [th[t] EXCEPT !.pc = "relookup", !.tried = o]
    OBVIOUS
  <2>2. x \in Thread /\ x.pc = "relookup"
    BY <1>1, <2>1, Strings DEF Thread
  <2>3. th' = [th EXCEPT ![t] = x]
    BY <1>3, <2>1
  <2> QED
    BY <1>1, <2>2, <2>3, Strings, LockMoves
<1>4. ASSUME th' = [th EXCEPT ![t].pc = "answered", ![t].status = "500",
                              ![t].tried = "raised"]
      PROVE  LockInv'
  <2>1. PICK x : x = [th[t] EXCEPT !.pc = "answered", !.status = "500",
                                   !.tried = "raised"]
    OBVIOUS
  <2>2. x \in Thread /\ x.pc = "answered"
    BY <1>1, <2>1, Strings DEF Thread
  <2>3. th' = [th EXCEPT ![t] = x]
    BY <1>4, <2>1
  <2> QED
    BY <1>1, <2>2, <2>3, Strings, LockMoves
<1> QED
  BY <1>2, <1>3, <1>4 DEF Escape, Leave

\* The holder of the lock goes on inside _do_refresh.
LEMMA LockWorks ==
  ASSUME LockInv, NEW t \in Threads, Locked(t), lock' = lock,
         NEW x \in Thread, th' = [th EXCEPT ![t] = x], x.pc \in Refreshing,
         x.pc = "write" => x.seq > 0,
         UNCHANGED rest, Stored'
  PROVE  LockInv'
<1>1. x.pc # "idle" /\ lock = t
  BY Strings DEF Locked
<1>2. UNCHANGED <<up, del, used>> /\ cut' \in BOOLEAN
  BY DEF rest, LockInv, TypeOK
<1> QED
  BY <1>1, <1>2, LockMoves

\* The same when only the program counter moves.
LEMMA LockGoes ==
  ASSUME LockInv, NEW t \in Threads, Locked(t), lock' = lock,
         NEW p \in Refreshing \ {"write"}, Go(t, p), UNCHANGED rest, Stored'
  PROVE  LockInv'
<1>1. p \in Pcs /\ TypeOK
  BY Strings DEF LockInv
<1>2. PICK x \in Thread : th' = [th EXCEPT ![t] = x] /\ x.pc = p
  BY <1>1, GoState
<1> QED
  BY <1>2, LockWorks

\* The steps of _do_refresh that change the attributes of its thread.
LEMMA LockFields ==
  ASSUME LockInv, NEW t \in Threads,
         \/ CreateRun(t) \/ (Named(t) /\ prov # NoProv) \/ CompareChanged(t)
         \/ \E d \in Docs : Fetch(t, d)
         \/ Check(t) \/ Convert(t) \/ StoreBegin(t)
  PROVE  \E x \in Thread : /\ th' = [th EXCEPT ![t] = x]
                           /\ x.pc \in Refreshing
                           /\ x.pc = "write" => x.seq > 0
<1>0. /\ th[t] \in Thread /\ cur.seq + 1 \in Nat \ {0} /\ Len(runs) + 1 \in Nat
      /\ prov.inc \in 0..MaxIds
  BY DEF LockInv, TypeOK, Rows, Provider
<1>1. ASSUME CreateRun(t)
      PROVE  \E x \in Thread : /\ th' = [th EXCEPT ![t] = x]
                               /\ x.pc = "named"
  <2>1. PICK x : x = [th[t] EXCEPT !.pc = "named", !.run = Len(runs) + 1]
    OBVIOUS
  <2>2. x \in Thread /\ x.pc = "named"
    BY <1>0, <2>1, Strings DEF Thread
  <2> QED
    BY <1>1, <2>1, <2>2 DEF CreateRun
<1>2. ASSUME Named(t), prov # NoProv
      PROVE  \E x \in Thread : /\ th' = [th EXCEPT ![t] = x]
                               /\ x.pc = "querying"
  <2>1. PICK x : x = [th[t] EXCEPT !.pc = "querying", !.evt = "querying"]
    OBVIOUS
  <2>2. x \in Thread /\ x.pc = "querying"
    BY <1>0, <2>1, Strings DEF Thread
  <2> QED
    BY <1>2, <2>1, <2>2 DEF Named
<1>3. ASSUME CompareChanged(t)
      PROVE  \E x \in Thread : /\ th' = [th EXCEPT ![t] = x]
                               /\ x.pc = "converting"
  <2>1. PICK x : x = [th[t] EXCEPT !.pc = "converting", !.evt = "converting"]
    OBVIOUS
  <2>2. x \in Thread /\ x.pc = "converting"
    BY <1>0, <2>1, Strings DEF Thread
  <2> QED
    BY <1>3, <2>1, <2>2 DEF CompareChanged
<1>4. ASSUME NEW d \in Docs, Fetch(t, d)
      PROVE  \E x \in Thread : /\ th' = [th EXCEPT ![t] = x]
                               /\ x.pc = "received"
  <2>1. PICK x : x = [th[t] EXCEPT !.pc = "received", !.evt = "received",
                                   !.doc = d, !.src = prov.inc]
    OBVIOUS
  <2>2. x \in Thread /\ x.pc = "received"
    BY <1>0, <2>1, Strings DEF Thread
  <2> QED
    BY <1>4, <2>1, <2>2 DEF Fetch
<1>5. ASSUME Check(t)
      PROVE  \E x \in Thread : /\ th' = [th EXCEPT ![t] = x]
                               /\ x.pc = "closesame"
  <2>1. PICK x : x = [th[t] EXCEPT !.pc = "closesame", !.evt = "comparing"]
    OBVIOUS
  <2>2. x \in Thread /\ x.pc = "closesame"
    BY <1>0, <2>1, Strings DEF Thread
  <2> QED
    BY <1>5, <2>1, <2>2 DEF Check
<1>6. ASSUME Convert(t)
      PROVE  \E x \in Thread : /\ th' = [th EXCEPT ![t] = x]
                               /\ x.pc = "storing"
  <2>1. PICK x : x = [th[t] EXCEPT !.pc = "storing", !.evt = "storing"]
    OBVIOUS
  <2>2. x \in Thread /\ x.pc = "storing"
    BY <1>0, <2>1, Strings DEF Thread
  <2> QED
    BY <1>6, <2>1, <2>2 DEF Convert
<1>7. ASSUME StoreBegin(t)
      PROVE  \E x \in Thread : /\ th' = [th EXCEPT ![t] = x]
                               /\ x.pc = "write" /\ x.seq > 0
  <2>1. PICK x : x = [th[t] EXCEPT !.pc = "write", !.seq = cur.seq + 1]
    OBVIOUS
  <2>2. x.seq = cur.seq + 1 /\ x.seq > 0
    BY <1>0, <2>1 DEF Thread
  <2>3. x \in Thread /\ x.pc = "write"
    BY <1>0, <2>1, Strings DEF Thread
  <2> QED
    BY <1>7, <2>1, <2>2, <2>3 DEF StoreBegin
<1> QED
  BY <1>1, <1>2, <1>3, <1>4, <1>5, <1>6, <1>7, Strings

\* Every step of refresh keeps the tables typed.
LEMMA StoredKept ==
  ASSUME LockInv, NEW t \in Threads, RefreshStep(t)
  PROVE  Stored'
<1>0. Stored /\ th[t] \in Thread
  BY DEF LockInv, TypeOK, Stored
<1>1. prov' \in Provider
  <2>1. CASE prov' = prov
    BY <1>0, <2>1 DEF Stored
  <2>2. CASE prov' # prov
    <3>1. Check(t) \/ Health(t) \/ Fail(t)
      BY <2>2
      DEF RefreshStep, Skip, Acquire, Begin, CreateRun, Named, Stage, Fetch,
          Caught, CompareSame, CompareChanged, Close, Convert, StoreBegin,
          WriteFiles, InsertRow, Prune, RowGone, CommitFails, db
    <3>2. prov \in Provider /\ cur.seq \in Nat
      BY <1>0 DEF Stored, Rows
    <3>3. CASE Health(t)
      <4>1. PICK p : p = [prov EXCEPT !.last = "fresh", !.err = FALSE, !.cur = cur.seq]
        OBVIOUS
      <4>2. p \in Provider
        BY <3>2, <4>1 DEF Provider
      <4> QED
        BY <3>3, <4>1, <4>2 DEF Health
    <3>4. CASE Check(t) \/ Fail(t)
      BY <3>2, <3>4 DEF Check, Fail, Provider
    <3> QED
      BY <3>1, <3>3, <3>4
  <2> QED
    BY <2>1, <2>2
<1>2. cur' \in Rows
  <2>1. CASE cur' = cur
    BY <1>0, <2>1 DEF Stored
  <2>2. CASE cur' # cur
    <3>1. InsertRow(t)
      BY <2>2
      DEF RefreshStep, Skip, Acquire, Begin, CreateRun, Named, Stage, Fetch,
          Caught, CompareSame, CompareChanged, Check, Close, Convert,
          StoreBegin, WriteFiles, Prune, Health, Fail, RowGone, CommitFails, db
    <3> QED
      BY <1>0, <3>1 DEF InsertRow, Thread, Rows
  <2> QED
    BY <2>1, <2>2
<1>3. files' \subseteq Nat \ {0}
  <2>1. CASE files' \subseteq files
    BY <1>0, <2>1 DEF Stored
  <2>2. CASE ~(files' \subseteq files)
    <3>1. WriteFiles(t)
      BY <2>2
      DEF RefreshStep, Skip, Acquire, Begin, CreateRun, Named, Stage, Fetch,
          Caught, CompareSame, CompareChanged, Check, Close, Convert,
          StoreBegin, InsertRow, Prune, Health, Fail, RowGone, CommitFails, db
    <3>2. th[t].seq \in Nat \ {0}
      BY <1>0, <3>1 DEF WriteFiles, LockInv, Numbered, Thread
    <3> QED
      BY <1>0, <3>1, <3>2 DEF WriteFiles, Stored
  <2> QED
    BY <2>1, <2>2
<1>4. runs' \in Seq(Run)
  <2>0. runs \in Seq(Run)
    BY <1>0 DEF Stored
  <2>1. CASE runs' = runs
    BY <2>0, <2>1
  <2>2. CASE CreateRun(t)
    <3>1. [stage |-> "querying", status |-> "running"] \in Run
      BY Strings DEF Run
    <3> QED
      BY <2>0, <2>2, <3>1 DEF CreateRun
  <2>3. CASE \/ Stage(t, "querying", "querying", "fetch")
             \/ Stage(t, "received", "received", "compare")
             \/ Stage(t, "same", "comparing", "check")
             \/ Stage(t, "converting", "converting", "convert")
             \/ Stage(t, "storing", "storing", "store")
    <3>1. PICK s \in Stages : runs' = [runs EXCEPT ![th[t].run].stage = s]
      BY <2>3, Strings DEF Stage
    <3>2. th[t].run \in DOMAIN runs
      BY <2>3 DEF Stage
    <3> QED
      BY <2>0, <3>1, <3>2, RunsTyped
  <2>4. CASE \/ Close(t, "closesame", "finished", "success")
             \/ Close(t, "finish", "finished", "success")
             \/ Close(t, "closefail", "failed", "failure")
    <3>1. PICK s \in Stages, u \in {"running", "success", "failure"} :
            runs' = [runs EXCEPT ![th[t].run] = [stage |-> s, status |-> u]]
      BY <2>4, Strings DEF Close
    <3>2. th[t].run \in DOMAIN runs
      BY <2>4 DEF Close
    <3> QED
      BY <2>0, <3>1, <3>2, RunsTyped
  <2>5. CASE ~(runs' = runs) /\ ~CreateRun(t)
    <3>1. \/ Stage(t, "querying", "querying", "fetch")
          \/ Stage(t, "received", "received", "compare")
          \/ Stage(t, "same", "comparing", "check")
          \/ Stage(t, "converting", "converting", "convert")
          \/ Stage(t, "storing", "storing", "store")
          \/ Close(t, "closesame", "finished", "success")
          \/ Close(t, "finish", "finished", "success")
          \/ Close(t, "closefail", "failed", "failure")
      BY <2>5
      DEF RefreshStep, Skip, Acquire, Begin, Named, Fetch, Caught, CompareSame,
          CompareChanged, Check, Convert, StoreBegin, WriteFiles, InsertRow,
          Prune, Health, Fail, RowGone, CommitFails, db
    <3> QED
      BY <2>3, <2>4, <3>1
  <2> QED
    BY <2>1, <2>2, <2>5
<1> QED
  BY <1>1, <1>2, <1>3, <1>4 DEF Stored

\* A thread outside goes on, ends in an error page or comes to rest.
LEMMA LockOutside ==
  ASSUME LockInv, NEW t \in Threads, th[t].pc \notin Refreshing,
         NEW x \in Thread, th' = [th EXCEPT ![t] = x],
         x.pc \notin Refreshing, x.pc = "idle" => x = Idle,
         UNCHANGED <<db, lock, rest>>
  PROVE  LockInv'
<1>1. /\ lock' = lock /\ lock # t /\ UNCHANGED <<up, del, used>>
      /\ cut' \in BOOLEAN /\ x.pc # "write"
  BY Strings DEF rest, LockInv, TypeOK, OneRefresh
<1>2. Stored'
  BY DEF db, LockInv, TypeOK, Stored
<1> QED
  BY <1>1, <1>2, LockMoves

LEMMA LockGoesOutside ==
  ASSUME LockInv, NEW t \in Threads, th[t].pc \notin Refreshing,
         NEW p \in {"acquire", "relookup", "read"}, Go(t, p),
         UNCHANGED <<db, lock, rest>>
  PROVE  LockInv'
<1>1. TypeOK /\ p \in Pcs \ Refreshing /\ p # "idle"
  BY Strings DEF LockInv
<1>2. PICK x \in Thread : th' = [th EXCEPT ![t] = x] /\ x.pc = p
  BY <1>1, GoState
<1> QED
  BY <1>1, <1>2, LockOutside

LEMMA LockError ==
  ASSUME LockInv, NEW t \in Threads, th[t].pc \notin Refreshing,
         NEW s \in {"500", "503"}, Error(t, s), UNCHANGED <<db, lock, rest>>
  PROVE  LockInv'
<1>1. PICK x : x = [th[t] EXCEPT !.pc = "answered", !.status = s]
  OBVIOUS
<1>2. th[t] \in Thread
  BY DEF LockInv, TypeOK
<1>3. x \in Thread /\ x.pc = "answered"
  BY <1>1, <1>2, Strings DEF Thread
<1>4. th' = [th EXCEPT ![t] = x]
  BY <1>1 DEF Error
<1> QED
  BY <1>3, <1>4, Strings, LockOutside

\* Each step of refresh() and of _do_refresh.
LEMMA LockRefresh ==
  ASSUME LockInv, NEW t \in Threads, RefreshStep(t)
  PROVE  LockInv'
<1>1. CASE Skip(t)
  <2>1. th[t].pc \notin Refreshing /\ UNCHANGED <<db, lock, rest>>
    BY <1>1, Strings DEF Skip
  <2> QED
    BY <1>1, <2>1, IdleThread, Strings, LockOutside, LockGoesOutside DEF Skip
<1>2. CASE Acquire(t)
  <2>1. PICK x \in Thread : th' = [th EXCEPT ![t] = x] /\ x.pc = "begin"
    BY <1>2, GoState, Strings DEF Acquire, LockInv
  <2> QED
    BY <1>2, <2>1, StoredKept, LockMoves, Strings
    DEF Acquire, rest, LockInv, TypeOK
<1>3. CASE Begin(t) /\ prov = NoProv
  BY <1>3, StoredKept, LockEnds DEF Begin, rest, LockInv, TypeOK
<1>4. CASE Begin(t) /\ prov # NoProv
  BY <1>4, StoredKept, LockGoes, Strings DEF Begin
<1>5. CASE Named(t) /\ prov = NoProv
  BY <1>5, StoredKept, LockEnds DEF Named
<1>6. CASE \/ CreateRun(t) \/ (Named(t) /\ prov # NoProv) \/ CompareChanged(t)
           \/ \E d \in Docs : Fetch(t, d)
           \/ Check(t) \/ Convert(t) \/ StoreBegin(t)
  <2>1. PICK x \in Thread : /\ th' = [th EXCEPT ![t] = x]
                            /\ x.pc \in Refreshing
                            /\ x.pc = "write" => x.seq > 0
    BY <1>6, LockFields
  <2>2. Locked(t) /\ UNCHANGED <<lock, rest>>
    BY <1>6
    DEF CreateRun, Named, CompareChanged, Fetch, Check, Convert, StoreBegin, rest
  <2> QED
    BY <2>1, <2>2, StoredKept, LockWorks
<1>7. CASE \/ Close(t, "closesame", "finished", "success")
           \/ Close(t, "finish", "finished", "success")
           \/ Close(t, "closefail", "failed", "failure")
  BY <1>7, StoredKept, LockEnds DEF Close, rest, LockInv, TypeOK
<1>8. CASE RowGone(t) \/ CommitFails(t)
  BY <1>8, StoredKept, LockEnds DEF RowGone, CommitFails
<1>9. CASE \/ Stage(t, "querying", "querying", "fetch")
           \/ Stage(t, "received", "received", "compare")
           \/ Stage(t, "same", "comparing", "check")
           \/ Stage(t, "converting", "converting", "convert")
           \/ Stage(t, "storing", "storing", "store")
           \/ Caught(t) \/ CompareSame(t) \/ WriteFiles(t) \/ InsertRow(t)
           \/ Prune(t) \/ Health(t) \/ Fail(t)
  <2>1. \E p \in Refreshing \ {"write"} : Go(t, p)
    BY <1>9, Strings
    DEF Stage, Caught, CompareSame, WriteFiles, InsertRow, Prune, Health, Fail
  <2>2. Locked(t) /\ UNCHANGED <<lock, rest>>
    BY <1>9
    DEF Stage, Caught, CompareSame, WriteFiles, InsertRow, Prune, Health, Fail
  <2> QED
    BY <2>1, <2>2, StoredKept, LockGoes
<1> QED
  BY <1>1, <1>2, <1>3, <1>4, <1>5, <1>6, <1>7, <1>8, <1>9 DEF RefreshStep

\* A trigger, and the steps of serve_subscription around its refresh.
LEMMA LockServes ==
  ASSUME LockInv, NEW t \in Threads,
         StartJob(t) \/ StartRequest(t) \/ ServeStep(t)
  PROVE  LockInv'
<1>0. th[t] \in Thread /\ cur \in Rows /\ cur.seq \in Nat
  BY DEF LockInv, TypeOK, Rows
<1>1. th[t].pc \notin Refreshing /\ UNCHANGED <<db, lock, rest>>
  BY Strings
  DEF StartJob, StartRequest, ServeStep, Relookup, Read, Answer, Done
<1>2. CASE StartJob(t)
  BY <1>1, <1>2, LockGoesOutside DEF StartJob
<1>3. CASE StartRequest(t)
  <2>1. PICK q : q = IF prov.last = "fresh" THEN "read" ELSE "acquire"
    OBVIOUS
  <2>2. PICK x : x = [th[t] EXCEPT !.pc = q, !.tok = prov.tok,
                                   !.was = (prov.last = "fresh"),
                                   !.err = prov.err, !.from = cur.seq]
    OBVIOUS
  <2>3. prov.tok \in 0..MaxIds /\ prov.err \in BOOLEAN
    BY DEF LockInv, TypeOK, Provider
  <2>4. q \in Pcs \ Refreshing /\ q # "idle"
    BY <2>1, Strings
  <2>5. x \in Thread /\ x.pc = q
    BY <1>0, <2>2, <2>3, <2>4 DEF Thread
  <2>6. th' = [th EXCEPT ![t] = x]
    BY <1>3, <2>1, <2>2 DEF StartRequest
  <2> QED
    BY <1>1, <2>4, <2>5, <2>6, LockOutside
<1>4. CASE Relookup(t)
  BY <1>1, <1>4, LockGoesOutside, LockError DEF Relookup
<1>5. CASE Read(t)
  <2>1. CASE Error(t, "503") \/ Error(t, "500")
    BY <1>1, <2>1, LockError
  <2>2. CASE th' = [th EXCEPT ![t].pc = "etag", ![t].body = cur]
    <3>1. PICK x : x = [th[t] EXCEPT !.pc = "etag", !.body = cur]
      OBVIOUS
    <3>2. x \in Thread /\ x.pc = "etag"
      BY <1>0, <3>1, Strings DEF Thread
    <3> QED
      BY <1>1, <2>2, <3>1, <3>2, Strings, LockOutside
  <2> QED
    BY <1>5, <2>1, <2>2 DEF Read
<1>6. CASE Answer(t)
  <2>1. PICK b : b = (~th[t].was /\ th[t].err)
    OBVIOUS
  <2>2. PICK x : x = [th[t] EXCEPT !.pc = "answered", !.status = "200",
                                   !.tag = cur, !.stale = b]
    OBVIOUS
  <2>3. x \in Thread /\ x.pc = "answered"
    <3>1. b \in BOOLEAN
      BY <2>1
    <3> QED
      BY <1>0, <2>2, <3>1, Strings DEF Thread
  <2>4. th' = [th EXCEPT ![t] = x]
    BY <1>6, <2>1, <2>2 DEF Answer
  <2> QED
    BY <1>1, <2>3, <2>4, Strings, LockOutside
<1>7. CASE Done(t)
  BY <1>1, <1>7, IdleThread, Strings, LockOutside DEF Done
<1> QED
  BY <1>2, <1>3, <1>4, <1>5, <1>6, <1>7 DEF ServeStep

\* What goes on around the threads does not touch the lock, but for a crash.
LEMMA LockAround ==
  ASSUME LockInv,
         \/ Rotate \/ DeleteFiles \/ DeleteRows \/ Create \/ Expire
         \/ Boot \/ UNCHANGED vars
  PROVE  LockInv'
<1> USE RefreshAssumption
<1>1. UNCHANGED <<lock, th>>
  BY DEF Rotate, DeleteFiles, DeleteRows, Create, Expire, Boot, vars
<1>2. used' = used \/ (used' = used + 1 /\ used < MaxIds)
  BY DEF Rotate, DeleteFiles, DeleteRows, Create, Expire, Boot, vars, rest
<1>3. up' \in BOOLEAN /\ del' \in BOOLEAN /\ cut' \in BOOLEAN
  <2>1. up \in BOOLEAN /\ del \in BOOLEAN /\ cut \in BOOLEAN
    BY DEF LockInv, TypeOK
  <2>2. /\ up' = up \/ up' = TRUE
        /\ del' = del \/ del' = TRUE \/ del' = FALSE
        /\ cut' = cut
    BY DEF Rotate, DeleteFiles, DeleteRows, Create, Expire, Boot, vars, rest
  <2> QED
    BY <2>1, <2>2
<1>4. used \in 1..MaxIds /\ used' \in 1..MaxIds
  BY <1>2 DEF LockInv, TypeOK
<1>5. prov' \in Provider
  <2>1. \A id \in 0..MaxIds : NewProv(id) \in Provider
    BY DEF NewProv, Provider
  <2>2. prov \in Provider /\ used \in 1..MaxIds
    BY DEF LockInv, TypeOK
  <2>3. CASE DeleteRows
    BY <2>1, <2>3 DEF DeleteRows, NoProv
  <2>4. CASE Create
    <3>1. used + 1 \in 0..MaxIds
      BY <2>2, <2>4 DEF Create
    <3> QED
      BY <2>1, <2>4, <3>1 DEF Create
  <2>5. CASE Rotate \/ Expire
    BY <2>2, <2>5 DEF Rotate, Expire, Provider
  <2>6. CASE DeleteFiles \/ Boot \/ UNCHANGED vars
    BY <2>2, <2>6 DEF DeleteFiles, Boot, vars, db
  <2> QED
    BY <2>3, <2>4, <2>5, <2>6
<1>6. cur' \in Rows /\ files' \subseteq Nat \ {0} /\ runs' \in Seq(Run)
  <2>1. NoRow \in Rows /\ <<>> \in Seq(Run)
    BY DEF NoRow, Rows
  <2>2. /\ cur' = cur \/ cur' = NoRow
        /\ files' = files \/ files' = {}
        /\ runs' = runs \/ runs' = <<>>
    BY DEF Rotate, DeleteFiles, DeleteRows, Create, Expire, Boot, vars, db
  <2>3. cur \in Rows /\ files \subseteq Nat \ {0} /\ runs \in Seq(Run)
    BY DEF LockInv, TypeOK
  <2> QED
    BY <2>1, <2>2, <2>3
<1> QED
  BY <1>1, <1>3, <1>4, <1>5, <1>6 DEF LockInv, TypeOK, OneRefresh, Numbered

LEMMA LockCrash ==
  ASSUME LockInv, Crash
  PROVE  LockInv'
<1> USE RefreshAssumption
<1>1. /\ up' = FALSE /\ del' = FALSE /\ lock' = Nobody /\ UNCHANGED <<db, used>>
      /\ th' = [t \in Threads |-> Idle] /\ cut' \in BOOLEAN
  BY DEF Crash, LockInv, TypeOK
<1>2. TypeOK'
  BY <1>1, IdleThread DEF LockInv, TypeOK, db
<1>3. OneRefresh' /\ Numbered'
  BY <1>1, IdleThread, Strings DEF OneRefresh, Numbered
<1> QED
  BY <1>2, <1>3 DEF LockInv

LEMMA LockNext ==
  ASSUME LockInv, [Next]_vars
  PROVE  LockInv'
<1>1. CASE \E t \in Jobs : StartJob(t)
  BY <1>1, LockServes DEF Threads
<1>2. CASE \E t \in Requests : StartRequest(t)
  BY <1>2, LockServes DEF Threads
<1>3. CASE \E t \in Threads : Step(t)
  BY <1>3, LockRefresh, LockServes DEF Step
<1> QED
  BY <1>1, <1>2, <1>3, LockAround, LockCrash DEF Next

LEMMA LockInvariance == Spec => []LockInv
<1>1. Init => LockInv
  <2>1. Init => Numbered
    BY IdleThread DEF Init, Numbered
  <2> QED
    BY <2>1, InitInv DEF LockInv, IInv
<1>2. LockInv /\ [Next]_vars => LockInv'
  BY LockNext
<1> QED
  BY <1>1, <1>2, PTL DEF Spec

\* Simultaneous triggers perform one fetch: only the holder of the provider's
\* lock is inside _do_refresh, whatever fails, whenever the process dies, and
\* also when the provider is deleted and another one takes its id meanwhile.
THEOREM SingleRefresh == Spec => []OneRefresh
<1>1. LockInv => OneRefresh
  BY DEF LockInv
<1> QED
  BY <1>1, LockInvariance, PTL

\* Every variable has its type, and a thread at rest has loaded nothing, whatever
\* happens to the provider.
THEOREM TypeCorrect == Spec => []TypeOK
<1>1. LockInv => TypeOK
  BY DEF LockInv
<1> QED
  BY <1>1, LockInvariance, PTL

-----------------------------------------------------------------------------
(* A process that is down runs no thread *)

DownInv == ~up => \A t \in Threads : th[t].pc = "idle"

\* A thread at rest takes no step but the one that starts it, and no step mends
\* what was cut short.
LEMMA Busy ==
  ASSUME NEW t, Step(t)
  PROVE  th[t].pc # "idle" /\ up' = up /\ (cut => cut')
<1>1. CASE ServeStep(t)
  BY <1>1 DEF ServeStep, Relookup, Read, Answer, Done, rest
<1>2. CASE RowGone(t) \/ CommitFails(t) \/ Named(t)
  BY <1>2 DEF RowGone, CommitFails, RunCommits, ProvCommits, Named
<1>3. CASE Caught(t)
  BY <1>3 DEF Caught, rest
<1>4. CASE /\ RefreshStep(t)
           /\ ~(RowGone(t) \/ CommitFails(t) \/ Named(t) \/ Caught(t))
  <2>1. UNCHANGED rest
    BY <1>4 DEF RefreshStep, Skip, Acquire, Begin, CreateRun, Stage, Close,
       Fetch, CompareSame, CompareChanged, Check, Convert, StoreBegin,
       WriteFiles, InsertRow, Prune, Health, Fail
  <2>2. th[t].pc # "idle"
    BY <1>4 DEF RefreshStep, Skip, Acquire, Begin, CreateRun, Stage, Close,
       Fetch, CompareSame, CompareChanged, Check, Convert, StoreBegin,
       WriteFiles, InsertRow, Prune, Health, Fail
  <2> QED
    BY <2>1, <2>2 DEF rest
<1> QED
  BY <1>1, <1>2, <1>3, <1>4 DEF Step

\* No thread runs in a process that is down.
LEMMA Down == Spec => []DownInv
<1>1. Init => DownInv
  BY IdleThread DEF Init, DownInv
<1>2. DownInv /\ [Next]_vars => DownInv'
  <2> SUFFICES ASSUME DownInv, [Next]_vars, ~up', NEW t \in Threads
               PROVE  th'[t].pc = "idle"
    BY DEF DownInv
  <2>1. CASE \E u \in Threads : Step(u)
    BY <2>1, Busy DEF DownInv
  <2>2. CASE \E u \in Jobs : StartJob(u)
    BY <2>2 DEF StartJob, rest
  <2>3. CASE \E u \in Requests : StartRequest(u)
    BY <2>3 DEF StartRequest, rest
  <2>4. CASE Rotate \/ DeleteFiles \/ DeleteRows \/ Create \/ Boot
    BY <2>4 DEF Rotate, DeleteFiles, DeleteRows, Create, Boot
  <2>5. CASE Crash
    BY <2>5, IdleThread DEF Crash
  <2>6. CASE Expire \/ UNCHANGED vars
    BY <2>6 DEF Expire, vars, rest, DownInv
  <2> QED
    BY <2>1, <2>2, <2>3, <2>4, <2>5, <2>6 DEF Next
<1> QED
  BY <1>1, <1>2, PTL DEF Spec

-----------------------------------------------------------------------------
(* The refresh implements the register *)

LGVars == <<cur.seq, cur.doc, cur.doc, TRUE, up>>

\* A step of a refresh publishes the next document or leaves the register alone.
LEMMA RefreshRegister ==
  ASSUME IInv, DownInv, NEW t \in Threads, RefreshStep(t)
  PROVE  LG!Next \/ UNCHANGED LGVars
<1>1. CASE InsertRow(t)
  <2>1. Locked(t) /\ th[t].pc = "insert" /\ up' = up
        /\ cur' = [seq |-> th[t].seq, doc |-> th[t].doc, src |-> th[t].src]
    BY <1>1 DEF InsertRow, rest
  <2>2. th[t].doc \in Docs /\ th[t].seq = cur.seq + 1
    BY <2>1, Holder DEF JobOK
  <2>3. up
    BY <2>1 DEF DownInv
  <2> QED
    BY <2>1, <2>2, <2>3 DEF LG!Next, LG!Publish
<1>2. CASE ~InsertRow(t)
  <2>1. cur' = cur /\ up' = up
    BY <1>2 DEF RefreshStep, Skip, Acquire, Begin, CreateRun, Named, Stage, Close,
       Fetch, Caught, CompareSame, CompareChanged, Check, Convert, StoreBegin,
       WriteFiles, Prune, Health, Fail, RowGone, CommitFails, db, rest
  <2> QED
    BY <2>1 DEF LGVars
<1> QED
  BY <1>1, <1>2

\* Every step publishes the next document, starts or stops the process, or
\* leaves the register alone.
LEMMA NextRegister ==
  ASSUME NoDelete, IInv, DownInv, [Next]_vars
  PROVE  LG!Next \/ UNCHANGED LGVars
<1>1. CASE \E t \in Threads : Step(t)
  <2>1. PICK t \in Threads : Step(t)
    BY <1>1
  <2>2. CASE RefreshStep(t)
    BY <2>2, RefreshRegister
  <2>3. CASE ServeStep(t)
    BY <2>3 DEF ServeStep, Relookup, Read, Answer, Done, db, rest, LGVars
  <2> QED
    BY <2>1, <2>2, <2>3 DEF Step
<1>2. CASE \E t \in Jobs : StartJob(t)
  BY <1>2 DEF StartJob, db, rest, LGVars
<1>3. CASE \E t \in Requests : StartRequest(t)
  BY <1>3 DEF StartRequest, db, rest, LGVars
<1>4. CASE Rotate \/ Expire \/ UNCHANGED vars
  BY <1>4 DEF Rotate, Expire, vars, rest, LGVars
<1>5. CASE DeleteFiles \/ DeleteRows \/ Create
  BY <1>5, NeverDeleted
<1>6. CASE Crash
  BY <1>6 DEF Crash, db, LG!Next, LG!Stop
<1>7. CASE Boot
  <2>1. cur.doc \in Docs \cup {NoDoc}
    BY DEF IInv, TypeOK, Rows, NoRow
  <2>2. ~up /\ up' = TRUE /\ cur' = cur
    BY <1>7 DEF Boot, db
  <2> QED
    BY <2>1, <2>2 DEF LG!Next, LG!Start
<1> QED
  BY <1>1, <1>2, <1>3, <1>4, <1>5, <1>6, <1>7 DEF Next

\* As long as nobody deletes the provider, what the public URL serves is the
\* register LastGood: only a complete, converted document replaces it, and
\* failed refreshes, failed commits and crashes leave it alone.
THEOREM Refinement ==
  ASSUME NoDelete
  PROVE  Spec => ServesLastGood
<1>1. Init => LG!Init
  <2> SUFFICES ASSUME Init PROVE LG!Init
    OBVIOUS
  <2>1. cur = NoRow /\ up = FALSE
    BY DEF Init
  <2>2. cur.seq = 0 /\ cur.doc = NoDoc
    BY <2>1 DEF NoRow
  <2> QED
    BY <2>1, <2>2 DEF LG!Init
<1>2. IInv /\ DownInv /\ [Next]_vars => [LG!Next]_LGVars
  BY NextRegister
<1>3. LGVars = LG!vars
  BY DEF LGVars, LG!vars
<1>4. [LG!Next]_LGVars <=> [LG!Next]_(LG!vars)
  BY DEF LGVars, LG!vars
<1>5. IInv /\ DownInv /\ [Next]_vars => [LG!Next]_(LG!vars)
  BY <1>2, <1>4
<1> QED
  BY <1>1, <1>5, Invariance, Down, PTL DEF Spec, ServesLastGood, LG!Spec

-----------------------------------------------------------------------------
(* No run is left behind, unless a refresh has been cut short *)

Before == {"begin", "create"}

\* No step mends what was cut short.
LEMMA CutStays ==
  ASSUME [Next]_vars, cut
  PROVE  cut'
<1>1. CASE \E t \in Threads : Step(t)
  BY <1>1, Busy
<1> QED
  BY <1>1 DEF Next, StartJob, StartRequest, Rotate, DeleteFiles, DeleteRows,
     Create, Expire, Crash, Boot, rest, vars

\* The runs stay, and the holder of the lock stays on its side of CreateRun.
LEMMA RunKept ==
  ASSUME LockInv, RunWhole, runs' = runs, lock' = lock,
         \A t \in Threads : lock = t =>
           th'[t].run = th[t].run /\ (th'[t].pc \in Before <=> th[t].pc \in Before)
  PROVE  RunWhole'
<1>1. lock \in Threads \cup {Nobody}
  BY DEF LockInv, TypeOK
<1> QED
  BY <1>1, RefreshAssumption DEF RunWhole, RunsClosed, Before

\* A thread state has a program counter and a run.
LEMMA Fields ==
  ASSUME NEW x \in Thread
  PROVE  {"pc", "run"} \subseteq DOMAIN x
BY DEF Thread

\* The steps of the holder that touch neither the run row nor the lock.
Work(t) ==
  \/ (Begin(t) /\ prov # NoProv) \/ (Named(t) /\ prov # NoProv)
  \/ (\E d \in Docs : Fetch(t, d)) \/ Caught(t)
  \/ CompareSame(t) \/ CompareChanged(t) \/ Check(t) \/ Convert(t)
  \/ StoreBegin(t) \/ WriteFiles(t) \/ InsertRow(t) \/ Prune(t)
  \/ Health(t) \/ Fail(t)

LEMMA WorkMoves ==
  ASSUME LockInv, NEW t \in Threads, Work(t)
  PROVE  /\ lock = t /\ runs' = runs /\ lock' = lock
         /\ th'[t].run = th[t].run
         /\ th'[t].pc \in Before <=> th[t].pc \in Before
         /\ Reached(th[t].pc) <= Reached(th'[t].pc)
<1>1. Locked(t)
  BY DEF Work, Begin, Named, Fetch, Caught, CompareSame, CompareChanged, Check,
     Convert, StoreBegin, WriteFiles, InsertRow, Prune, Health, Fail
<1>2. lock = t /\ th[t] \in Thread /\ th \in [Threads -> Thread]
  BY <1>1 DEF Locked, LockInv, TypeOK
<1>3. runs' = runs /\ lock' = lock
  BY <1>2 DEF Work, Begin, Named, Fetch, Caught, CompareSame, CompareChanged, Check,
     Convert, StoreBegin, WriteFiles, InsertRow, Prune, Health, Fail, db
<1>4. /\ th'[t].run = th[t].run
      /\ th'[t].pc \in Before <=> th[t].pc \in Before
      /\ Reached(th[t].pc) <= Reached(th'[t].pc)
  <2>1. CASE Begin(t) /\ prov # NoProv
    BY <1>2, <2>1, Fields DEF Begin, Go, Before, Reached
  <2>2. CASE Named(t) /\ prov # NoProv
    BY <1>2, <2>2, Fields DEF Named, Before, Reached
  <2>3. CASE \E d \in Docs : Fetch(t, d)
    <3>1. PICK d \in Docs : Fetch(t, d)
      BY <2>3
    <3>2. PICK x : x = [th[t] EXCEPT !.pc = "received", !.evt = "received",
                                     !.doc = d, !.src = prov.inc]
      OBVIOUS
    <3>3. x.pc = "received" /\ x.run = th[t].run
      BY <1>2, <3>2, Fields
    <3>4. th[t].pc = "fetch" /\ th' = [th EXCEPT ![t] = x]
      BY <3>1, <3>2 DEF Fetch
    <3> QED
      BY <1>2, <3>3, <3>4 DEF Before, Reached
  <2>4. CASE Caught(t)
    BY <1>2, <2>4, Fields DEF Caught, Go, Before, Reached
  <2>5. CASE CompareSame(t)
    BY <1>2, <2>5, Fields DEF CompareSame, Go, Before, Reached
  <2>6. CASE CompareChanged(t)
    BY <1>2, <2>6, Fields DEF CompareChanged, Before, Reached
  <2>7. CASE Check(t)
    BY <1>2, <2>7, Fields DEF Check, Before, Reached
  <2>8. CASE Convert(t)
    BY <1>2, <2>8, Fields DEF Convert, Before, Reached
  <2>9. CASE StoreBegin(t)
    BY <1>2, <2>9, Fields DEF StoreBegin, Before, Reached
  <2>10. CASE WriteFiles(t)
    BY <1>2, <2>10, Fields DEF WriteFiles, Go, Before, Reached
  <2>11. CASE InsertRow(t)
    BY <1>2, <2>11, Fields DEF InsertRow, Go, Before, Reached
  <2>12. CASE Prune(t)
    BY <1>2, <2>12, Fields DEF Prune, Go, Before, Reached
  <2>13. CASE Health(t)
    BY <1>2, <2>13, Fields DEF Health, Go, Before, Reached
  <2>14. CASE Fail(t)
    BY <1>2, <2>14, Fields DEF Fail, Go, Before, Reached
  <2> QED
    BY <2>1, <2>2, <2>3, <2>4, <2>5, <2>6, <2>7,
       <2>8, <2>9, <2>10, <2>11, <2>12, <2>13, <2>14 DEF Work
<1> QED
  BY <1>2, <1>3, <1>4

LEMMA RunWork ==
  ASSUME LockInv, RunWhole, NEW t \in Threads, Work(t)
  PROVE  RunWhole'
BY WorkMoves, RunKept

\* The new run is the only one running.
LEMMA RunCreate ==
  ASSUME LockInv, RunWhole, NEW t \in Threads, CreateRun(t)
  PROVE  RunWhole'
<1>1. lock = t /\ lock' = t /\ th[t] \in Thread /\ th \in [Threads -> Thread]
  BY DEF CreateRun, Locked, LockInv, TypeOK
<1>2. th'[t].run = Len(runs) + 1 /\ th'[t].pc = "named"
  BY <1>1, Fields DEF CreateRun
<1>3. runs \in Seq(Run)
  BY DEF LockInv, TypeOK
<1>4. \A r \in DOMAIN runs : runs[r].status # "running"
  BY <1>1 DEF RunWhole, CreateRun
<1>5. /\ DOMAIN runs' = 1..(Len(runs) + 1)
      /\ \A r \in DOMAIN runs : runs'[r] = runs[r]
      /\ DOMAIN runs = 1..Len(runs) /\ Len(runs) \in Nat
  BY <1>3 DEF CreateRun
<1>6. RunsClosed'
  BY <1>1, <1>2, <1>4, <1>5, RefreshAssumption DEF RunsClosed
<1> QED
  BY <1>1, <1>2, <1>5, <1>6 DEF RunWhole

\* Moving a run to a stage leaves it running, and leaves the others alone.
LEMMA RunStage ==
  ASSUME LockInv, RunWhole, NEW t \in Threads, NEW p, NEW s, NEW q,
         q \notin Before, p \notin Before, Stage(t, p, s, q)
  PROVE  RunWhole'
<1>1. /\ lock = t /\ lock' = t /\ th[t] \in Thread /\ th \in [Threads -> Thread]
      /\ runs \in Seq(Run) /\ th[t].run \in DOMAIN runs
  BY DEF Stage, Locked, LockInv, TypeOK
<1>2. th'[t].run = th[t].run /\ th'[t].pc \notin Before
  BY <1>1, Fields DEF Stage, Go
<1>3. DOMAIN runs' = DOMAIN runs
  BY <1>1 DEF Stage
<1>4. \A r \in DOMAIN runs : runs'[r].status = runs[r].status
  <2> SUFFICES ASSUME NEW r \in DOMAIN runs PROVE runs'[r].status = runs[r].status
    OBVIOUS
  <2>1. runs[r] \in Run
    BY <1>1
  <2> QED
    BY <1>1, <2>1 DEF Stage, Run
<1> QED
  BY <1>1, <1>2, <1>3, <1>4, RefreshAssumption DEF RunWhole, RunsClosed, Before

\* The only running run is closed before the lock is released.
LEMMA RunClose ==
  ASSUME LockInv, RunWhole, NEW t \in Threads, NEW p, NEW s,
         NEW u \in {"success", "failure"}, Close(t, p, s, u)
  PROVE  RunWhole'
<1>1. /\ lock = t /\ lock' = Nobody /\ runs \in Seq(Run) /\ th[t].run \in DOMAIN runs
  BY DEF Close, Leave, Locked, LockInv, TypeOK
<1>2. runs' = [runs EXCEPT ![th[t].run] = [stage |-> s, status |-> u]]
  BY DEF Close
<1>3. \A r \in DOMAIN runs : runs[r].status = "running" => th[t].run = r
  BY <1>1, RefreshAssumption DEF RunWhole, RunsClosed
<1>4. \A r \in DOMAIN runs' : runs'[r].status # "running"
  BY <1>1, <1>2, <1>3
<1> QED
  BY <1>1, <1>4, RefreshAssumption DEF RunWhole, RunsClosed

\* A refresh that finds no provider leaves before it has a run.
LEMMA RunLeave ==
  ASSUME RunWhole, NEW t \in Threads, Begin(t), prov = NoProv
  PROVE  RunWhole'
<1>1. lock = t /\ lock' = Nobody /\ runs' = runs /\ th[t].pc = "begin"
  BY DEF Begin, Leave, Locked, db
<1> QED
  BY <1>1, RefreshAssumption DEF RunWhole, RunsClosed

\* While the lock is free no run is running.
LEMMA RunAcquire ==
  ASSUME LockInv, RunWhole, NEW t \in Threads, Acquire(t)
  PROVE  RunWhole'
<1>1. lock = Nobody /\ lock' = t /\ runs' = runs /\ th \in [Threads -> Thread]
  BY DEF Acquire, db, LockInv, TypeOK
<1>2. th'[t].pc = "begin"
  BY <1>1, Fields DEF Acquire, Go
<1>3. \A r \in DOMAIN runs : runs[r].status # "running"
  BY <1>1 DEF RunWhole, RunsClosed
<1> QED
  BY <1>1, <1>2, <1>3, RefreshAssumption DEF RunWhole, RunsClosed

\* The other steps touch neither runs nor lock.
LEMMA RunOutside ==
  ASSUME LockInv, RunWhole, NEW t \in Threads,
         Skip(t) \/ ServeStep(t) \/ StartJob(t) \/ StartRequest(t)
  PROVE  RunWhole'
<1>1. runs' = runs /\ lock' = lock /\ th[t].pc \notin Refreshing
  BY Strings DEF Skip, ServeStep, Relookup, Read, Answer, Done, StartJob,
     StartRequest, db
<1>2. lock # t
  BY <1>1 DEF LockInv, OneRefresh
<1>3. \A u \in Threads \ {t} : th'[u] = th[u]
  <2>1. th \in [Threads -> Thread]
    BY DEF LockInv, TypeOK
  <2> QED
    BY <2>1 DEF Skip, ServeStep, Relookup, Read, Answer, Done, StartJob,
       StartRequest, Go, Error
<1> QED
  BY <1>1, <1>2, <1>3, RunKept

\* RunInv is inductive: when the provider goes, its runs go with it.
LEMMA RunNext ==
  ASSUME LockInv, RunInv, [Next]_vars
  PROVE  RunInv'
<1> SUFFICES ASSUME ~cut' PROVE RunWhole'
  BY DEF RunInv
<1>1. RunWhole
  BY CutStays DEF RunInv
<1>2. ASSUME NEW t \in Threads, RefreshStep(t)
      PROVE  RunWhole'
  <2>1. ~RowGone(t) /\ ~CommitFails(t) /\ ~(Named(t) /\ prov = NoProv)
    BY DEF RowGone, CommitFails, Named
  <2>2. CASE \/ Stage(t, "querying", "querying", "fetch")
             \/ Stage(t, "received", "received", "compare")
             \/ Stage(t, "same", "comparing", "check")
             \/ Stage(t, "converting", "converting", "convert")
             \/ Stage(t, "storing", "storing", "store")
    BY <1>1, <2>2, RunStage DEF Before
  <2>3. CASE \/ Close(t, "closesame", "finished", "success")
             \/ Close(t, "finish", "finished", "success")
             \/ Close(t, "closefail", "failed", "failure")
    BY <1>1, <2>3, RunClose
  <2> QED
    BY <1>1, <1>2, <2>1, <2>2, <2>3, RunWork, RunCreate, RunAcquire, RunOutside,
       RunLeave
       DEF RefreshStep, Work
<1>3. CASE \E t \in Threads : Step(t)
  BY <1>1, <1>2, <1>3, RunOutside DEF Step
<1>4. CASE (\E t \in Jobs : StartJob(t)) \/ (\E t \in Requests : StartRequest(t))
  BY <1>1, <1>4, RunOutside DEF Threads
<1>5. CASE Rotate \/ DeleteFiles \/ Create \/ Expire \/ Boot \/ UNCHANGED vars
  <2>1. runs' = runs /\ lock' = lock /\ th' = th
    BY <1>5 DEF Rotate, DeleteFiles, Create, Expire, Boot, vars, db
  <2> QED
    BY <1>1, <2>1, RunKept
<1>6. CASE DeleteRows
  BY <1>6 DEF DeleteRows, RunWhole, RunsClosed
<1>7. CASE Crash
  BY <1>1, <1>7, RefreshAssumption DEF Crash, db, RunWhole, RunsClosed
<1> QED
  BY <1>3, <1>4, <1>5, <1>6, <1>7 DEF Next

\* Unless a refresh has been cut short, a run shown as "running" is the one the
\* holder of the lock works on, also when the provider is deleted under it.
THEOREM NoRunLeft == Spec => [](RunInv /\ RunsOwned)
<1>1. Init => RunInv
  BY RefreshAssumption DEF Init, RunInv, RunWhole, RunsClosed
<1>2. LockInv /\ RunInv /\ [Next]_vars => RunInv'
  BY RunNext
<1>3. RunInv => RunsOwned
  BY DEF RunInv, RunWhole, RunsOwned
<1> QED
  BY <1>1, <1>2, <1>3, LockInvariance, PTL DEF Spec

-----------------------------------------------------------------------------
(* The record of a run only moves forward *)

LEMMA Orders ==
  ASSUME NEW records \in Seq(Run), NEW r \in DOMAIN records
  PROVE  Order(records[r].stage) \in 0..4
<1>1. records[r] \in Run
  OBVIOUS
<1>2. records[r].stage \in Stages
  BY <1>1 DEF Run
<1> QED
  BY <1>2, Strings DEF Order

\* What a step of a refresh may do to the runs, when `pc` is where it stands.
Forward(t, pc) ==
  \A r \in DOMAIN runs \cap DOMAIN runs' :
    \/ runs'[r] = runs[r]
    \/ /\ lock = t /\ r = th[t].run /\ pc = th[t].pc /\ pc \notin Before
       /\ Reached(pc) <= Order(runs'[r].stage)

\* The holder's run stays open while runs and lock do.
LEMMA OpenKept ==
  ASSUME LockInv, OpenRun, runs' = runs, lock' \in {lock, Nobody},
         \A t \in Threads : lock = t /\ lock' = t =>
           /\ th'[t].run = th[t].run
           /\ th'[t].pc \in Before <=> th[t].pc \in Before
           /\ Reached(th[t].pc) <= Reached(th'[t].pc)
  PROVE  OpenRun'
<1> SUFFICES ASSUME NEW t \in Threads, lock' = t, th'[t].pc \notin Before,
                    th'[t].run \in DOMAIN runs'
             PROVE  /\ runs'[th'[t].run].status = "running"
                    /\ Order(runs'[th'[t].run].stage) <= Reached(th'[t].pc)
  BY DEF OpenRun, Before
<1>1. lock = t /\ th'[t].run = th[t].run /\ th[t].pc \notin Before
  BY RefreshAssumption
<1>2. runs \in Seq(Run) /\ th[t].run \in DOMAIN runs
  BY <1>1 DEF LockInv, TypeOK
<1>3. Order(runs[th[t].run].stage) \in 0..4
  BY <1>2, Orders
<1>4. Reached(th[t].pc) \in 0..3 /\ Reached(th'[t].pc) \in 0..3
  BY DEF Reached
<1> QED
  BY <1>1, <1>3, <1>4 DEF OpenRun, Before

\* The new run stands at its first stage.
LEMMA OpenCreate ==
  ASSUME LockInv, NEW t \in Threads, CreateRun(t)
  PROVE  OpenRun' /\ \A r \in DOMAIN runs : runs'[r] = runs[r]
<1>1. lock = t /\ lock' = t /\ th[t] \in Thread /\ th \in [Threads -> Thread]
  BY DEF CreateRun, Locked, LockInv, TypeOK
<1>2. th'[t].run = Len(runs) + 1 /\ th'[t].pc = "named"
  BY <1>1, Fields DEF CreateRun
<1>3. runs \in Seq(Run)
  BY DEF LockInv, TypeOK
<1>4. /\ runs'[Len(runs) + 1] = [stage |-> "querying", status |-> "running"]
      /\ \A r \in DOMAIN runs : runs'[r] = runs[r]
  BY <1>3 DEF CreateRun
<1>5. Order("querying") = 0 /\ Reached("named") = 0
  BY DEF Order, Reached
<1> QED
  BY <1>1, <1>2, <1>4, <1>5 DEF OpenRun

\* A stage is committed no earlier than the one before it and leaves the run open.
LEMMA OpenStage ==
  ASSUME LockInv, OpenRun, NEW t \in Threads, NEW p, NEW s \in Stages, NEW q,
         p \notin Before, Reached(p) <= Order(s), Order(s) <= Reached(q),
         Stage(t, p, s, q)
  PROVE  OpenRun' /\ Forward(t, p)
<1>1. /\ lock = t /\ lock' = t /\ th[t] \in Thread /\ th \in [Threads -> Thread]
      /\ runs \in Seq(Run) /\ th[t].run \in DOMAIN runs /\ th[t].pc = p
  BY DEF Stage, Locked, LockInv, TypeOK
<1>2. th'[t].run = th[t].run /\ th'[t].pc = q
  BY <1>1, Fields DEF Stage, Go
<1>3. runs[th[t].run] \in Run
  BY <1>1
<1>4. /\ runs'[th[t].run].status = runs[th[t].run].status
      /\ runs'[th[t].run].stage = s
      /\ \A r \in DOMAIN runs : r # th[t].run => runs'[r] = runs[r]
  BY <1>1, <1>3 DEF Stage, Run
<1>5. runs[th[t].run].status = "running"
  BY <1>1 DEF OpenRun, Before
<1> QED
  BY <1>1, <1>2, <1>4, <1>5 DEF OpenRun, Forward

\* A run is closed at the end of its refresh.
LEMMA OpenClose ==
  ASSUME LockInv, NEW t \in Threads, NEW p, NEW s \in {"finished", "failed"}, NEW u,
         p \notin Before, Close(t, p, s, u)
  PROVE  OpenRun' /\ Forward(t, p)
<1>1. /\ lock = t /\ lock' = Nobody /\ runs \in Seq(Run) /\ th[t].run \in DOMAIN runs
      /\ th[t].pc = p
  BY DEF Close, Leave, Locked, LockInv, TypeOK
<1>2. runs' = [runs EXCEPT ![th[t].run] = [stage |-> s, status |-> u]]
  BY DEF Close
<1>3. Reached(p) <= Order(s)
  BY DEF Reached, Order
<1> QED
  BY <1>1, <1>2, <1>3, RefreshAssumption DEF OpenRun, Forward

\* The stages a refresh goes through are in order.
LEMMA InOrder ==
  /\ Reached("querying") <= Order("querying") /\ Order("querying") <= Reached("fetch")
  /\ Reached("received") <= Order("received") /\ Order("received") <= Reached("compare")
  /\ Reached("same") <= Order("comparing") /\ Order("comparing") <= Reached("check")
  /\ Reached("converting") <= Order("converting")
  /\ Order("converting") <= Reached("convert")
  /\ Reached("storing") <= Order("storing") /\ Order("storing") <= Reached("store")
BY DEF Reached, Order

\* A step of a refresh leaves the run it works on open, or gives up the lock, and
\* writes to no other run.
LEMMA OpenRefresh ==
  ASSUME LockInv, OpenRun, NEW t \in Threads, RefreshStep(t)
  PROVE  OpenRun' /\ Forward(t, th[t].pc)
<1>0. lock \in Threads \cup {Nobody} /\ th \in [Threads -> Thread]
  BY DEF LockInv, TypeOK
<1>1. CASE \/ Stage(t, "querying", "querying", "fetch")
           \/ Stage(t, "received", "received", "compare")
           \/ Stage(t, "same", "comparing", "check")
           \/ Stage(t, "converting", "converting", "convert")
           \/ Stage(t, "storing", "storing", "store")
  <2>1. \E p, q : \E s \in Stages :
          /\ p \notin Before /\ Reached(p) <= Order(s) /\ Order(s) <= Reached(q)
          /\ Stage(t, p, s, q) /\ p = th[t].pc
    BY <1>1, InOrder, Strings DEF Before, Stage
  <2> QED
    BY <2>1, OpenStage
<1>2. CASE \/ Close(t, "closesame", "finished", "success")
           \/ Close(t, "finish", "finished", "success")
           \/ Close(t, "closefail", "failed", "failure")
  <2>1. \E p, u : \E s \in {"finished", "failed"} :
          p \notin Before /\ Close(t, p, s, u) /\ p = th[t].pc
    BY <1>2 DEF Before, Close
  <2> QED
    BY <2>1, OpenClose
<1>3. CASE CreateRun(t)
  BY <1>3, OpenCreate DEF Forward
<1>4. CASE Work(t)
  BY <1>4, WorkMoves, OpenKept DEF Forward
<1>5. CASE \/ RowGone(t) \/ CommitFails(t) \/ (Begin(t) /\ prov = NoProv)
           \/ (Named(t) /\ prov = NoProv)
  <2>1. runs' = runs /\ lock' = Nobody
    BY <1>5 DEF RowGone, CommitFails, Begin, Named, Leave, Escape, db
  <2> QED
    BY <2>1, OpenKept, RefreshAssumption DEF Forward
<1>6. CASE Acquire(t)
  <2>1. lock' = t /\ runs' = runs /\ th'[t].pc = "begin"
    BY <1>0, <1>6, Fields DEF Acquire, Go, db
  <2> QED
    BY <2>1 DEF OpenRun, Forward
<1>7. CASE Skip(t)
  <2>1. runs' = runs /\ lock' = lock /\ th[t].pc \notin Refreshing
    BY <1>7, Strings DEF Skip, db
  <2>2. \A u \in Threads : lock = u => th'[u] = th[u]
    <3>1. lock # t
      BY <2>1 DEF LockInv, OneRefresh
    <3> QED
      BY <1>0, <1>7, <3>1 DEF Skip, Go
  <2>3. \A pc : Reached(pc) <= Reached(pc)
    BY DEF Reached
  <2> QED
    BY <2>1, <2>2, <2>3, OpenKept DEF Forward
<1> QED
  BY <1>1, <1>2, <1>3, <1>4, <1>5, <1>6, <1>7 DEF RefreshStep, Work

\* The other steps leave the runs alone, or take them away with the provider.
LEMMA OpenNext ==
  ASSUME LockInv, OpenRun, [Next]_vars
  PROVE  OpenRun' /\ (runs' \in {runs, <<>>} \/ \E t \in Threads : Forward(t, th[t].pc))
<1>0. lock \in Threads \cup {Nobody} /\ th \in [Threads -> Thread]
  BY DEF LockInv, TypeOK
<1>1. \A pc : Reached(pc) <= Reached(pc)
  BY DEF Reached
<1>2. CASE \E t \in Threads : RefreshStep(t)
  BY <1>2, OpenRefresh
<1>3. ASSUME NEW t \in Threads, ServeStep(t) \/ StartJob(t) \/ StartRequest(t)
      PROVE  OpenRun' /\ runs' = runs
  <2>1. UNCHANGED <<runs, lock>> /\ th[t].pc \notin Refreshing
    BY <1>3, Strings DEF ServeStep, Relookup, Read, Answer, Done, StartJob,
       StartRequest, db
  <2>2. lock # t
    BY <2>1 DEF LockInv, OneRefresh
  <2>3. \A u \in Threads : lock = u => th'[u] = th[u]
    BY <1>0, <1>3, <2>2 DEF ServeStep, Relookup, Read, Answer, Done, StartJob,
       StartRequest, Go, Error
  <2> QED
    BY <1>1, <2>1, <2>3, OpenKept
<1>4. CASE Rotate \/ DeleteFiles \/ Create \/ Expire \/ Boot \/ UNCHANGED vars
  <2>1. UNCHANGED <<runs, lock, th>>
    BY <1>4 DEF Rotate, DeleteFiles, Create, Expire, Boot, vars, db
  <2> QED
    BY <1>1, <2>1, OpenKept
<1>5. CASE DeleteRows
  BY <1>5 DEF DeleteRows, OpenRun
<1>6. CASE Crash
  BY <1>6, RefreshAssumption DEF Crash, OpenRun, db
<1> QED
  BY <1>2, <1>3, <1>4, <1>5, <1>6 DEF Next, Step, Threads

\* No step takes the record of a run back to an earlier stage or writes to a run
\* that is closed, as long as its row is there: a refresh knows its run by its id,
\* and no other run can get that id before the refresh has left.
THEOREM RunsForward == Spec => RunsAdvance
<1>1. Init => OpenRun
  BY RefreshAssumption DEF Init, OpenRun
<1>2. LockInv /\ OpenRun /\ [Next]_vars => OpenRun'
  BY OpenNext
<1>3. LockInv /\ OpenRun /\ [Next]_vars =>
        [\A r \in DOMAIN runs \cap DOMAIN runs' :
           /\ Order(runs[r].stage) <= Order(runs'[r].stage)
           /\ runs[r].status # "running" => runs'[r] = runs[r]]_runs
  <2> SUFFICES ASSUME LockInv, OpenRun, [Next]_vars, runs' # runs,
                      NEW r \in DOMAIN runs, r \in DOMAIN runs'
               PROVE  /\ Order(runs[r].stage) <= Order(runs'[r].stage)
                      /\ runs[r].status # "running" => runs'[r] = runs[r]
    OBVIOUS
  <2>1. PICK t \in Threads : Forward(t, th[t].pc)
    <3>1. runs' # <<>>
      OBVIOUS
    <3> QED
      BY <3>1, OpenNext
  <2>2. LockInv'
    BY LockNext
  <2>3. runs \in Seq(Run) /\ runs' \in Seq(Run)
    BY <2>2 DEF LockInv, TypeOK
  <2>4. Order(runs[r].stage) \in 0..4 /\ Order(runs'[r].stage) \in 0..4
    BY <2>3, Orders
  <2>5. CASE runs'[r] = runs[r]
    BY <2>4, <2>5
  <2>6. CASE runs'[r] # runs[r]
    <3>1. /\ lock = t /\ r = th[t].run /\ th[t].pc \notin Before
          /\ Reached(th[t].pc) <= Order(runs'[r].stage)
      BY <2>1, <2>6 DEF Forward
    <3>2. /\ runs[r].status = "running"
          /\ Order(runs[r].stage) <= Reached(th[t].pc)
      BY <3>1 DEF OpenRun, Before
    <3>3. Reached(th[t].pc) \in 0..3
      BY DEF Reached
    <3> QED
      BY <2>4, <3>1, <3>2, <3>3
  <2> QED
    BY <2>5, <2>6
<1> QED
  BY <1>1, <1>2, <1>3, LockInvariance, PTL DEF Spec, RunsAdvance

-----------------------------------------------------------------------------
(* The provider row names the version that is served *)

Storing == lock # Nobody /\ th[lock].pc \in {"prune", "health"}

\* The steps of a refresh that is not cut short.
LEMMA NamesRefresh ==
  ASSUME LockInv, prov.cur = cur.seq \/ Storing, NEW t \in Threads,
         RefreshStep(t), ~RowGone(t), ~CommitFails(t),
         ~(Named(t) /\ prov = NoProv)
  PROVE  (prov.cur = cur.seq \/ Storing)'
<1>1. th \in [Threads -> Thread] /\ prov \in Provider /\ t # Nobody
  BY RefreshAssumption DEF LockInv, TypeOK
<1>2. CASE InsertRow(t) \/ Prune(t)
  BY <1>1, <1>2, Fields DEF InsertRow, Prune, Locked, Go, Storing
<1>3. CASE Health(t)
  BY <1>1, <1>3 DEF Health, Provider
<1>4. CASE Skip(t) \/ Acquire(t)
  <2>1. UNCHANGED <<prov, cur>> /\ (lock = Nobody \/ lock' = lock) /\ lock # t
    BY <1>4, Strings DEF Skip, Acquire, db, LockInv, OneRefresh
  <2>2. lock # Nobody => lock \in Threads /\ th'[lock] = th[lock]
    BY <1>1, <1>4, <2>1 DEF Skip, Acquire, Go, LockInv, TypeOK
  <2> QED
    BY <2>1, <2>2 DEF Storing
<1>5. CASE ~(InsertRow(t) \/ Prune(t) \/ Health(t) \/ Skip(t) \/ Acquire(t))
  <2>1. /\ lock = t /\ th[t].pc \notin {"prune", "health"} /\ cur' = cur
        /\ \/ prov' = prov
           \/ prov' = [prov EXCEPT !.last = "fresh"]
           \/ prov' = [prov EXCEPT !.err = TRUE]
    BY <1>5 DEF RefreshStep, Begin, CreateRun, Named, Stage, Close, Fetch, Caught,
       CompareSame, CompareChanged, Check, Convert, StoreBegin, WriteFiles, Fail,
       Locked, db
  <2>2. prov'.cur = prov.cur
    BY <1>1, <2>1 DEF Provider
  <2> QED
    BY <2>1, <2>2 DEF Storing
<1> QED
  BY <1>2, <1>3, <1>4, <1>5

\* NamesCurrent is inductive: versions go with the row that names them, and a new
\* row names none.
LEMMA NamesNext ==
  ASSUME LockInv, NamesCurrent, [Next]_vars
  PROVE  NamesCurrent'
<1> SUFFICES ASSUME ~cut' PROVE (prov.cur = cur.seq \/ Storing)'
  BY DEF NamesCurrent, Storing
<1>1. prov.cur = cur.seq \/ Storing
  BY CutStays DEF NamesCurrent, Storing
<1>2. th \in [Threads -> Thread] /\ prov \in Provider /\ lock \in Threads \cup {Nobody}
  BY DEF LockInv, TypeOK
<1>3. CASE \E t \in Threads : RefreshStep(t)
  BY <1>1, <1>3, NamesRefresh DEF RowGone, CommitFails, Named
<1>4. ASSUME NEW t \in Threads, ServeStep(t) \/ StartJob(t) \/ StartRequest(t)
      PROVE  (prov.cur = cur.seq \/ Storing)'
  <2>1. UNCHANGED <<prov, cur, lock>> /\ th[t].pc \notin Refreshing
    BY <1>4, Strings DEF ServeStep, Relookup, Read, Answer, Done, StartJob,
       StartRequest, db
  <2>2. lock # t
    BY <2>1 DEF LockInv, OneRefresh
  <2>3. lock # Nobody => th'[lock] = th[lock]
    BY <1>2, <1>4, <2>2 DEF ServeStep, Relookup, Read, Answer, Done, StartJob,
       StartRequest, Go, Error
  <2> QED
    BY <1>1, <2>1, <2>3 DEF Storing
<1>5. CASE Rotate \/ DeleteFiles \/ Create \/ Expire \/ Boot \/ UNCHANGED vars
  <2>1. UNCHANGED <<cur, lock, th>> /\ prov'.cur = prov.cur
    BY <1>2, <1>5 DEF Rotate, DeleteFiles, Create, NoProv, NewProv, Expire, Boot,
       vars, db, Provider
  <2> QED
    BY <1>1, <2>1 DEF Storing
<1>6. CASE DeleteRows
  BY <1>6 DEF DeleteRows, NoProv, NewProv, NoRow
<1>7. CASE Crash
  BY <1>1, <1>7 DEF Crash, db, Storing
<1> QED
  BY <1>3, <1>4, <1>5, <1>6, <1>7 DEF Next, Step, Threads

\* The provider row names the newest version but between the two commits of a
\* refresh that stores, or after a refresh was cut short, also when the provider
\* is deleted and another one takes its id.
THEOREM RowNamesServed == Spec => []NamesCurrent
<1>1. Init => NamesCurrent
  BY DEF Init, NamesCurrent, NewProv, NoRow
<1>2. LockInv /\ NamesCurrent /\ [Next]_vars => NamesCurrent'
  BY NamesNext
<1> QED
  BY <1>1, <1>2, LockInvariance, PTL DEF Spec

-----------------------------------------------------------------------------
(* The last good version is served *)

\* What LastGoodServed says of a thread in state x.
ServedOK(x) ==
  x.pc = "answered" /\ x.from > 0 =>
    x.status = "200" \/ x.tried = "raised" \/ x.tok # prov.tok

\* Only a request that comes in takes a token.
LEMMA TokenKept ==
  ASSUME IInv, NEW t \in Threads, Step(t) \/ StartJob(t)
  PROVE  /\ \A u \in Threads \ {t} : th'[u] = th[u]
         /\ th'[t] = Idle \/ (th'[t].tok = th[t].tok /\ th'[t].from = th[t].from)
         /\ prov'.tok = prov.tok /\ used' = used
<1> DEFINE Keeps(x) == x = Idle \/ (x.tok = th[t].tok /\ x.from = th[t].from)
<1>1. th \in [Threads -> Thread] /\ prov \in Provider /\ th[t] \in Thread
  BY DEF IInv, TypeOK
<1>2. prov'.tok = prov.tok /\ used' = used
  <2>1. CASE Check(t) \/ Health(t) \/ Fail(t)
    BY <1>1, <2>1 DEF Check, Health, Fail, Provider, rest
  <2>2. CASE ~(Check(t) \/ Health(t) \/ Fail(t))
    BY <2>2 DEF Step, RefreshStep, Skip, Acquire, Begin, CreateRun, Named, Stage,
       Close, Fetch, Caught, CompareSame, CompareChanged, Convert, StoreBegin,
       WriteFiles, InsertRow, Prune, RowGone, CommitFails, ServeStep, Relookup,
       Read, Answer, Done, StartJob, db, rest
  <2> QED
    BY <2>1, <2>2
<1>3. SUFFICES \E x : th' = [th EXCEPT ![t] = x] /\ Keeps(x)
  BY <1>1, <1>2
<1>4. ASSUME NEW p, Go(t, p)
      PROVE  \E x : th' = [th EXCEPT ![t] = x] /\ Keeps(x)
  <2>1. PICK x : x = [th[t] EXCEPT !.pc = p]
    OBVIOUS
  <2>2. Keeps(x) /\ th' = [th EXCEPT ![t] = x]
    BY <1>1, <1>4, <2>1 DEF Go, Thread
  <2> QED
    BY <2>2
<1>5. ASSUME NEW s, Error(t, s)
      PROVE  \E x : th' = [th EXCEPT ![t] = x] /\ Keeps(x)
  <2>1. PICK x : x = [th[t] EXCEPT !.pc = "answered", !.status = s]
    OBVIOUS
  <2>2. Keeps(x) /\ th' = [th EXCEPT ![t] = x]
    BY <1>1, <1>5, <2>1 DEF Error, Thread
  <2> QED
    BY <2>2
<1>6. CASE th' = [th EXCEPT ![t] = Idle]
  BY <1>6
<1>7. CASE Escape(t) /\ t \notin Jobs
  <2>1. PICK x : x = [th[t] EXCEPT !.pc = "answered", !.status = "500",
                                   !.tried = "raised"]
    OBVIOUS
  <2>2. Keeps(x) /\ th' = [th EXCEPT ![t] = x]
    BY <1>1, <1>7, <2>1 DEF Escape, Thread
  <2> QED
    BY <2>2
<1>8. ASSUME NEW o, Leave(t, o), t \notin Jobs
      PROVE  \E x : th' = [th EXCEPT ![t] = x] /\ Keeps(x)
  <2>1. PICK x : x = [th[t] EXCEPT !.pc = "relookup", !.tried = o]
    OBVIOUS
  <2>2. Keeps(x) /\ th' = [th EXCEPT ![t] = x]
    BY <1>1, <1>8, <2>1 DEF Leave, Thread
  <2> QED
    BY <2>2
<1>9. CASE \E d \in Docs : Fetch(t, d)
  <2>1. PICK d \in Docs : Fetch(t, d)
    BY <1>9
  <2>2. PICK x : x = [th[t] EXCEPT !.pc = "received", !.evt = "received",
                                   !.doc = d, !.src = prov.inc]
    OBVIOUS
  <2>3. Keeps(x) /\ th' = [th EXCEPT ![t] = x]
    BY <1>1, <2>1, <2>2 DEF Fetch, Thread
  <2> QED
    BY <2>3
<1>10. CASE Answer(t)
  <2>1. PICK b : b = (~th[t].was /\ th[t].err)
    OBVIOUS
  <2>2. PICK x : x = [th[t] EXCEPT !.pc = "answered", !.status = "200",
                                   !.tag = cur, !.stale = b]
    OBVIOUS
  <2>3. Keeps(x) /\ th' = [th EXCEPT ![t] = x]
    BY <1>1, <1>10, <2>1, <2>2 DEF Answer, Thread
  <2> QED
    BY <2>3
<1>11. ASSUME NEW p, NEW f,
              \/ th' = [th EXCEPT ![t].pc = p, ![t].run = f]
              \/ th' = [th EXCEPT ![t].pc = p, ![t].evt = f]
              \/ th' = [th EXCEPT ![t].pc = p, ![t].seq = f]
              \/ th' = [th EXCEPT ![t].pc = p, ![t].body = f]
       PROVE  \E x : th' = [th EXCEPT ![t] = x] /\ Keeps(x)
  <2>1. /\ Keeps([th[t] EXCEPT !.pc = p, !.run = f])
        /\ Keeps([th[t] EXCEPT !.pc = p, !.evt = f])
        /\ Keeps([th[t] EXCEPT !.pc = p, !.seq = f])
        /\ Keeps([th[t] EXCEPT !.pc = p, !.body = f])
    BY <1>1 DEF Thread
  <2>2. \/ th' = [th EXCEPT ![t] = [th[t] EXCEPT !.pc = p, !.run = f]]
        \/ th' = [th EXCEPT ![t] = [th[t] EXCEPT !.pc = p, !.evt = f]]
        \/ th' = [th EXCEPT ![t] = [th[t] EXCEPT !.pc = p, !.seq = f]]
        \/ th' = [th EXCEPT ![t] = [th[t] EXCEPT !.pc = p, !.body = f]]
    BY <1>11
  <2> QED
    BY <2>1, <2>2
<1> HIDE DEF Keeps
<1>12. CASE CreateRun(t) \/ Named(t) \/ CompareChanged(t) \/ Check(t) \/ Convert(t)
            \/ StoreBegin(t) \/ Read(t)
  BY <1>5, <1>6, <1>7, <1>11, <1>12 DEF CreateRun, Named, CompareChanged, Check,
     Convert, StoreBegin, Read, Escape
<1>13. CASE \/ Skip(t) \/ Acquire(t) \/ Begin(t) \/ Caught(t) \/ CompareSame(t)
            \/ WriteFiles(t) \/ InsertRow(t) \/ Prune(t) \/ Health(t) \/ Fail(t)
            \/ RowGone(t) \/ CommitFails(t) \/ Relookup(t) \/ Done(t) \/ StartJob(t)
  BY <1>4, <1>5, <1>6, <1>7, <1>8, <1>13 DEF Skip, Acquire, Begin, Caught,
     CompareSame, WriteFiles, InsertRow, Prune, Health, Fail, RowGone, CommitFails,
     Relookup, Done, StartJob, Leave, Escape
<1>14. CASE \/ Stage(t, "querying", "querying", "fetch")
            \/ Stage(t, "received", "received", "compare")
            \/ Stage(t, "same", "comparing", "check")
            \/ Stage(t, "converting", "converting", "convert")
            \/ Stage(t, "storing", "storing", "store")
            \/ Close(t, "closesame", "finished", "success")
            \/ Close(t, "finish", "finished", "success")
            \/ Close(t, "closefail", "failed", "failure")
  BY <1>4, <1>6, <1>8, <1>14 DEF Stage, Close, Leave
<1> QED
  BY <1>9, <1>10, <1>12, <1>13, <1>14 DEF Step, RefreshStep, ServeStep

\* A thread ends with content, or for one of the three reasons.
LEMMA Ends ==
  ASSUME IInv, IInv', NEW t \in Threads, Step(t)
  PROVE  th'[t].pc = "answered" /\ th[t].from > 0 =>
           \/ th'[t].status = "200" \/ th'[t].tried = "raised"
           \/ th[t].tok # prov.tok
<1>1. th \in [Threads -> Thread] /\ cur.seq \in Nat /\ th[t].from \in Nat
  BY DEF IInv, TypeOK, Thread, Rows
<1>2. {"pc", "tried", "status"} \subseteq DOMAIN th[t]
  BY <1>1 DEF Thread
<1>3. CASE Relookup(t) \/ Answer(t) \/ Done(t)
  BY <1>1, <1>2, <1>3, IdleThread DEF Relookup, Answer, Done, Go, Error
<1>4. CASE Read(t)
  <2>1. th[t].from <= cur.seq
    BY DEF IInv, ReadInv, ReadOK
  <2>2. th[t].from > 0 => cur # NoRow /\ cur.seq \in files
    BY <1>1, <2>1 DEF NoRow, IInv, RowInv
  <2> QED
    BY <1>1, <1>2, <1>4, <2>2 DEF Read
<1>5. CASE RefreshStep(t)
  <2>1. CASE lock' = t
    BY <2>1, Strings DEF IInv, OneRefresh
  <2>2. CASE \E o : Leave(t, o)
    BY <1>1, <1>2, <2>2, IdleThread DEF Leave
  <2>3. CASE Escape(t)
    BY <1>1, <1>2, <2>3, IdleThread DEF Escape
  <2>4. CASE Skip(t)
    BY <1>1, <1>2, <2>4, IdleThread DEF Skip, Go
  <2> QED
    BY <1>5, <2>1, <2>2, <2>3, <2>4 DEF RefreshStep, Acquire, Begin, CreateRun,
       Named, Stage, Close, Fetch, Caught, CompareSame, CompareChanged, Check,
       Convert, StoreBegin, WriteFiles, InsertRow, Prune, Health, Fail, RowGone,
       CommitFails, Locked
<1> QED
  BY <1>3, <1>4, <1>5 DEF Step, ServeStep

\* Inductive with IInv as long as the provider is not deleted.
LEMMA ServedNext ==
  ASSUME NoDelete, IInv, IInv', TokenInv, \A t \in Threads : ServedOK(th[t]),
         [Next]_vars
  PROVE  TokenInv' /\ (\A t \in Threads : ServedOK(th[t]))'
<1>1. /\ th \in [Threads -> Thread] /\ used \in Nat /\ prov.tok \in Nat
      /\ \A t \in Threads : th[t].tok \in Nat
  <2>1. /\ th \in [Threads -> Thread] /\ used \in 1..MaxIds /\ prov \in Provider
        /\ MaxIds \in Nat
    BY RefreshAssumption DEF IInv, TypeOK
  <2>2. prov.tok \in 0..MaxIds /\ \A t \in Threads : th[t].tok \in 0..MaxIds
    BY <2>1 DEF Provider, Thread
  <2> QED
    BY <2>1, <2>2
<1>2. Idle.tok = 0 /\ Idle.pc # "answered"
  BY DEF Idle
<1>3. ASSUME NEW t \in Threads, Step(t) \/ StartJob(t)
      PROVE  TokenInv' /\ (\A u \in Threads : ServedOK(th[u]))'
  <2>1. TokenInv'
    BY <1>1, <1>2, <1>3, TokenKept DEF TokenInv
  <2>2. ASSUME NEW u \in Threads PROVE ServedOK(th[u])'
    <3>1. CASE u # t
      BY <1>3, <3>1, TokenKept DEF ServedOK
    <3>2. CASE u = t /\ Step(t)
      BY <1>2, <1>3, <3>2, TokenKept, Ends DEF ServedOK
    <3>3. CASE u = t /\ StartJob(t)
      BY <1>1, <3>3, Fields DEF StartJob, Go, ServedOK
    <3> QED
      BY <1>3, <3>1, <3>2, <3>3
  <2> QED
    BY <2>1, <2>2
<1>4. ASSUME NEW t \in Requests, StartRequest(t)
      PROVE  TokenInv' /\ (\A u \in Threads : ServedOK(th[u]))'
  <2>1. /\ t \in Threads /\ \A u \in Threads \ {t} : th'[u] = th[u]
        /\ UNCHANGED <<prov, used>>
    BY <1>1, <1>4 DEF StartRequest, Threads, db, rest
  <2>2. {"pc", "tok"} \subseteq DOMAIN th[t]
    BY <1>1, <2>1 DEF Thread
  <2>3. th'[t].tok = prov.tok /\ th'[t].pc # "answered"
    BY <1>1, <1>4, <2>1, <2>2 DEF StartRequest
  <2> QED
    BY <2>1, <2>3 DEF TokenInv, ServedOK
<1>5. CASE Expire \/ Boot \/ UNCHANGED vars
  <2>1. UNCHANGED <<th, used>> /\ prov'.tok = prov.tok
    BY <1>5 DEF Expire, Boot, vars, db, rest, IInv, TypeOK, Provider
  <2> QED
    BY <2>1 DEF TokenInv, ServedOK
<1>6. CASE Rotate
  <2>1. th' = th /\ used' = used + 1 /\ prov'.tok = used + 1
    BY <1>6 DEF Rotate, IInv, TypeOK, Provider
  <2> QED
    BY <1>1, <2>1 DEF TokenInv, ServedOK
<1>7. CASE Crash
  <2>1. (\A t \in Threads : th'[t] = Idle) /\ UNCHANGED <<prov, used>>
    BY <1>7 DEF Crash, db
  <2> QED
    BY <1>1, <1>2, <2>1 DEF TokenInv, ServedOK
<1> QED
  BY <1>3, <1>4, <1>5, <1>6, <1>7, NeverDeleted DEF Next, Threads

\* A request that came in when there was a version is answered with content,
\* unless a commit of its own refresh raised or its URL was rotated away.
THEOREM LastGoodAnswered ==
  ASSUME NoDelete
  PROVE  Spec => []LastGoodServed
<1> DEFINE Served == \A t \in Threads : ServedOK(th[t])
<1>1. Init => TokenInv /\ Served
  BY DEF Init, TokenInv, ServedOK, NewProv, Idle
<1>2. IInv /\ IInv' /\ TokenInv /\ Served /\ [Next]_vars => TokenInv' /\ Served'
  BY ServedNext
<1>3. Served => LastGoodServed
  BY DEF LastGoodServed, ServedOK, Threads
<1> HIDE DEF Served
<1> QED
  BY <1>1, <1>2, <1>3, Invariance, PTL DEF Spec
=============================================================================
