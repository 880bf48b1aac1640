------------------------------- MODULE UiLog -------------------------------
(***************************************************************************)
(* The live log of the management page (app/static/app.js): a stream of    *)
(* events that is opened again after every error, polling of the run rows  *)
(* as a fallback, and a box of at most MaxLines lines in which both arrive *)
(* and no event is to be seen twice.                                       *)
(*                                                                         *)
(* The stages of a run are numbers.  What the server keeps and publishes   *)
(* is here because the two disagree in time: a run's row is created before *)
(* its first event, its later stages are published before they are         *)
(* committed, and its last one after it.  Runs go with their provider, and *)
(* their ids are given out again: a run is not its id.                     *)
(***************************************************************************)
EXTENDS Integers, Sequences, FiniteSets, FiniteSetsExt, SequencesExt

CONSTANTS
  MaxLines,    \* lines in the box (500 in the code)
  Limit,       \* runs the server returns (50)
  Stages,      \* the last stage of a run
  Polls,       \* bound: answers to polls awaited at once
  MaxRuns,     \* bound: runs
  MaxWire,     \* bound: events on their way to the page
  MaxClears    \* bound: times the log is cleared

ASSUME UiLogAssumption ==
  /\ Limit \in Nat /\ MaxLines \in Nat /\ MaxLines >= Limit
  /\ Stages \in Nat \ {0} /\ MaxRuns \in Nat /\ MaxWire \in Nat /\ MaxClears \in Nat

Runs == 1..MaxRuns

VARIABLES
  stored,     \* the stage in the row of each run, 0 before it has one
  told,       \* the last stage of each run that was published
  id,         \* the id of each run, 0 before it has one
  conn,       \* the EventSource: "closed", "connecting", "open"
  wire,       \* events sent to it and not yet handled
  retry,      \* the timer that starts the stream again
  openTimer,  \* sseOpenTimer
  polling,    \* pollTimer
  poll,       \* the polls under way
  box,        \* the lines on the page
  seen,       \* seenEventIds
  clears      \* times the log has been cleared

vars == <<stored, told, id, conn, wire, retry, openTimer, polling, poll, box,
          seen, clears>>

server == <<stored, told, id>>
stream == <<conn, wire, retry, openTimer>>
page == <<box, seen>>

-----------------------------------------------------------------------------
(* Lines *)

\* The event that a client was served has no run, and its line no id.
NoRun == <<0, 0>>
Events == Runs \X (1..Stages)
EventId(line) == IF line = NoRun THEN NoRun ELSE <<id[line[1]], line[2]>>

\* A poll not under way, sent, and answered with some runs, oldest first.
None == [pc |-> "none", rows |-> <<>>]

\* Mutant of AppendLog: no line leaves the box.
AppendLogAll(log, line) ==
  IF EventId(line) \in log.seen THEN log
  ELSE [box  |-> Append(log.box, line),
        seen |-> log.seen \cup ({EventId(line)} \ {NoRun})]

\* Mutant of AppendLog: the ids of lines that left the box are kept.
AppendLogRemembers(log, line) ==
  LET long == Append(log.box, line)
  IN  IF EventId(line) \in log.seen THEN log
      ELSE [box  |-> IF Len(long) > MaxLines THEN Tail(long) ELSE long,
            seen |-> log.seen \cup ({EventId(line)} \ {NoRun})]

\* appendLog.  A line that leaves the box takes its id with it.
AppendLog(log, line) ==
  LET long == Append(log.box, line)
      ids == log.seen \cup ({EventId(line)} \ {NoRun})
  IN  IF EventId(line) \in log.seen THEN log
      ELSE IF Len(long) > MaxLines
      THEN [box |-> Tail(long), seen |-> ids \ {EventId(Head(long))}]
      ELSE [box |-> long, seen |-> ids]

\* One line after the other.
AppendLogs(log, lines) ==
  LET after[i \in 0..Len(lines)] ==
        IF i = 0 THEN log ELSE AppendLog(after[i - 1], lines[i])
  IN  after[Len(lines)]

Log == [box |-> box, seen |-> seen]
Show(log) == box' = log.box /\ seen' = log.seen

-----------------------------------------------------------------------------
(* The server *)

Send(e) ==
  wire' = IF conn = "open" THEN Append(wire, e) ELSE wire

Deleted == -1
Alive(r) == stored[r] > 0

\* A row gets the id after the highest in the table.
CreateRun(r) ==
  /\ stored[r] = 0 /\ \A q \in 1..(r - 1) : stored[q] # 0
  /\ stored' = [stored EXCEPT ![r] = 1]
  /\ id' = [id EXCEPT ![r] = 1 + Max({id[q] : q \in {q \in Runs : Alive(q)}} \cup {0})]
  /\ UNCHANGED <<told, stream, polling, poll, page, clears>>

Tell(r) ==
  /\ Alive(r) /\ told[r] <= stored[r] /\ told[r] < Stages
  /\ told[r] + 1 = Stages => stored[r] = Stages
  /\ Len(wire) < MaxWire
  /\ told' = [told EXCEPT ![r] = IF stored[r] = Stages THEN Stages ELSE @ + 1]
  /\ Send(<<r, told'[r]>>)
  /\ UNCHANGED <<stored, id, conn, retry, openTimer, polling, poll, page, clears>>

Store(r) ==
  /\ told[r] > stored[r] /\ Alive(r)
  /\ stored' = [stored EXCEPT ![r] = told[r]]
  /\ UNCHANGED <<told, id, stream, polling, poll, page, clears>>

\* The last stage, of a success or at any moment of a failure.
Complete(r) ==
  /\ Alive(r) /\ told[r] = stored[r] /\ stored[r] < Stages
  /\ stored' = [stored EXCEPT ![r] = Stages]
  /\ UNCHANGED <<told, id, stream, polling, poll, page, clears>>

\* A provider is deleted, and with it its runs; none of them is under way.
Delete(runs) ==
  /\ runs # {} /\ \A r \in runs : Alive(r) /\ stored[r] = Stages
  /\ stored' = [r \in Runs |-> IF r \in runs THEN Deleted ELSE stored[r]]
  /\ told' = [r \in Runs |-> IF r \in runs THEN 0 ELSE told[r]]
  /\ UNCHANGED <<id, stream, polling, poll, page, clears>>

\* A client was served.
Served ==
  /\ conn = "open" /\ Len(wire) < MaxWire
  /\ Send(NoRun)
  /\ UNCHANGED <<server, conn, retry, openTimer, polling, poll, page, clears>>

-----------------------------------------------------------------------------
(* The stream *)

\* Mutant of Connect: polling stops, and the time-out is not started.
ConnectOnly ==
  /\ retry /\ retry' = FALSE
  /\ conn' = "connecting" /\ wire' = <<>>
  /\ UNCHANGED <<server, openTimer, polling, poll, page, clears>>

\* startSSE, at the start and after an error: a new EventSource, and the
\* time-out anew.
Connect ==
  /\ retry /\ retry' = FALSE
  /\ conn' = "connecting" /\ wire' = <<>>
  /\ openTimer' = TRUE
  /\ UNCHANGED <<server, polling, poll, page, clears>>

\* Mutant of Opens: polling goes on.
OpensPolling ==
  /\ conn = "connecting" /\ conn' = "open"
  /\ openTimer' = FALSE
  /\ UNCHANGED <<server, wire, retry, polling, poll, page, clears>>

Opens ==
  /\ conn = "connecting" /\ conn' = "open"
  /\ polling' = FALSE /\ openTimer' = FALSE
  /\ UNCHANGED <<server, wire, retry, poll, page, clears>>

Receive ==
  /\ conn = "open" /\ wire # <<>>
  /\ wire' = Tail(wire)
  /\ Show(AppendLog(Log, Head(wire)))
  /\ UNCHANGED <<server, conn, retry, openTimer, polling, poll, clears>>

\* The error event, of a stream that is lost or was never opened.  The
\* time-out runs on until the stream is started again.
Error ==
  /\ conn # "closed"
  /\ conn' = "closed" /\ wire' = <<>> /\ retry' = TRUE
  /\ UNCHANGED <<server, openTimer, polling, poll, page, clears>>

-----------------------------------------------------------------------------
(* Polling *)

Ask(p) ==
  /\ poll[p] = None
  /\ poll' = [poll EXCEPT ![p].pc = "sent"]

\* The time-out: when the stream is not open, polling begins with a poll.
OpenTimeout ==
  /\ openTimer /\ openTimer' = FALSE
  /\ IF conn # "open"
     THEN polling' = TRUE /\ \E p \in Polls : Ask(p)
     ELSE UNCHANGED <<polling, poll>>
  /\ UNCHANGED <<server, conn, wire, retry, page, clears>>

\* The browser has no EventSource: polling, for good.
Unavailable ==
  /\ retry /\ retry' = FALSE
  /\ openTimer' = FALSE
  /\ polling' = TRUE /\ \E p \in Polls : Ask(p)
  /\ UNCHANGED <<server, conn, wire, page, clears>>

Tick ==
  /\ polling /\ \E p \in Polls : Ask(p)
  /\ UNCHANGED <<server, stream, polling, page, clears>>

\* api_list_update_runs: the newest runs.
Newest ==
  {r \in Runs : Alive(r) /\
     Cardinality({q \in Runs : q > r /\ Alive(q)}) < Limit}

\* They are answered newest first, and the page takes them in reverse.
NewestRows ==
  LET rows[r \in 0..MaxRuns] ==
        IF r = 0 THEN <<>>
        ELSE IF r \in Newest THEN Append(rows[r - 1], <<r, stored[r]>>)
        ELSE rows[r - 1]
  IN  rows[MaxRuns]

Serve(p) ==
  /\ poll[p].pc = "sent"
  /\ poll' = [poll EXCEPT ![p] = [pc |-> "served", rows |-> NewestRows]]
  /\ UNCHANGED <<server, stream, polling, page, clears>>

\* The answer is handled, whether the page still polls or not.
Answer(p) ==
  /\ poll[p].pc = "served"
  /\ Show(AppendLogs(Log, poll[p].rows))
  /\ poll' = [poll EXCEPT ![p] = None]
  /\ UNCHANGED <<server, stream, polling, clears>>

\* The request fails, or its answer is of no use: as if it had not been served.
PollFails(p) ==
  /\ poll[p].pc = "sent"
  /\ poll' = [poll EXCEPT ![p] = None]
  /\ UNCHANGED <<server, stream, polling, page, clears>>

\* Mutant of Clear: the ids of the lines are not forgotten.
ClearBox ==
  /\ clears < MaxClears /\ clears' = clears + 1
  /\ box' = <<>>
  /\ UNCHANGED <<server, stream, polling, poll, seen>>

\* clearLogs, once the server has cleared its log.
Clear ==
  /\ clears < MaxClears /\ clears' = clears + 1
  /\ box' = <<>> /\ seen' = {}
  /\ UNCHANGED <<server, stream, polling, poll>>

-----------------------------------------------------------------------------
\* DOMContentLoaded starts the stream.
Init ==
  /\ stored = [r \in Runs |-> 0] /\ told = [r \in Runs |-> 0]
  /\ id = [r \in Runs |-> 0]
  /\ conn = "closed" /\ wire = <<>>
  /\ retry = TRUE /\ openTimer = FALSE
  /\ polling = FALSE /\ poll = [p \in Polls |-> None]
  /\ box = <<>> /\ seen = {} /\ clears = 0

Next ==
  \/ \E r \in Runs : CreateRun(r) \/ Tell(r) \/ Store(r) \/ Complete(r)
  \/ \E runs \in SUBSET Runs : Delete(runs)
  \/ Served
  \/ Connect \/ Unavailable \/ Opens \/ Receive \/ Error
  \/ OpenTimeout \/ Tick
  \/ \E p \in Polls : Serve(p) \/ Answer(p) \/ PollFails(p)
  \/ Clear

Spec == Init /\ [][Next]_vars

\* Timers go off, the one for the stream to open unless the attempt ends before
\* it; of the polls sent again and again some are served, and then handled.
FairSpec ==
  /\ Spec
  /\ WF_vars(Connect \/ Unavailable)
  /\ WF_vars(conn = "connecting" /\ OpenTimeout)
  /\ WF_vars(Tick)
  /\ \A p \in Polls : SF_vars(Serve(p)) /\ WF_vars(Answer(p))

-----------------------------------------------------------------------------
(* Properties *)

\* Every variable has its type, and the box is never too long.
TypeOK ==
  /\ stored \in [Runs -> Deleted..Stages] /\ told \in [Runs -> 0..Stages]
  /\ id \in [Runs -> 0..MaxRuns]
  /\ conn \in {"closed", "connecting", "open"}
  /\ wire \in Seq(Events \cup {NoRun}) /\ Len(wire) <= MaxWire
  /\ retry \in BOOLEAN /\ openTimer \in BOOLEAN /\ polling \in BOOLEAN
  /\ poll \in [Polls -> [pc : {"none", "sent", "served"}, rows : Seq(Events)]]
  /\ box \in Seq(Events \cup {NoRun}) /\ Len(box) <= MaxLines
  /\ seen \subseteq Events
  /\ clears \in 0..MaxClears

\* Switching between the stream and polling shows no event twice, and nothing
\* keeps an event off the page whose id is not on it: the ids remembered are
\* those of the lines, each of which has its own.
SeenShown ==
  /\ seen = {EventId(line) : line \in ToSet(box)} \ {NoRun}
  /\ \A i, j \in DOMAIN box :
       EventId(box[i]) = EventId(box[j]) /\ box[i] # NoRun => i = j

\* While the stream is open the page does not poll as well, and no time-out is
\* left that could make it.
OneSource ==
  conn = "open" => ~polling /\ ~openTimer

\* A page that polls for good comes to show, whatever it showed before, the
\* stage of every run the server returns, and goes on showing it - unless the
\* run has the id of one that was deleted.
PollCatchesUp ==
  <>[]polling =>
    <>[](\A r \in Newest :
           (\A q \in Runs \ {r} : id[q] # id[r]) =>
             <<r, stored[r]>> \in ToSet(box))

\* So it does with any id.
ReusedCatchesUp ==
  <>[]polling =>
    <>[](\A r \in Newest : <<r, stored[r]>> \in ToSet(box))

\* A stream that does not open is replaced by polling.
FallsBack ==
  <>[](conn = "connecting") => <>[]polling

\* So is one that is lost and not opened again.
DropFallsBack ==
  <>[](conn # "open") => <>polling
=============================================================================
