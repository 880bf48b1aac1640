------------------------------ MODULE LogStore ------------------------------
(***************************************************************************)
(* The event log of app/services/log_store.py: one file of lines, read as  *)
(* a whole and replaced as a whole by every append and by the hourly       *)
(* purge, and truncated in place by the "Clear logs" button.  Each rewrite *)
(* is atomic; nothing orders the rewrites of two threads.                  *)
(*                                                                         *)
(* A line is the number of its time stamp, taken before the file is read.  *)
(***************************************************************************)
EXTENDS Integers, Sequences, FiniteSets, SequencesExt

CONSTANTS
  Threads,    \* refresh and request threads, each logging one event at a time
  MaxLines    \* bound: events logged

ASSUME LogAssumption == MaxLines \in Nat

VARIABLES
  file,     \* the lines of events.jsonl, oldest first
  clock,    \* the last time stamp given out
  cutoff,   \* lines stamped up to here are older than the retention
  line,     \* the line each thread is appending, 0 when it is not
  copy,     \* the copy of the file with that line, before the replace
  pc,       \* "idle", "read" (stamped), "replace" (copied) for each thread
  purge,    \* the purge: "idle", or "replace" with the lines it keeps
  kept,
  logged,   \* history: lines whose append has returned
  dropped,  \* history: lines a purge or a clear has taken out
  overlap   \* history: two rewrites of the file were under way at once

vars == <<file, clock, cutoff, line, copy, pc, purge, kept, logged, dropped,
          overlap>>

appending == <<clock, line, copy, pc, logged>>
purging == <<purge, kept>>

\* The rewrites under way, and whether a further one overlaps them.
Writers == {t \in Threads : pc[t] # "idle"}
           \cup {p \in {"purge"} : purge # "idle"}
Begins == overlap' = (overlap \/ Writers # {})

-----------------------------------------------------------------------------
\* append: stamp the event ...
Stamp(t) ==
  /\ pc[t] = "idle" /\ clock < MaxLines
  /\ clock' = clock + 1
  /\ line' = [line EXCEPT ![t] = clock + 1]
  /\ pc' = [pc EXCEPT ![t] = "read"]
  /\ Begins
  /\ UNCHANGED <<file, cutoff, copy, purging, logged, dropped>>

\* Mutant of Copy: the temporary file starts empty.
CopyNothing(t) ==
  /\ pc[t] = "read"
  /\ copy' = [copy EXCEPT ![t] = <<line[t]>>]
  /\ pc' = [pc EXCEPT ![t] = "replace"]
  /\ UNCHANGED <<file, clock, cutoff, line, purging, logged, dropped, overlap>>

\* ... copy the whole file and the line into a temporary file ...
Copy(t) ==
  /\ pc[t] = "read"
  /\ copy' = [copy EXCEPT ![t] = Append(file, line[t])]
  /\ pc' = [pc EXCEPT ![t] = "replace"]
  /\ UNCHANGED <<file, clock, cutoff, line, purging, logged, dropped, overlap>>

\* append returns or raises.
Return(t) ==
  /\ pc' = [pc EXCEPT ![t] = "idle"]
  /\ line' = [line EXCEPT ![t] = 0]
  /\ copy' = [copy EXCEPT ![t] = <<>>]

\* Mutant of Replace: the copy is appended to the file.
ReplaceAppends(t) ==
  /\ pc[t] = "replace"
  /\ file' = file \o copy[t]
  /\ logged' = logged \cup {line[t]}
  /\ Return(t)
  /\ UNCHANGED <<clock, cutoff, purging, dropped, overlap>>

\* ... and put that in the place of whatever the file has become.
Replace(t) ==
  /\ pc[t] = "replace"
  /\ file' = copy[t]
  /\ logged' = logged \cup {line[t]}
  /\ Return(t)
  /\ UNCHANGED <<clock, cutoff, purging, dropped, overlap>>

\* An error unlinks the temporary file; the caller logs it and goes on.
AppendFails(t) ==
  /\ pc[t] \in {"read", "replace"}
  /\ Return(t)
  /\ UNCHANGED <<file, clock, cutoff, purging, logged, dropped, overlap>>

\* Time passes, and more lines are older than the retention.
Age ==
  /\ cutoff < clock
  /\ cutoff' = cutoff + 1
  /\ UNCHANGED <<file, appending, purging, dropped, overlap>>

\* The lines stamped after `cut`, collected one by one.
Younger(lines, cut) ==
  LET keep[i \in 0..Len(lines)] ==
        IF i = 0 THEN <<>>
        ELSE IF lines[i] > cut THEN Append(keep[i - 1], lines[i])
        ELSE keep[i - 1]
  IN  keep[Len(lines)]

\* Mutant of PurgeRead: the old lines are the ones kept.
PurgeReadOld ==
  /\ purge = "idle"
  /\ purge' = "replace"
  /\ kept' = SelectSeq(file, LAMBDA l : l <= cutoff)
  /\ Begins
  /\ UNCHANGED <<file, cutoff, appending, dropped>>

\* purge_older_than reads the file ...
PurgeRead ==
  /\ purge = "idle"
  /\ purge' = "replace"
  /\ kept' = Younger(file, cutoff)
  /\ Begins
  /\ UNCHANGED <<file, cutoff, appending, dropped>>

\* ... and replaces it by the lines it kept.
PurgeReplace ==
  /\ purge = "replace"
  /\ file' = kept
  /\ dropped' = dropped \cup {l \in ToSet(file) \ ToSet(kept) : l <= cutoff}
  /\ purge' = "idle" /\ kept' = <<>>
  /\ UNCHANGED <<cutoff, appending, overlap>>

\* An error unlinks the temporary file; the tick of the scheduler logs it.
PurgeFails ==
  /\ purge = "replace"
  /\ purge' = "idle" /\ kept' = <<>>
  /\ UNCHANGED <<file, cutoff, appending, dropped, overlap>>

Clear ==
  /\ file # <<>>
  /\ file' = <<>>
  /\ dropped' = dropped \cup ToSet(file)
  /\ Begins
  /\ UNCHANGED <<cutoff, appending, purging>>

-----------------------------------------------------------------------------
Init ==
  /\ file = <<>> /\ clock = 0 /\ cutoff = 0
  /\ line = [t \in Threads |-> 0]
  /\ copy = [t \in Threads |-> <<>>]
  /\ pc = [t \in Threads |-> "idle"]
  /\ purge = "idle" /\ kept = <<>>
  /\ logged = {} /\ dropped = {} /\ overlap = FALSE

Write(t) == Copy(t) \/ Replace(t) \/ AppendFails(t)

Next ==
  \/ \E t \in Threads : Stamp(t) \/ Write(t)
  \/ PurgeRead \/ PurgeReplace \/ PurgeFails \/ Clear \/ Age

Spec == Init /\ [][Next]_vars

\* A thread finishes its append; the purge runs every hour, and of the purges that
\* are run again and again some do not fail.
FairSpec ==
  /\ Spec
  /\ \A t \in Threads : WF_vars(Write(t))
  /\ WF_vars(PurgeRead) /\ SF_vars(PurgeReplace)

-----------------------------------------------------------------------------
(* Properties *)

\* Every variable has its type, and a thread has a line while it appends.
TypeOK ==
  /\ file \in Seq(1..MaxLines)
  /\ clock \in 0..MaxLines /\ cutoff \in 0..clock
  /\ line \in [Threads -> 0..clock]
  /\ copy \in [Threads -> Seq(1..MaxLines)]
  /\ pc \in [Threads -> {"idle", "read", "replace"}]
  /\ \A t \in Threads : pc[t] = "idle" <=> line[t] = 0
  /\ purge \in {"idle", "replace"} /\ kept \in Seq(1..MaxLines)
  /\ logged \subseteq 1..clock /\ dropped \subseteq logged
  /\ overlap \in BOOLEAN

\* Whatever rewrites overlap, no line is in the file twice, and none is there
\* whose append has not returned: overlapping appends lose lines, but they
\* never repeat or invent one.
OnceEach ==
  IsInjective(file) /\ ToSet(file) \subseteq logged

\* A line older than the retention leaves the file, also when an append that
\* copied it before a purge puts it back after.
OldLeave ==
  \A l \in 1..MaxLines :
    l <= cutoff /\ Contains(file, l) ~> ~Contains(file, l)

\* Every event writes one line: it is in the file until purged or cleared.
LinesKept == logged \ dropped \subseteq ToSet(file)

\* As long as no two rewrites overlapped, the log is exact: no line is lost,
\* none that was purged or cleared comes back, and read backwards it is newest
\* first.  Overlaps cost the first two even with one thread appending, and the
\* third with two, whose lines can go in against the order of their stamps.
SoloExact ==
  ~overlap =>
    /\ LinesKept
    /\ dropped \cap ToSet(file) = {}
    /\ \A i, j \in DOMAIN file : i < j => file[i] < file[j]
=============================================================================
