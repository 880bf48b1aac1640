------------------------------ MODULE Settings ------------------------------
(***************************************************************************)
(* The application settings and what hangs on them: the settings row       *)
(* (repositories/settings_repo.py), the rsyslog sink built from the        *)
(* environment at boot (app/__init__.py) and from the row by every PATCH   *)
(* (routes/api.py), the threads that emit events through it                *)
(* (services/log_sink.py), and the settings form of each open page         *)
(* (static/app.js).                                                        *)
(*                                                                         *)
(* Of the five settings one is told, the server events go to: the other    *)
(* columns are written, read and shown together with it.  A thread keeps   *)
(* the sink it has taken while another is put in its place.                *)
(***************************************************************************)
CONSTANTS
  Hosts,      \* rsyslog servers
  NoHost,     \* no server
  EnvHost,    \* RSYSLOG_HOST of the environment
  Pages,      \* open pages; each has one PATCH under way at most
  Callers,    \* other clients of the API, one PATCH at a time each
  Emitters    \* threads that log an event

Settable == Hosts \cup {NoHost}
Clients == Pages \cup Callers

ASSUME SettingsAssumption ==
  /\ NoHost \notin Hosts /\ EnvHost \in Settable
  /\ Pages \cap Callers = {}

VARIABLES
  up,         \* the process runs
  row,        \* rsyslog_host in the settings row
  sink,       \* the sink in app.extensions: its server and its handler
  patch,      \* the PATCH of each client, as the server works on it
  emit,       \* the emission of each thread
  form,       \* the settings form of each page
  by          \* history: what the sink is to follow, the last "boot", or a row
              \* since written by a "patch" alone, or by overlapping ones, "mixed"

vars == <<up, row, sink, patch, emit, form, by>>
server == <<up, row, sink, by>>

-----------------------------------------------------------------------------
NoSink == [host |-> NoHost, handler |-> "none"]

\* A PATCH the server does not work on.  `host` is the value sent, `seen` the one
\* on the object, `old` says whether the sink it is about to close is the one
\* installed, `alone` (history): no other PATCH has been worked on meanwhile.
NoPatch ==
  [pc |-> "no", host |-> NoHost, seen |-> NoHost, new |-> NoSink,
   old |-> "none", alone |-> FALSE]

\* An emission has taken `sink`, which is `current`ly the installed one; `clean`
\* (history): no PATCH has been worked on since it began.
NoEmit ==
  [pc |-> "no", sink |-> NoSink, current |-> FALSE, to |-> NoHost, clean |-> FALSE]

\* A page that has just been opened shows the form of the template, and has its
\* load under way (`boot`); a save is followed by another (`back`).  `late`
\* (history): the form was edited or saved before its load was answered, a load
\* or save has failed, or somebody else has changed the row since.
ClosedForm ==
  [mode |-> "closed", field |-> NoHost, snap |-> NoHost, boot |-> FALSE,
   back |-> FALSE, saving |-> FALSE, late |-> FALSE]
NewForm == [ClosedForm EXCEPT !.mode = "view", !.boot = TRUE]

\* The forms when the row changes, and only the pages `aware` know of it.
Outdated(aware) ==
  [p \in Pages |-> [form[p] EXCEPT
     !.late = @ \/ (row' # row /\ p \notin aware /\ form[p].mode # "closed")]]

Busy(c) ==
  patch[c].pc \in {"loaded", "committed", "built", "fetched", "closed"}

ByPatch(c) == IF patch[c].alone THEN "patch" ELSE "mixed"

\* LogSink.__init__: no handler without a server, or when it cannot be reached.
NewSinks(host) ==
  [host : {host}, handler : {"none"} \cup IF host = NoHost THEN {} ELSE {"open"}]

\* create_app.  _table_exists asks app.extensions for a key that nobody sets and
\* takes the error for a missing table: the row is neither filled nor read, and
\* the sink is the one of the environment.
Boot ==
  /\ ~up /\ up' = TRUE
  /\ sink' \in NewSinks(EnvHost) /\ by' = "boot"
  /\ UNCHANGED <<row, patch, emit, form>>

\* The process dies; the pages see their requests fail.
Crash ==
  /\ up /\ up' = FALSE
  /\ patch' = [c \in Clients |-> NoPatch]
  /\ emit' = [e \in Emitters |-> NoEmit]
  /\ form' = [p \in Pages |->
       [form[p] EXCEPT
          !.mode = IF form[p].back THEN "view" ELSE @,
          !.boot = FALSE, !.back = FALSE, !.saving = FALSE,
          !.late = @ \/ form[p].boot \/ form[p].saving]]
  /\ sink' = NoSink
  /\ UNCHANGED <<row, by>>

-----------------------------------------------------------------------------
(* PATCH /api/settings *)

\* update_settings loads the row and puts the values on the object ...
Load(c, host) ==
  /\ patch' = [q \in Clients |->
       IF q = c
       THEN [pc |-> "loaded", host |-> host, seen |-> row, new |-> NoSink,
             old |-> "none", alone |-> \A r \in Clients : ~Busy(r)]
       ELSE [patch[q] EXCEPT !.alone = FALSE]]
  /\ emit' = [e \in Emitters |-> [emit[e] EXCEPT !.clean = FALSE]]
  /\ UNCHANGED <<form, server>>

\* ... for a page, or for another client of the API.
PatchLoad(c) == patch[c].pc = "sent" /\ Load(c, patch[c].host)
Call(c, host) == up /\ patch[c].pc = "no" /\ Load(c, host)

\* ... an invalid value, or a commit that fails, leaves the row alone ...
PatchRefused(c) ==
  /\ patch[c].pc \in {"sent", "loaded"}
  /\ patch' = [patch EXCEPT ![c] = NoPatch]
  /\ form' = [p \in Pages |->
       IF p = c THEN [form[p] EXCEPT !.saving = FALSE] ELSE form[p]]
  /\ UNCHANGED <<emit, server>>

\* Mutant of PatchCommit: the sink is not built again.
PatchCommitOnly(c) ==
  /\ patch[c].pc = "loaded"
  /\ patch' = [patch EXCEPT ![c] =
       IF c \in Pages THEN [NoPatch EXCEPT !.pc = "answered"] ELSE NoPatch]
  /\ row' = IF patch[c].host # patch[c].seen THEN patch[c].host ELSE row
  /\ form' = Outdated({c}) /\ by' = ByPatch(c)
  /\ UNCHANGED <<up, sink, emit>>

\* ... and the commit writes what differs from the row as it was loaded.
PatchCommit(c) ==
  /\ patch[c].pc = "loaded"
  /\ patch' = [patch EXCEPT ![c] =
       [NoPatch EXCEPT !.pc = "committed", !.alone = patch[c].alone]]
  /\ row' = IF patch[c].host # patch[c].seen THEN patch[c].host ELSE row
  /\ form' = Outdated({c}) /\ by' = ByPatch(c)
  /\ UNCHANGED <<up, sink, emit>>

\* The object is loaded again, and a sink built from it.
PatchBuild(c) ==
  /\ patch[c].pc = "committed"
  /\ \E s \in NewSinks(row) :
       patch' = [patch EXCEPT ![c].pc = "built", ![c].new = s]
  /\ UNCHANGED <<emit, form, server>>

\* close() of sink s.
Close(s) == [s EXCEPT !.handler = IF @ = "open" THEN "closed" ELSE @]

\* The sink that is installed now is taken ...
PatchFetch(c) ==
  /\ patch[c].pc = "built"
  /\ patch' = [patch EXCEPT ![c].pc = "fetched", ![c].old = "installed"]
  /\ UNCHANGED <<emit, form, server>>

\* Mutant of PatchClose: the new sink is closed.
PatchCloseNew(c) ==
  /\ patch[c].pc = "fetched"
  /\ patch' = [patch EXCEPT ![c].pc = "closed", ![c].new = Close(@)]
  /\ UNCHANGED <<emit, form, server>>

\* ... and closed, for whoever has taken it.  If another PATCH has replaced it
\* meanwhile, any of the threads with a replaced sink may be those that have it.
PatchClose(c) ==
  /\ patch[c].pc = "fetched"
  /\ sink' = IF patch[c].old = "installed" THEN Close(sink) ELSE sink
  /\ \E X \in SUBSET {e \in Emitters : ~emit[e].current} :
       emit' = [e \in Emitters |->
         IF e \in (IF patch[c].old = "installed"
                  THEN {f \in Emitters : emit[f].current} ELSE X)
         THEN [emit[e] EXCEPT !.sink = Close(@)] ELSE emit[e]]
  /\ patch' = [patch EXCEPT ![c].pc = "closed"]
  /\ UNCHANGED <<up, row, form, by>>

\* The new sink is installed.
PatchInstall(c) ==
  /\ patch[c].pc = "closed"
  /\ sink' = patch[c].new
  /\ by' = ByPatch(c)
  /\ emit' = [e \in Emitters |-> [emit[e] EXCEPT !.current = FALSE]]
  /\ patch' = [q \in Clients |->
       IF q # c THEN [patch[q] EXCEPT !.old = IF @ = "installed" THEN "replaced" ELSE @]
       ELSE IF c \in Pages THEN [NoPatch EXCEPT !.pc = "answered"] ELSE NoPatch]
  /\ UNCHANGED <<up, row, form>>

Patch(c) ==
  \/ PatchLoad(c) \/ PatchRefused(c) \/ PatchCommit(c)
  \/ PatchBuild(c) \/ PatchFetch(c) \/ PatchClose(c) \/ PatchInstall(c)

-----------------------------------------------------------------------------
(* _emit_log and _emit_query_log, and LogSink.emit *)

\* A thread emits one event after another.
EmitTake(e) ==
  /\ up /\ emit[e].pc \notin {"taken", "tested"}
  /\ emit' = [emit EXCEPT ![e] = [NoEmit EXCEPT
       !.pc = "taken", !.sink = sink, !.current = TRUE,
       !.clean = (\A c \in Clients : ~Busy(c))]]
  /\ UNCHANGED <<patch, form, server>>

End(e, how, to) ==
  emit' = [emit EXCEPT ![e] =
    [NoEmit EXCEPT !.pc = how, !.to = to, !.clean = emit[e].clean]]

\* Without a handler the event is dropped.
EmitTest(e) ==
  /\ emit[e].pc = "taken"
  /\ IF emit[e].sink.handler = "open"
     THEN emit' = [emit EXCEPT ![e].pc = "tested"]
     ELSE End(e, "dropped", NoHost)
  /\ UNCHANGED <<patch, form, server>>

\* The server may not take the event: the handler's error is swallowed, or logged.
\* If the handler has been closed since the test, it is None (the error is
\* logged, the event lost), or, fetched before, opens its socket once more.
EmitSend(e) ==
  /\ emit[e].pc = "tested"
  /\ \/ End(e, "sent", emit[e].sink.host)
     \/ End(e, "failed", NoHost)
     \/ emit[e].sink.handler = "closed" /\ End(e, "lost", NoHost)
  /\ UNCHANGED <<patch, form, server>>

Emission(e) == EmitTake(e) \/ EmitTest(e) \/ EmitSend(e)

-----------------------------------------------------------------------------
(* The settings form *)

\* GET /api/settings answers with the row, and loadSettings fills the fields
\* (what changes the row in between makes the form late) ...
LoadForm(p) ==
  /\ up /\ form[p].boot
  /\ form' = [form EXCEPT ![p].boot = FALSE, ![p].field = row]
  /\ UNCHANGED <<patch, emit, server>>

\* ... after a save the form is then disabled, and the save is over.
ReadBack(p) ==
  /\ up /\ form[p].back
  /\ form' = [form EXCEPT ![p].back = FALSE, ![p].field = row, ![p].mode = "view",
                          ![p].snap = NoHost, ![p].saving = FALSE]
  /\ UNCHANGED <<patch, emit, server>>

Open(p) ==
  /\ up /\ form[p].mode = "closed"
  /\ form' = [form EXCEPT ![p] = NewForm]
  /\ UNCHANGED <<patch, emit, server>>

Edit(p) ==
  /\ form[p].mode = "view"
  /\ form' = [form EXCEPT ![p].mode = "edit", ![p].snap = form[p].field,
                          ![p].late = @ \/ form[p].boot]
  /\ UNCHANGED <<patch, emit, server>>

\* The fields stay enabled while a save is under way.
Type(p, h) ==
  /\ form[p].mode = "edit"
  /\ form' = [form EXCEPT ![p].field = h]
  /\ UNCHANGED <<patch, emit, server>>

Cancel(p) ==
  /\ form[p].mode = "edit"
  /\ form' = [form EXCEPT ![p].mode = "view", ![p].field = form[p].snap,
                          ![p].snap = NoHost]
  /\ UNCHANGED <<patch, emit, server>>

\* saveSettings sends what the fields hold; only its button is disabled.
Save(p) ==
  /\ up /\ form[p].mode = "edit" /\ ~form[p].saving
  /\ form' = [form EXCEPT ![p].saving = TRUE]
  /\ patch' = [patch EXCEPT ![p] = [NoPatch EXCEPT !.pc = "sent", !.host = form[p].field]]
  /\ UNCHANGED <<emit, server>>

\* Mutant of Saved: the form is not read back.
SavedTrusts(p) ==
  /\ patch[p].pc = "answered"
  /\ patch' = [patch EXCEPT ![p] = NoPatch]
  /\ form' = [form EXCEPT ![p].saving = FALSE, ![p].mode = "view"]
  /\ UNCHANGED <<emit, server>>

\* Saved: the form is read back, maybe before the load at its opening is answered.
Saved(p) ==
  /\ patch[p].pc = "answered"
  /\ patch' = [patch EXCEPT ![p] = NoPatch]
  /\ form' = [form EXCEPT ![p].back = TRUE, ![p].late = form[p].boot]
  /\ UNCHANGED <<emit, server>>

Page(p) ==
  \/ Open(p) \/ LoadForm(p) \/ ReadBack(p) \/ Edit(p) \/ (\E h \in Settable : Type(p, h))
  \/ Cancel(p) \/ Save(p) \/ Saved(p)

-----------------------------------------------------------------------------
Init ==
  /\ up = FALSE /\ row \in Settable /\ sink = NoSink
  /\ patch = [c \in Clients |-> NoPatch]
  /\ emit = [e \in Emitters |-> NoEmit]
  /\ form = [p \in Pages |-> ClosedForm]
  /\ by = "boot"

Next ==
  \/ Boot \/ Crash
  \/ \E c \in Clients : Patch(c)
  \/ \E c \in Callers, h \in Settable : Call(c, h)
  \/ \E p \in Pages : Page(p)
  \/ \E e \in Emitters : Emission(e)

Spec == Init /\ [][Next]_vars

-----------------------------------------------------------------------------
(* Properties *)

Sinks == [host : Settable, handler : {"none", "open", "closed"}]
PatchType ==
  [pc : {"no", "sent", "loaded", "committed", "built", "fetched", "closed",
         "answered"},
   host : Settable, seen : Settable, new : Sinks,
   old : {"none", "installed", "replaced"}, alone : BOOLEAN]
EmitType ==
  [pc : {"no", "taken", "tested", "sent", "failed", "lost", "dropped"}, sink : Sinks,
   current : BOOLEAN, to : Settable, clean : BOOLEAN]
FormType ==
  [mode : {"closed", "view", "edit"}, field : Settable, snap : Settable,
   boot : BOOLEAN, back : BOOLEAN, saving : BOOLEAN, late : BOOLEAN]

TypeOK ==
  /\ up \in BOOLEAN /\ by \in {"boot", "patch", "mixed"}
  /\ row \in Settable
  /\ sink \in Sinks
  /\ patch \in [Clients -> PatchType]
  /\ emit \in [Emitters -> EmitType]
  /\ form \in [Pages -> FormType]

Quiet == up /\ \A c \in Clients : ~Busy(c)

\* Saved settings take effect without a restart: when no PATCH is at work, and one
\* has been since the boot, the sink is the one of the settings row, unless the
\* last overlapped another.
SinkMatches == Quiet /\ by = "patch" => sink.host = row

\* Where events should go: to the server of the row once it was saved, of the
\* environment since a boot.
Target == IF by = "boot" THEN EnvHost ELSE row

\* Saving the settings does not disturb shipping before and after: an event that
\* no PATCH overlaps, unless its send fails, is sent to the server that is set,
\* if the sink could reach it.
CleanEmit ==
  \A e \in Emitters : emit[e].clean =>
    /\ emit[e].pc # "lost"
    /\ emit[e].pc = "dropped" => sink.handler = "none"
    /\ emit[e].pc = "sent" /\ by # "mixed" => emit[e].to = Target

\* A form at rest shows the settings as they are saved, whatever was edited,
\* cancelled or saved, also while a save was under way; unless it was edited
\* before it was loaded, or somebody else has changed them.
AtRest(p) ==
  form[p].mode = "view" /\ ~form[p].saving /\ ~form[p].boot /\ ~form[p].late

FormShows == \A p \in Pages : AtRest(p) => form[p].field = row

-----------------------------------------------------------------------------
(* Inductive invariant *)

\* Nothing is under way while the process is down.
Down == ~up =>
  /\ \A c \in Clients : patch[c].pc = "no"
  /\ \A e \in Emitters : ~emit[e].clean

\* A PATCH that has been alone is alone and builds the sink of the row; the one
\* it builds is not closed.
PatchInv == \A c \in Clients :
  LET built == patch[c].pc \in {"built", "fetched", "closed"}
  IN  /\ built => patch[c].new.handler # "closed"
      /\ Busy(c) /\ patch[c].alone =>
           /\ \A r \in Clients : Busy(r) => r = c
           /\ built => patch[c].new.host = row

\* A PATCH that has committed will install a sink; one that has closed the sink
\* will replace it.
SinkInv ==
  /\ up /\ by = "boot" => sink.host = EnvHost
  /\ up /\ by = "patch" =>
       \/ sink.host = row
       \/ \E c \in Clients :
            patch[c].pc \in {"committed", "built", "fetched", "closed"}
  /\ sink.handler = "closed" => \E c \in Clients : patch[c].pc = "closed"

\* Nobody patches beside a clean emission, which has the sink that is installed.
EmitInv == \A e \in Emitters : emit[e].clean =>
  /\ \A c \in Clients : ~Busy(c)
  /\ emit[e].pc \in {"taken", "tested"} => emit[e].sink = sink
  /\ emit[e].pc = "tested" => sink.handler = "open"

\* What a form shows, or goes back to on Cancel, is the row until its own save
\* has committed.
FormInv == \A p \in Pages :
  /\ patch[p].pc # "no" => form[p].saving
  /\ form[p].mode = "closed" => ~form[p].saving
  /\ form[p].back => form[p].saving /\ patch[p].pc = "no"
  /\ form[p].boot /\ (form[p].mode = "edit" \/ form[p].saving) => form[p].late
  /\ ~form[p].late /\ ~form[p].boot /\ ~form[p].back
       /\ patch[p].pc \in {"no", "sent", "loaded"} =>
       /\ form[p].mode = "edit" => form[p].snap = row
       /\ form[p].mode = "view" => form[p].field = row

IInv ==
  /\ TypeOK /\ Down /\ PatchInv /\ SinkInv
  /\ EmitInv /\ CleanEmit /\ FormInv

-----------------------------------------------------------------------------
(* What does not hold *)

\* A boot builds the sink of the settings that are saved.
SinkOfRowAtBoot == Quiet /\ by = "boot" => sink.host = row

\* Any two PATCHes leave the sink of the row.
SinkAlwaysMatches == Quiet /\ by # "boot" => sink.host = row

\* An event meets no handler that a PATCH has closed.
NothingLost == \A e \in Emitters : emit[e].pc # "lost"

\* A page that was not loaded first saves nothing.
LoadedFirst == \A p \in Pages : Busy(p) => ~form[p].late
=============================================================================
