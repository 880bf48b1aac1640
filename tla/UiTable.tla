------------------------------ MODULE UiTable ------------------------------
(***************************************************************************)
(* The provider table of the management page (app/static/app.js): rows that *)
(* are rebuilt every five seconds from GET /api/providers, and edit rows    *)
(* the user has open in it.  The page is one thread, but every answer comes *)
(* after an await, and the variable that keeps the two apart,               *)
(* editingProviderId, is read before it.                                    *)
(*                                                                          *)
(* The providers table is abstracted to the number of changes committed to  *)
(* it; each edit row the user opens is an edit of its own.                  *)
(***************************************************************************)
EXTENDS Integers, FiniteSets

CONSTANTS
  Providers,    \* rows of the table
  Nobody,       \* editingProviderId is null
  Loads,        \* bound: requests for the table under way at once
  MaxEdits,     \* bound: edit rows opened
  MaxChanges    \* bound: changes of the providers table

ASSUME UiTableAssumption ==
  Nobody \notin Providers /\ MaxEdits \in Nat /\ MaxChanges \in Nat

Edits == 1..MaxEdits

VARIABLES
  db,         \* changes committed to the providers table
  shown,      \* how many of them the rows on the page show
  editing,    \* editingProviderId
  edit,       \* the edit rows
  load,       \* the requests for the table
  hidden,     \* the providers whose display row is hidden
  safe,       \* history: the edit opened with nothing else under way, or 0
  torn        \* history: a rebuild has taken away the row of the edit that
              \* editingProviderId is about, and no edit has begun or ended since

tableVars == <<db, shown, editing, edit, load, hidden, safe, torn>>
editVars == <<editing, edit, hidden, safe, torn>>

-----------------------------------------------------------------------------
\* `in` tells whether the row is in the document; one that a rebuild took out
\* lives on in the submitEdit call it is part of.
Unused == [pc |-> "unused", of |-> Nobody, in |-> FALSE]
Opened(p) == [pc |-> "open", of |-> p, in |-> TRUE]
NoLoad == [pc |-> "none", rows |-> 0]

At(e, pc) == edit[e].pc = pc
OnPage == \E e \in Edits : edit[e].in     \* some edit row is in the document

\* No answer is awaited and no edit row is open.
Quiet ==
  /\ \A l \in Loads : load[l] = NoLoad
  /\ \A e \in Edits : ~edit[e].in /\ edit[e].pc \notin {"saving", "saved"}

-----------------------------------------------------------------------------
\* Mutant of StartLoad: an open edit row does not keep the table from loading.
StartLoadAlways(l) ==
  /\ load[l] = NoLoad
  /\ load' = [load EXCEPT ![l].pc = "sent"]
  /\ UNCHANGED <<db, shown, editVars>>

\* Mutant of StartLoad: the table is loaded once, with the page.
StartLoadOnce(l) ==
  /\ load[l] = NoLoad /\ editing = Nobody /\ shown = 0
  /\ load' = [load EXCEPT ![l].pc = "sent"]
  /\ UNCHANGED <<db, shown, editVars>>

\* loadProviders, at a tick of the interval or after a request of the user's:
\* nothing while a provider is being edited.
StartLoad(l) ==
  /\ load[l] = NoLoad /\ editing = Nobody
  /\ load' = [load EXCEPT ![l].pc = "sent"]
  /\ UNCHANGED <<db, shown, editVars>>

\* The server answers ...
ServeTable(l) ==
  /\ load[l].pc = "sent"
  /\ load' = [load EXCEPT ![l] = [pc |-> "served", rows |-> db]]
  /\ UNCHANGED <<db, shown, editVars>>

\* ... and every row on the page, edit rows included, gives way to the answer.
Render(l) ==
  /\ load[l].pc = "served"
  /\ shown' = load[l].rows
  /\ edit' = [e \in Edits |-> [edit[e] EXCEPT !.in = FALSE]]
  /\ load' = [load EXCEPT ![l] = NoLoad]
  /\ hidden' = {} /\ torn' = (torn \/ editing # Nobody)
  /\ UNCHANGED <<db, editing, safe>>

\* The request fails; a message is shown.
LoadFails(l) ==
  /\ load[l] # NoLoad
  /\ load' = [load EXCEPT ![l] = NoLoad]
  /\ UNCHANGED <<db, shown, editVars>>

-----------------------------------------------------------------------------
\* beginEdit, by a button of a display row, which it hides.
BeginEdit(e, p) ==
  /\ At(e, "unused") /\ \A f \in 1..(e - 1) : ~At(f, "unused")
  /\ p \notin hidden /\ hidden' = hidden \cup {p}
  /\ editing' = p /\ torn' = FALSE
  /\ edit' = [edit EXCEPT ![e] = Opened(p)]
  /\ safe' = IF Quiet THEN e ELSE 0
  /\ UNCHANGED <<db, shown, load>>

\* cancelEdit: the table may load again, whichever provider is being edited, and
\* the display row is shown, whichever edit row stands for it ...
Reset(e) ==
  /\ editing' = Nobody /\ torn' = FALSE
  /\ hidden' = hidden \ {edit[e].of}

\* ... and the edit row, in the document, is taken out.
Close(e) ==
  /\ Reset(e)
  /\ edit' = [edit EXCEPT ![e].pc = "closed", ![e].in = FALSE]
  /\ safe' = IF safe = e THEN 0 ELSE safe

Cancel(e) ==
  /\ At(e, "open") /\ edit[e].in
  /\ Close(e)
  /\ UNCHANGED <<db, shown, load>>

\* submitEdit sends the PATCH ...
Submit(e) ==
  /\ At(e, "open") /\ edit[e].in
  /\ edit' = [edit EXCEPT ![e].pc = "saving"]
  /\ UNCHANGED <<db, shown, editing, load, hidden, safe, torn>>

\* ... the server commits it ...
Patch(e) ==
  /\ At(e, "saving") /\ db < MaxChanges
  /\ db' = db + 1
  /\ edit' = [edit EXCEPT ![e].pc = "saved"]
  /\ UNCHANGED <<shown, editing, load, hidden, safe, torn>>

\* ... or refuses it, or the answer is lost: the row stays as it is.
Refused(e) ==
  /\ edit[e].pc \in {"saving", "saved"}
  /\ edit' = [edit EXCEPT ![e].pc = "open"]
  /\ UNCHANGED <<db, shown, editing, load, hidden, safe, torn>>

\* A save that succeeded closes the row and loads the table.
Saved(e, l) ==
  /\ At(e, "saved") /\ edit[e].in
  /\ load[l] = NoLoad
  /\ Close(e)
  /\ load' = [load EXCEPT ![l].pc = "sent"]
  /\ UNCHANGED <<db, shown>>

\* Of a row that is no longer in the document, cancelEdit raises when it is to
\* take it out, and the table is not loaded.
SavedDetached(e) ==
  /\ At(e, "saved") /\ ~edit[e].in
  /\ edit' = [edit EXCEPT ![e].pc = "open"]
  /\ Reset(e)
  /\ UNCHANGED <<db, shown, load, safe>>

\* Refreshes and other pages change providers.
Change ==
  /\ db < MaxChanges
  /\ db' = db + 1
  /\ UNCHANGED <<shown, load, editVars>>

-----------------------------------------------------------------------------
TableInit ==
  /\ db = 0 /\ shown = 0
  /\ editing = Nobody
  /\ edit = [e \in Edits |-> Unused]
  /\ load = [l \in Loads |-> NoLoad]
  /\ hidden = {} /\ safe = 0 /\ torn = FALSE

TableNext ==
  \/ \E l \in Loads : StartLoad(l) \/ ServeTable(l) \/ Render(l) \/ LoadFails(l)
  \/ \E e \in Edits :
       \/ \E p \in Providers : BeginEdit(e, p)
       \/ Cancel(e) \/ Submit(e) \/ Patch(e) \/ Refused(e)
       \/ \E l \in Loads : Saved(e, l)
       \/ SavedDetached(e)
  \/ Change

TableSpec == TableInit /\ [][TableNext]_tableVars

\* The interval ticks, answers are rendered, and of the requests that are sent
\* again and again some are answered.
TableFairSpec ==
  /\ TableSpec
  /\ WF_tableVars(\E l \in Loads : StartLoad(l))
  /\ \A l \in Loads :
       /\ SF_tableVars(ServeTable(l)) /\ SF_tableVars(Render(l))

-----------------------------------------------------------------------------
(* Properties *)

\* Every variable has its type, and what is shown was committed.
TableTypeOK ==
  /\ db \in 0..MaxChanges
  /\ shown \in 0..db
  /\ editing \in Providers \cup {Nobody}
  /\ edit \in [Edits -> [pc : {"unused", "open", "saving", "saved", "closed"},
                         of : Providers \cup {Nobody}, in : BOOLEAN]]
  /\ load \in [Loads -> [pc : {"none", "sent", "served"}, rows : 0..db]]
  /\ hidden \subseteq Providers
  /\ safe \in Edits \cup {0} /\ torn \in BOOLEAN

\* An edit row opened while no answer was awaited and no other row was open
\* stays in the document until its user saves or cancels it, or edits another
\* provider meanwhile: no poll of the table destroys what has been typed.
AloneSurvives ==
  safe # 0 =>
    /\ edit[safe].in
    /\ editing = edit[safe].of

\* The page picks up what threads change in the background: once no edit row is
\* on the page any more, the table comes to show what is committed, and stays so,
\* unless it was a rebuild that took the last edit row away: editingProviderId is
\* then left set.
CatchesUp ==
  <>[](~OnPage /\ ~torn) => <>[](shown = db)

\* Without that exception, it does not hold.
CatchesUpAlways ==
  <>[]~OnPage => <>[](shown = db)
=============================================================================
