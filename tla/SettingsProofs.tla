-------------------------- MODULE SettingsProofs --------------------------
(***************************************************************************)
(* Proofs about Settings, for any servers, pages, callers and emitters.    *)
(***************************************************************************)
EXTENDS Settings, TLAPS

LEMMA Types0 ==
  /\ NoSink \in Sinks /\ NoPatch \in PatchType /\ NoEmit \in EmitType
  /\ NewForm \in FormType /\ ClosedForm \in FormType
  /\ Pages \subseteq Clients /\ Callers \subseteq Clients
  /\ EnvHost \in Settable /\ NoHost \in Settable
  /\ \A s \in Sinks : Close(s) \in Sinks
  /\ \A h \in Settable : NewSinks(h) \subseteq Sinks
BY SettingsAssumption
   DEF NoSink, NoPatch, NoEmit, NewForm, ClosedForm, Sinks, PatchType, EmitType,
       FormType, Clients, Settable, Close, NewSinks

LEMMA InitInductive == Init => IInv
<1> SUFFICES ASSUME Init PROVE IInv
  OBVIOUS
<1>1. TypeOK
  BY Types0 DEF Init, TypeOK
<1> QED
  BY <1>1, Types0
     DEF Init, IInv, Down, PatchInv, SinkInv, EmitInv, CleanEmit, FormInv, Busy,
         NoSink, NoPatch, NoEmit, ClosedForm

-----------------------------------------------------------------------------
(* Types *)

LEMMA OutdatedType ==
  ASSUME TypeOK, row' \in Settable, NEW A
  PROVE  Outdated(A) \in [Pages -> FormType]
<1> SUFFICES ASSUME NEW p \in Pages
             PROVE  [form[p] EXCEPT !.late = @ \/ (row' # row /\ p \notin A
                        /\ form[p].mode # "closed")] \in FormType
  BY DEF Outdated
<1> QED
  BY DEF TypeOK, FormType

LEMMA LoadType ==
  ASSUME TypeOK, NEW c \in Clients, NEW h \in Settable, Load(c, h)
  PROVE  TypeOK'
<1>1. patch' \in [Clients -> PatchType]
  <2> SUFFICES ASSUME NEW q \in Clients PROVE patch'[q] \in PatchType
    BY DEF Load
  <2>1. CASE q = c
    BY <2>1, Types0 DEF Load, TypeOK, PatchType
  <2>2. CASE q # c
    BY <2>2 DEF Load, TypeOK, PatchType
  <2> QED
    BY <2>1, <2>2
<1>2. emit' \in [Emitters -> EmitType]
  BY DEF Load, TypeOK, EmitType
<1> QED
  BY <1>1, <1>2 DEF Load, TypeOK, server

LEMMA PatchTypes ==
  ASSUME TypeOK, NEW c \in Clients, Patch(c)
  PROVE  TypeOK'
<1>1. CASE PatchLoad(c)
  BY <1>1, LoadType DEF PatchLoad, TypeOK, PatchType
<1>2. CASE PatchRefused(c)
  BY <1>2, Types0 DEF PatchRefused, TypeOK, FormType, server
<1>3. CASE PatchCommit(c)
  <2>1. row' \in Settable
    BY <1>3 DEF PatchCommit, TypeOK, PatchType
  <2>2. form' \in [Pages -> FormType]
    BY <1>3, <2>1, OutdatedType DEF PatchCommit
  <2>3. [NoPatch EXCEPT !.pc = "committed", !.alone = patch[c].alone] \in PatchType
    BY Types0 DEF TypeOK, PatchType
  <2> QED
    BY <1>3, <2>1, <2>2, <2>3 DEF PatchCommit, TypeOK, ByPatch
<1>4. CASE PatchBuild(c)
  <2>1. PICK s \in NewSinks(row) :
          patch' = [patch EXCEPT ![c].pc = "built", ![c].new = s]
    BY <1>4 DEF PatchBuild
  <2>2. s \in Sinks
    BY Types0 DEF TypeOK
  <2>3. [patch[c] EXCEPT !.pc = "built", !.new = s] \in PatchType
    BY <2>2 DEF TypeOK, PatchType
  <2>4. patch' = [patch EXCEPT ![c] = [patch[c] EXCEPT !.pc = "built", !.new = s]]
    BY <2>1
  <2> QED
    BY <1>4, <2>3, <2>4 DEF PatchBuild, TypeOK, server
<1>5. CASE PatchFetch(c)
  <2>1. [patch[c] EXCEPT !.pc = "fetched", !.old = "installed"] \in PatchType
    BY DEF TypeOK, PatchType
  <2>2. patch' = [patch EXCEPT
          ![c] = [patch[c] EXCEPT !.pc = "fetched", !.old = "installed"]]
    BY <1>5 DEF PatchFetch
  <2> QED
    BY <1>5, <2>1, <2>2 DEF PatchFetch, TypeOK, server
<1>6. CASE PatchClose(c)
  <2>1. sink' \in Sinks
    BY <1>6, Types0 DEF PatchClose, TypeOK
  <2>2. emit' \in [Emitters -> EmitType]
    <3>1. PICK Y : emit' = [e \in Emitters |->
            IF e \in Y THEN [emit[e] EXCEPT !.sink = Close(@)] ELSE emit[e]]
      BY <1>6 DEF PatchClose
    <3>2. ASSUME NEW e \in Emitters
          PROVE  emit'[e] \in EmitType
      <4>1. Close(emit[e].sink) \in Sinks
        BY Types0 DEF TypeOK, EmitType
      <4> QED
        BY <3>1, <4>1 DEF TypeOK, EmitType
    <3> QED
      BY <3>1, <3>2
  <2> QED
    BY <1>6, <2>1, <2>2 DEF PatchClose, TypeOK, PatchType
<1>7. CASE PatchInstall(c)
  <2>1. /\ sink' \in Sinks /\ by' \in {"boot", "patch", "mixed"}
        /\ emit' \in [Emitters -> EmitType]
    BY <1>7 DEF PatchInstall, TypeOK, PatchType, EmitType, ByPatch
  <2>2. ASSUME NEW q \in Clients
        PROVE  patch'[q] \in PatchType
    <3>1. [NoPatch EXCEPT !.pc = "answered"] \in PatchType
      BY Types0 DEF PatchType
    <3>2. CASE q = c
      BY <1>7, <3>1, <3>2, Types0 DEF PatchInstall
    <3>3. CASE q # c
      BY <1>7, <3>3 DEF PatchInstall, TypeOK, PatchType
    <3> QED
      BY <3>2, <3>3
  <2>3. patch' \in [Clients -> PatchType]
    BY <1>7, <2>2 DEF PatchInstall
  <2> QED
    BY <1>7, <2>1, <2>3 DEF PatchInstall, TypeOK
<1> QED
  BY <1>1, <1>2, <1>3, <1>4, <1>5, <1>6, <1>7 DEF Patch

LEMMA EmitTypes ==
  ASSUME TypeOK, NEW e \in Emitters, Emission(e)
  PROVE  TypeOK'
<1>1. CASE EmitTake(e)
  <2>1. [NoEmit EXCEPT !.pc = "taken", !.sink = sink, !.current = TRUE,
           !.clean = (\A c \in Clients : ~Busy(c))] \in EmitType
    BY Types0 DEF TypeOK, EmitType
  <2> QED
    BY <1>1, <2>1 DEF EmitTake, TypeOK, server
<1>2. ASSUME NEW how \in {"sent", "failed", "lost", "dropped"}, NEW to \in Settable,
             End(e, how, to)
      PROVE  emit' \in [Emitters -> EmitType]
  <2>1. [NoEmit EXCEPT !.pc = how, !.to = to, !.clean = emit[e].clean] \in EmitType
    BY Types0 DEF TypeOK, EmitType
  <2> QED
    BY <1>2, <2>1 DEF End, TypeOK
<1>3. CASE EmitTest(e)
  <2>1. CASE emit[e].sink.handler = "open"
    BY <1>3, <2>1 DEF EmitTest, TypeOK, EmitType, server
  <2>2. CASE emit[e].sink.handler # "open"
    BY <1>2, <1>3, <2>2, Types0 DEF EmitTest, TypeOK, server
  <2> QED
    BY <2>1, <2>2
<1>4. CASE EmitSend(e)
  <2>1. emit[e].sink.host \in Settable
    BY DEF TypeOK, EmitType, Sinks
  <2>2. emit' \in [Emitters -> EmitType]
    BY <1>2, <1>4, <2>1, Types0 DEF EmitSend
  <2> QED
    BY <1>4, <2>2 DEF EmitSend, TypeOK, server
<1> QED
  BY <1>1, <1>3, <1>4 DEF Emission

LEMMA PageTypes ==
  ASSUME TypeOK, NEW p \in Pages, Page(p)
  PROVE  TypeOK'
<1>1. CASE Open(p)
  BY <1>1, Types0 DEF Open, TypeOK, server
<1>2. CASE LoadForm(p)
  <2>1. PICK x : x = [form[p] EXCEPT !.boot = FALSE, !.field = row]
    OBVIOUS
  <2>2. x \in FormType
    BY <2>1 DEF TypeOK, FormType
  <2>3. form' = [form EXCEPT ![p] = x]
    BY <1>2, <2>1 DEF LoadForm
  <2> QED
    BY <1>2, <2>2, <2>3 DEF LoadForm, TypeOK, server
<1>3. CASE Edit(p)
  <2>1. PICK x : x = [form[p] EXCEPT !.mode = "edit", !.snap = form[p].field,
                                     !.late = @ \/ form[p].boot]
    OBVIOUS
  <2>2. x \in FormType
    BY <2>1 DEF TypeOK, FormType
  <2>3. form' = [form EXCEPT ![p] = x]
    BY <1>3, <2>1 DEF Edit
  <2> QED
    BY <1>3, <2>2, <2>3 DEF Edit, TypeOK, server
<1>4. ASSUME NEW h \in Settable, Type(p, h)
      PROVE  TypeOK'
  BY <1>4 DEF Type, TypeOK, FormType, server
<1>5. CASE Cancel(p)
  <2>1. PICK x : x = [form[p] EXCEPT !.mode = "view", !.field = form[p].snap,
                                     !.snap = NoHost]
    OBVIOUS
  <2>2. x \in FormType
    BY <2>1, Types0 DEF TypeOK, FormType
  <2>3. form' = [form EXCEPT ![p] = x]
    BY <1>5, <2>1 DEF Cancel
  <2> QED
    BY <1>5, <2>2, <2>3 DEF Cancel, TypeOK, server
<1>6. CASE Save(p)
  <2>1. [NoPatch EXCEPT !.pc = "sent", !.host = form[p].field] \in PatchType
    BY Types0 DEF TypeOK, FormType, PatchType
  <2>2. form' \in [Pages -> FormType]
    BY <1>6 DEF Save, TypeOK, FormType
  <2> QED
    BY <1>6, <2>1, <2>2 DEF Save, TypeOK, server
<1>7. CASE Saved(p)
  <2>1. PICK x : x = [form[p] EXCEPT !.back = TRUE, !.late = form[p].boot]
    OBVIOUS
  <2>2. x \in FormType
    BY <2>1 DEF TypeOK, FormType
  <2>3. form' = [form EXCEPT ![p] = x]
    BY <1>7, <2>1 DEF Saved
  <2> QED
    BY <1>7, <2>2, <2>3, Types0 DEF Saved, TypeOK, server
<1>8. CASE ReadBack(p)
  <2>1. PICK x : x = [form[p] EXCEPT !.back = FALSE, !.field = row, !.mode = "view",
                                     !.snap = NoHost, !.saving = FALSE]
    OBVIOUS
  <2>2. x \in FormType
    BY <2>1, Types0 DEF TypeOK, FormType
  <2>3. form' = [form EXCEPT ![p] = x]
    BY <1>8, <2>1 DEF ReadBack
  <2>4. form' \in [Pages -> FormType]
    BY <2>2, <2>3 DEF TypeOK
  <2> QED
    BY <1>8, <2>4 DEF ReadBack, TypeOK, server
<1> QED
  BY <1>1, <1>2, <1>3, <1>4, <1>5, <1>6, <1>7, <1>8 DEF Page

LEMMA TypeStep ==
  ASSUME TypeOK, [Next]_vars
  PROVE  TypeOK'
<1>1. CASE Boot
  BY <1>1, Types0 DEF Boot, TypeOK
<1>2. CASE Crash
  <2>1. ASSUME NEW p \in Pages
        PROVE  form'[p] \in FormType
    <3>1. PICK x : x = [form[p] EXCEPT
            !.mode = IF form[p].back THEN "view" ELSE @,
            !.boot = FALSE, !.back = FALSE, !.saving = FALSE,
            !.late = @ \/ form[p].boot \/ form[p].saving]
      OBVIOUS
    <3>2. form'[p] = x
      BY <1>2, <3>1 DEF Crash
    <3>3. x \in FormType
      BY <3>1 DEF TypeOK, FormType
    <3> QED
      BY <3>2, <3>3
  <2>2. form' \in [Pages -> FormType]
    BY <1>2, <2>1 DEF Crash
  <2> QED
    BY <1>2, <2>2, Types0 DEF Crash, TypeOK
<1>3. ASSUME NEW c \in Callers, NEW h \in Settable, Call(c, h)
      PROVE  TypeOK'
  BY <1>3, LoadType, Types0 DEF Call
<1>4. CASE UNCHANGED vars
  BY <1>4 DEF vars, TypeOK
<1> QED
  BY <1>1, <1>2, <1>3, <1>4, PatchTypes, EmitTypes, PageTypes DEF Next

-----------------------------------------------------------------------------
(* What each part of the program leaves alone *)

\* Who works on a PATCH after a step that changes the PATCH of c only.
LEMMA BusyAfter ==
  ASSUME TypeOK, NEW c \in Clients, NEW x \in PatchType,
         patch' = [patch EXCEPT ![c] = x]
  PROVE  /\ patch'[c] = x /\ \A d \in Clients \ {c} : patch'[d] = patch[d]
         /\ Busy(c)' <=> x.pc \in {"loaded", "committed", "built", "fetched", "closed"}
         /\ \A d \in Clients \ {c} : Busy(d)' <=> Busy(d)
BY DEF TypeOK, Busy

\* An emission changes nothing of the server and nobody's PATCH or form.
LEMMA EmissionLeaves ==
  ASSUME NEW e \in Emitters, Emission(e)
  PROVE  UNCHANGED <<up, row, sink, by, patch, form>>
BY DEF Emission, EmitTake, EmitTest, EmitSend, server

\* A page changes nothing of the server, and at most its own PATCH, which is not
\* at work.
LEMMA PageLeaves ==
  ASSUME TypeOK, FormInv, NEW p \in Pages, Page(p)
  PROVE  /\ UNCHANGED <<up, row, sink, by, emit>>
         /\ \/ patch' = patch
            \/ ~Busy(p) /\ \E x \in PatchType :
                 x.pc \in {"no", "sent"} /\ patch' = [patch EXCEPT ![p] = x]
         /\ ~up /\ patch[p].pc = "no" => patch' = patch
<1>1. CASE Save(p)
  <2>1. [NoPatch EXCEPT !.pc = "sent", !.host = form[p].field] \in PatchType
    BY Types0 DEF TypeOK, FormType, PatchType
  <2>2. [NoPatch EXCEPT !.pc = "sent", !.host = form[p].field].pc = "sent"
    BY DEF NoPatch
  <2>3. ~Busy(p) /\ up
    BY <1>1, Types0 DEF Save, FormInv, Busy
  <2> QED
    BY <1>1, <2>1, <2>2, <2>3 DEF Save, server
<1>2. CASE Saved(p)
  <2>1. NoPatch \in PatchType /\ NoPatch.pc = "no"
    BY Types0 DEF NoPatch
  <2> QED
    BY <1>2, <2>1 DEF Saved, Busy, server
<1>3. CASE Open(p)
  BY <1>3 DEF Open, server
<1>4. CASE LoadForm(p)
  BY <1>4 DEF LoadForm, server
<1>5. CASE Edit(p)
  BY <1>5 DEF Edit, server
<1>6. ASSUME NEW h \in Settable, Type(p, h)
      PROVE  UNCHANGED <<up, row, sink, by, emit, patch>>
  BY <1>6 DEF Type, server
<1>7. CASE Cancel(p)
  BY <1>7 DEF Cancel, server
<1>8. CASE ReadBack(p)
  BY <1>8 DEF ReadBack, server
<1> QED
  BY <1>1, <1>2, <1>3, <1>4, <1>5, <1>6, <1>7, <1>8 DEF Page

\* After a step of a page the same PATCHes are at work, and unchanged.
LEMMA PageBusy ==
  ASSUME TypeOK, FormInv, NEW p \in Pages, Page(p)
  PROVE  \A c \in Clients :
           /\ Busy(c)' <=> Busy(c)
           /\ Busy(c) => patch'[c] = patch[c]
<1>1. p \in Clients
  BY Types0
<1>2. CASE patch' = patch
  BY <1>2 DEF Busy
<1>3. ASSUME ~Busy(p), NEW x \in PatchType, x.pc \in {"no", "sent"},
             patch' = [patch EXCEPT ![p] = x]
      PROVE  \A c \in Clients :
               /\ Busy(c)' <=> Busy(c)
               /\ Busy(c) => patch'[c] = patch[c]
  BY <1>1, <1>3, BusyAfter
<1> QED
  BY <1>2, <1>3, PageLeaves

-----------------------------------------------------------------------------
(* While the process is down *)

LEMMA DownStep ==
  ASSUME TypeOK, Down, FormInv, [Next]_vars
  PROVE  Down'
<1>1. CASE Boot
  BY <1>1 DEF Boot, Down
<1>2. CASE Crash
  BY <1>2 DEF Crash, Down, NoPatch, NoEmit
<1>3. ASSUME NEW c \in Clients, NEW h \in Settable, Load(c, h), up
      PROVE  Down'
  BY <1>3 DEF Load, Down, server
<1>4. ASSUME NEW c \in Clients, Patch(c)
      PROVE  Down'
  <2>1. patch[c].pc # "no"
    BY <1>4 DEF Patch, PatchLoad, PatchRefused, PatchCommit, PatchBuild,
                PatchFetch, PatchClose, PatchInstall
  <2>2. up /\ up' = up
    BY <1>4, <2>1 DEF Down, Patch, PatchLoad, Load, PatchRefused, PatchCommit,
                PatchBuild, PatchFetch, PatchClose, PatchInstall, server
  <2> QED
    BY <2>2 DEF Down
<1>5. ASSUME NEW c \in Callers, NEW h \in Settable, Call(c, h)
      PROVE  Down'
  BY <1>3, <1>5, Types0 DEF Call
<1>6. ASSUME NEW p \in Pages, Page(p)
      PROVE  Down'
  BY <1>6, PageLeaves, Types0 DEF Down
<1>7. ASSUME NEW e \in Emitters, Emission(e), ~up
      PROVE  Down'
  <2>1. /\ ~emit[e].clean
        /\ UNCHANGED <<up, patch>>
    BY <1>7, EmissionLeaves DEF Down
  <2>2. \E x \in EmitType : ~x.clean /\ emit' = [emit EXCEPT ![e] = x]
    <3>1. NoEmit \in EmitType /\ ~NoEmit.clean
      BY Types0 DEF NoEmit
    <3>2. ASSUME NEW how \in {"sent", "failed", "lost", "dropped"}, NEW to \in Settable,
                 End(e, how, to)
          PROVE  \E x \in EmitType : ~x.clean /\ emit' = [emit EXCEPT ![e] = x]
      <4> DEFINE x == [NoEmit EXCEPT !.pc = how, !.to = to, !.clean = emit[e].clean]
      <4>1. x \in EmitType /\ ~x.clean
        BY <2>1, Types0 DEF TypeOK, EmitType
      <4>2. emit' = [emit EXCEPT ![e] = x]
        BY <3>2 DEF End
      <4> QED
        BY <4>1, <4>2
    <3>3. emit[e].sink.host \in Settable /\ NoHost \in Settable
      BY Types0 DEF TypeOK, EmitType, Sinks
    <3>4. [emit[e] EXCEPT !.pc = "tested"] \in EmitType
      BY DEF TypeOK, EmitType
    <3>5. ~[emit[e] EXCEPT !.pc = "tested"].clean
      BY <2>1 DEF TypeOK, EmitType
    <3> QED
      BY <1>7, <3>1, <3>2, <3>3, <3>4, <3>5
         DEF Emission, EmitTake, EmitTest, EmitSend
  <2>3. \A d \in Emitters : ~emit'[d].clean
    BY <1>7, <2>2 DEF Down, TypeOK
  <2> QED
    BY <1>7, <2>1, <2>3 DEF Down
<1>8. CASE UNCHANGED vars
  BY <1>8 DEF vars, Down
<1>9. ASSUME NEW e \in Emitters, Emission(e), up
      PROVE  Down'
  BY <1>9, EmissionLeaves DEF Down
<1> QED
  BY <1>1, <1>2, <1>4, <1>5, <1>6, <1>7, <1>8, <1>9 DEF Next

-----------------------------------------------------------------------------
(* The sink and the PATCHes *)

LEMMA LoadKeeps ==
  ASSUME TypeOK, PatchInv, NEW c \in Clients, NEW h \in Settable, Load(c, h)
  PROVE  PatchInv'
<1>1. /\ patch'[c].pc = "loaded" /\ patch'[c].alone = (\A r \in Clients : ~Busy(r))
      /\ \A d \in Clients \ {c} : /\ patch'[d].pc = patch[d].pc /\ ~patch'[d].alone
                                   /\ patch'[d].new = patch[d].new
      /\ row' = row
  BY DEF Load, TypeOK, PatchType, server
<1>2. \A d \in Clients \ {c} : Busy(d)' <=> Busy(d)
  BY <1>1 DEF Busy
<1> QED
  BY <1>1, <1>2 DEF PatchInv

\* Of the other PATCHes an install changes only whose sink they are to close.
LEMMA InstallLeaves ==
  ASSUME TypeOK, NEW c \in Clients, PatchInstall(c)
  PROVE  \A d \in Clients \ {c} :
           /\ patch'[d].pc = patch[d].pc /\ patch'[d].new = patch[d].new
           /\ patch'[d].alone = patch[d].alone
BY DEF PatchInstall, TypeOK, PatchType

\* The steps of a PATCH that is at work already.
LEMMA WorkKeeps ==
  ASSUME TypeOK, PatchInv, NEW c \in Clients, Patch(c), ~PatchLoad(c)
  PROVE  PatchInv'
<1>1. CASE PatchRefused(c)
  <2>1. patch' = [patch EXCEPT ![c] = NoPatch] /\ row' = row
    BY <1>1 DEF PatchRefused, server
  <2>2. NoPatch \in PatchType /\ NoPatch.pc = "no"
    BY Types0 DEF NoPatch
  <2>9. /\ patch'[c] = NoPatch /\ \A d \in Clients \ {c} : patch'[d] = patch[d]
        /\ Busy(c)' <=> NoPatch.pc \in {"loaded", "committed", "built", "fetched", "closed"}
        /\ \A d \in Clients \ {c} : Busy(d)' <=> Busy(d)
    BY <2>1, <2>2, BusyAfter
  <2> QED
    BY <2>1, <2>2, <2>9 DEF PatchInv
<1>2. CASE PatchCommit(c)
  <2> DEFINE x == [NoPatch EXCEPT !.pc = "committed", !.alone = patch[c].alone]
  <2>1. patch' = [patch EXCEPT ![c] = x] /\ Busy(c)
    BY <1>2 DEF PatchCommit, Busy
  <2>2. x \in PatchType /\ x.pc = "committed" /\ x.alone = patch[c].alone
    BY Types0 DEF TypeOK, PatchType
  <2> HIDE DEF x
  <2>9. /\ patch'[c] = x /\ \A d \in Clients \ {c} : patch'[d] = patch[d]
        /\ Busy(c)' <=> x.pc \in {"loaded", "committed", "built", "fetched", "closed"}
        /\ \A d \in Clients \ {c} : Busy(d)' <=> Busy(d)
    BY <2>1, <2>2, BusyAfter
  <2> QED
    BY <2>1, <2>2, <2>9 DEF PatchInv
<1>3. CASE PatchBuild(c)
  <2>1. PICK s \in NewSinks(row) :
          patch' = [patch EXCEPT ![c].pc = "built", ![c].new = s]
    BY <1>3 DEF PatchBuild
  <2>2. s \in Sinks /\ s.host = row /\ s.handler # "closed"
    BY <2>1, Types0 DEF TypeOK, NewSinks
  <2> DEFINE x == [patch[c] EXCEPT !.pc = "built", !.new = s]
  <2>3. patch' = [patch EXCEPT ![c] = x] /\ Busy(c) /\ row' = row
    BY <1>3, <2>1 DEF PatchBuild, Busy, server
  <2>4. /\ x \in PatchType /\ x.pc = "built" /\ x.alone = patch[c].alone
        /\ x.new = s
    BY <2>2 DEF TypeOK, PatchType
  <2> HIDE DEF x
  <2>9. /\ patch'[c] = x /\ \A d \in Clients \ {c} : patch'[d] = patch[d]
        /\ Busy(c)' <=> x.pc \in {"loaded", "committed", "built", "fetched", "closed"}
        /\ \A d \in Clients \ {c} : Busy(d)' <=> Busy(d)
    BY <2>2, <2>3, <2>4, BusyAfter
  <2> QED
    BY <2>2, <2>3, <2>4, <2>9 DEF PatchInv
<1>4. CASE PatchFetch(c)
  <2> DEFINE x == [patch[c] EXCEPT !.pc = "fetched", !.old = "installed"]
  <2>1. /\ patch' = [patch EXCEPT ![c] = x] /\ Busy(c) /\ row' = row
        /\ patch[c].pc = "built"
    BY <1>4 DEF PatchFetch, Busy, server
  <2>2. /\ x \in PatchType /\ x.pc = "fetched" /\ x.alone = patch[c].alone
        /\ x.new = patch[c].new
    BY DEF TypeOK, PatchType
  <2> HIDE DEF x
  <2>9. /\ patch'[c] = x /\ \A d \in Clients \ {c} : patch'[d] = patch[d]
        /\ Busy(c)' <=> x.pc \in {"loaded", "committed", "built", "fetched", "closed"}
        /\ \A d \in Clients \ {c} : Busy(d)' <=> Busy(d)
    BY <2>1, <2>2, BusyAfter
  <2> QED
    BY <2>1, <2>2, <2>9 DEF PatchInv
<1>5. CASE PatchClose(c)
  <2> DEFINE x == [patch[c] EXCEPT !.pc = "closed"]
  <2>1. /\ patch' = [patch EXCEPT ![c] = x] /\ Busy(c) /\ row' = row
        /\ patch[c].pc = "fetched"
    BY <1>5 DEF PatchClose, Busy
  <2>2. /\ x \in PatchType /\ x.pc = "closed" /\ x.alone = patch[c].alone
        /\ x.new = patch[c].new
    BY DEF TypeOK, PatchType
  <2> HIDE DEF x
  <2>9. /\ patch'[c] = x /\ \A d \in Clients \ {c} : patch'[d] = patch[d]
        /\ Busy(c)' <=> x.pc \in {"loaded", "committed", "built", "fetched", "closed"}
        /\ \A d \in Clients \ {c} : Busy(d)' <=> Busy(d)
    BY <2>1, <2>2, BusyAfter
  <2> QED
    BY <2>1, <2>2, <2>9 DEF PatchInv
<1>6. CASE PatchInstall(c)
  <2>1. row' = row /\ ~Busy(c)'
    BY <1>6 DEF PatchInstall, Busy, NoPatch
  <2>2. \A d \in Clients \ {c} : /\ patch'[d].pc = patch[d].pc
                                 /\ patch'[d].new = patch[d].new
                                 /\ patch'[d].alone = patch[d].alone
    BY <1>6, InstallLeaves
  <2>3. \A d \in Clients \ {c} : Busy(d)' <=> Busy(d)
    BY <2>2 DEF Busy
  <2> QED
    BY <2>1, <2>2, <2>3 DEF PatchInv, Busy
<1> QED
  BY <1>1, <1>2, <1>3, <1>4, <1>5, <1>6 DEF Patch

\* A step of PATCH c leads to these places.
LEMMA SinkWork ==
  ASSUME TypeOK, Down, PatchInv, SinkInv, NEW c \in Clients, Patch(c), ~PatchLoad(c)
  PROVE  SinkInv'
<1>1. CASE PatchRefused(c)
  <2>1. patch' = [patch EXCEPT ![c] = NoPatch] /\ UNCHANGED <<up, row, sink, by>>
    BY <1>1 DEF PatchRefused, server
  <2>2. NoPatch \in PatchType /\ patch[c].pc \in {"sent", "loaded"}
    BY <1>1, Types0 DEF PatchRefused
  <2>9. /\ patch'[c] = NoPatch /\ \A d \in Clients \ {c} : patch'[d] = patch[d]
        /\ Busy(c)' <=> NoPatch.pc \in {"loaded", "committed", "built", "fetched", "closed"}
        /\ \A d \in Clients \ {c} : Busy(d)' <=> Busy(d)
    BY <2>1, <2>2, BusyAfter
  <2> QED
    BY <2>1, <2>2, <2>9 DEF SinkInv
<1>2. CASE PatchCommit(c)
  <2> DEFINE x == [NoPatch EXCEPT !.pc = "committed", !.alone = patch[c].alone]
  <2>1. /\ patch' = [patch EXCEPT ![c] = x] /\ UNCHANGED <<up, sink>>
        /\ patch[c].pc = "loaded"
    BY <1>2 DEF PatchCommit
  <2>2. x \in PatchType /\ x.pc = "committed"
    BY Types0 DEF TypeOK, PatchType
  <2>3. by' # "boot"
    BY <1>2 DEF PatchCommit, ByPatch
  <2> HIDE DEF x
  <2>9. /\ patch'[c] = x /\ \A d \in Clients \ {c} : patch'[d] = patch[d]
        /\ Busy(c)' <=> x.pc \in {"loaded", "committed", "built", "fetched", "closed"}
        /\ \A d \in Clients \ {c} : Busy(d)' <=> Busy(d)
    BY <2>1, <2>2, BusyAfter
  <2> QED
    BY <2>1, <2>2, <2>3, <2>9 DEF SinkInv
<1>3. CASE PatchBuild(c)
  <2>1. PICK s \in NewSinks(row) :
          patch' = [patch EXCEPT ![c].pc = "built", ![c].new = s]
    BY <1>3 DEF PatchBuild
  <2>2. s \in Sinks
    BY <2>1, Types0 DEF TypeOK
  <2> DEFINE x == [patch[c] EXCEPT !.pc = "built", !.new = s]
  <2>3. /\ patch' = [patch EXCEPT ![c] = x] /\ UNCHANGED <<up, row, sink, by>>
        /\ patch[c].pc = "committed"
    BY <1>3, <2>1 DEF PatchBuild, server
  <2>4. x \in PatchType /\ x.pc = "built"
    BY <2>2 DEF TypeOK, PatchType
  <2> HIDE DEF x
  <2>9. /\ patch'[c] = x /\ \A d \in Clients \ {c} : patch'[d] = patch[d]
        /\ Busy(c)' <=> x.pc \in {"loaded", "committed", "built", "fetched", "closed"}
        /\ \A d \in Clients \ {c} : Busy(d)' <=> Busy(d)
    BY <2>3, <2>4, BusyAfter
  <2> QED
    BY <2>3, <2>4, <2>9 DEF SinkInv
<1>4. CASE PatchFetch(c)
  <2> DEFINE x == [patch[c] EXCEPT !.pc = "fetched", !.old = "installed"]
  <2>1. /\ patch' = [patch EXCEPT ![c] = x] /\ UNCHANGED <<up, row, sink, by>>
        /\ patch[c].pc = "built"
    BY <1>4 DEF PatchFetch, server
  <2>2. x \in PatchType /\ x.pc = "fetched"
    BY DEF TypeOK, PatchType
  <2> HIDE DEF x
  <2>9. /\ patch'[c] = x /\ \A d \in Clients \ {c} : patch'[d] = patch[d]
        /\ Busy(c)' <=> x.pc \in {"loaded", "committed", "built", "fetched", "closed"}
        /\ \A d \in Clients \ {c} : Busy(d)' <=> Busy(d)
    BY <2>1, <2>2, BusyAfter
  <2> QED
    BY <2>1, <2>2, <2>9 DEF SinkInv
<1>5. CASE PatchClose(c)
  <2> DEFINE x == [patch[c] EXCEPT !.pc = "closed"]
  <2>1. /\ patch' = [patch EXCEPT ![c] = x] /\ UNCHANGED <<up, row, by>>
        /\ sink'.host = sink.host
    BY <1>5 DEF PatchClose, Close, TypeOK, Sinks
  <2>2. x \in PatchType /\ x.pc = "closed"
    BY DEF TypeOK, PatchType
  <2> HIDE DEF x
  <2>9. /\ patch'[c] = x /\ \A d \in Clients \ {c} : patch'[d] = patch[d]
        /\ Busy(c)' <=> x.pc \in {"loaded", "committed", "built", "fetched", "closed"}
        /\ \A d \in Clients \ {c} : Busy(d)' <=> Busy(d)
    BY <2>1, <2>2, BusyAfter
  <2> QED
    BY <2>1, <2>2, <2>9 DEF SinkInv
<1>6. CASE PatchInstall(c)
  <2>1. /\ up' /\ sink' = patch[c].new /\ row' = row /\ by' # "boot"
        /\ by' = "patch" => patch[c].alone
    BY <1>6 DEF PatchInstall, Down, ByPatch
  <2>2. sink'.handler # "closed"
    BY <1>6, <2>1 DEF PatchInstall, PatchInv
  <2>3. patch[c].alone => sink'.host = row
    BY <1>6, <2>1 DEF PatchInstall, PatchInv, Busy
  <2> QED
    BY <2>1, <2>2, <2>3 DEF SinkInv, TypeOK, PatchType
<1> QED
  BY <1>1, <1>2, <1>3, <1>4, <1>5, <1>6 DEF Patch

\* A PATCH that begins, or a step that leaves the server alone.
LEMMA SinkLoad ==
  ASSUME TypeOK, SinkInv, NEW c \in Clients, NEW h \in Settable, Load(c, h),
         ~Busy(c)
  PROVE  SinkInv'
<1>1. /\ \A d \in Clients \ {c} : patch'[d].pc = patch[d].pc
      /\ UNCHANGED <<up, row, sink, by>>
  BY DEF Load, TypeOK, PatchType, server
<1> QED
  BY <1>1 DEF SinkInv, Busy

LEMMA PatchSinkStep ==
  ASSUME TypeOK, Down, PatchInv, SinkInv, FormInv, [Next]_vars
  PROVE  PatchInv' /\ SinkInv'
<1>1. CASE Boot
  <2>1. /\ patch' = patch /\ \A c \in Clients : patch[c].pc = "no"
        /\ sink' \in NewSinks(EnvHost) /\ by' = "boot"
    BY <1>1 DEF Boot, Down
  <2>2. sink'.host = EnvHost /\ sink'.handler # "closed"
    BY <2>1 DEF NewSinks
  <2> QED
    BY <2>1, <2>2 DEF PatchInv, SinkInv, Busy
<1>2. CASE Crash
  BY <1>2 DEF Crash, PatchInv, SinkInv, Busy, NoPatch, NoSink
<1>3. ASSUME NEW c \in Clients, Patch(c)
      PROVE  PatchInv' /\ SinkInv'
  <2>1. CASE PatchLoad(c)
    <3>1. ~Busy(c) /\ Load(c, patch[c].host) /\ patch[c].host \in Settable
      BY <2>1 DEF PatchLoad, Busy, TypeOK, PatchType
    <3> QED
      BY <3>1, LoadKeeps, SinkLoad
  <2> QED
    BY <1>3, <2>1, WorkKeeps, SinkWork
<1>4. ASSUME NEW c \in Callers, NEW h \in Settable, Call(c, h)
      PROVE  PatchInv' /\ SinkInv'
  <2>1. c \in Clients /\ ~Busy(c) /\ Load(c, h)
    BY <1>4, Types0 DEF Call, Busy
  <2> QED
    BY <2>1, LoadKeeps, SinkLoad
<1>5. ASSUME NEW p \in Pages, Page(p)
      PROVE  PatchInv' /\ SinkInv'
  <2>1. /\ UNCHANGED <<up, row, sink, by>>
        /\ \A c \in Clients : /\ Busy(c)' <=> Busy(c)
                              /\ Busy(c) => patch'[c] = patch[c]
    BY <1>5, PageLeaves, PageBusy
  <2> QED
    BY <2>1 DEF PatchInv, SinkInv, Busy
<1>6. ASSUME NEW e \in Emitters, Emission(e)
      PROVE  PatchInv' /\ SinkInv'
  BY <1>6, EmissionLeaves DEF PatchInv, SinkInv, Busy
<1>7. CASE UNCHANGED vars
  BY <1>7 DEF vars, PatchInv, SinkInv, Busy
<1> QED
  BY <1>1, <1>2, <1>3, <1>4, <1>5, <1>6, <1>7 DEF Next

-----------------------------------------------------------------------------
(* Emissions *)

\* A clean emission, and what has become of it.
CleanHeld(e) == emit[e].clean =>
  /\ \A c \in Clients : ~Busy(c)
  /\ emit[e].pc \in {"taken", "tested"} => emit[e].sink = sink
  /\ emit[e].pc = "tested" => sink.handler = "open"
  /\ emit[e].pc # "lost"
  /\ emit[e].pc = "dropped" => sink.handler = "none"
  /\ emit[e].pc = "sent" /\ by # "mixed" => emit[e].to = Target

LEMMA CleanHeldAll == EmitInv /\ CleanEmit <=> \A e \in Emitters : CleanHeld(e)
BY DEF EmitInv, CleanEmit, CleanHeld

LEMMA EmissionKeeps ==
  ASSUME TypeOK, SinkInv, \A d \in Emitters : CleanHeld(d), Down,
         NEW e \in Emitters, Emission(e)
  PROVE  \A d \in Emitters : CleanHeld(d)'
<1>1. UNCHANGED <<up, row, sink, by, patch, form>>
  BY EmissionLeaves
<1>2. \A d \in Emitters \ {e} : emit'[d] = emit[d]
  BY DEF Emission, EmitTake, EmitTest, EmitSend, End, TypeOK
<1>3. \A d \in Emitters \ {e} : CleanHeld(d)'
  BY <1>1, <1>2 DEF CleanHeld, Busy, Target
<1> SUFFICES CleanHeld(e)'
  BY <1>3
<1>4. ASSUME \A c \in Clients : ~Busy(c)
      PROVE  /\ sink.handler \in {"none", "open"}
             /\ up /\ by # "mixed" => sink.host = Target
  BY <1>4 DEF SinkInv, Busy, TypeOK, Sinks, Target
<1>5. CASE EmitTake(e)
  <2>1. emit'[e] = [NoEmit EXCEPT !.pc = "taken", !.sink = sink, !.current = TRUE,
                                  !.clean = (\A c \in Clients : ~Busy(c))]
    BY <1>5 DEF EmitTake, TypeOK
  <2>2. /\ emit'[e].pc = "taken" /\ emit'[e].sink = sink
        /\ emit'[e].clean = (\A c \in Clients : ~Busy(c))
    BY <2>1 DEF NoEmit
  <2> QED
    BY <1>1, <2>2 DEF CleanHeld, Busy, Target
<1>6. ASSUME NEW how \in {"sent", "failed", "lost", "dropped"}, NEW to \in Settable,
             End(e, how, to)
      PROVE  emit'[e].pc = how /\ emit'[e].to = to /\ emit'[e].clean = emit[e].clean
  <2>1. emit'[e] = [NoEmit EXCEPT !.pc = how, !.to = to, !.clean = emit[e].clean]
    BY <1>6 DEF End, TypeOK
  <2> QED
    BY <2>1 DEF NoEmit
<1>7. CASE EmitTest(e)
  <2>1. CASE emit[e].sink.handler = "open"
    <3>1. /\ emit'[e].pc = "tested" /\ emit'[e].sink = emit[e].sink
          /\ emit'[e].clean = emit[e].clean /\ emit[e].pc = "taken"
      BY <1>7, <2>1 DEF EmitTest, TypeOK, EmitType
    <3> QED
      BY <1>1, <2>1, <3>1 DEF CleanHeld, Busy, Target
  <2>2. CASE emit[e].sink.handler # "open"
    <3>1. End(e, "dropped", NoHost) /\ emit[e].pc = "taken"
      BY <1>7, <2>2 DEF EmitTest
    <3>2. emit'[e].pc = "dropped" /\ emit'[e].clean = emit[e].clean
      BY <1>6, <3>1, Types0
    <3>3. emit[e].clean => sink.handler = "none"
      BY <1>4, <2>2, <3>1 DEF CleanHeld
    <3> QED
      BY <1>1, <3>1, <3>2, <3>3 DEF CleanHeld, Busy, Target
  <2> QED
    BY <2>1, <2>2
<1>8. CASE EmitSend(e)
  <2>1. emit[e].sink.host \in Settable /\ emit[e].pc = "tested"
    BY <1>8 DEF EmitSend, TypeOK, EmitType, Sinks
  <2>2. emit[e].clean => /\ emit[e].sink = sink /\ sink.handler = "open"
                         /\ up /\ (by # "mixed" => sink.host = Target)
    BY <1>4, <2>1 DEF CleanHeld, Down
  <2>3. CASE End(e, "sent", emit[e].sink.host)
    <3>1. /\ emit'[e].pc = "sent" /\ emit'[e].to = emit[e].sink.host
          /\ emit'[e].clean = emit[e].clean
      BY <1>6, <2>1, <2>3
    <3> QED
      BY <1>1, <2>2, <3>1 DEF CleanHeld, Busy, Target
  <2>4. CASE emit[e].sink.handler = "closed" /\ End(e, "lost", NoHost)
    <3>1. ~emit'[e].clean
      BY <1>6, <2>2, <2>4, Types0
    <3> QED
      BY <3>1 DEF CleanHeld
  <2>5. CASE End(e, "failed", NoHost)
    <3>1. emit'[e].pc = "failed" /\ emit'[e].clean = emit[e].clean
      BY <1>6, <2>5, Types0
    <3> QED
      BY <1>1, <2>2, <3>1 DEF CleanHeld, Busy, Target
  <2> QED
    BY <1>8, <2>3, <2>4, <2>5 DEF EmitSend
<1> QED
  BY <1>5, <1>7, <1>8 DEF Emission

LEMMA EmitStep ==
  ASSUME TypeOK, SinkInv, EmitInv, CleanEmit, Down, FormInv, [Next]_vars
  PROVE  EmitInv' /\ CleanEmit'
<1> SUFFICES \A e \in Emitters : CleanHeld(e)'
  BY DEF EmitInv, CleanEmit, CleanHeld
<1>1. \A e \in Emitters : CleanHeld(e)
  BY CleanHeldAll
<1>2. CASE Boot
  BY <1>2 DEF Boot, Down, CleanHeld
<1>3. CASE Crash
  BY <1>3 DEF Crash, CleanHeld, NoEmit
<1>4. ASSUME NEW c \in Clients, NEW h, Load(c, h)
      PROVE  \A e \in Emitters : CleanHeld(e)'
  BY <1>4 DEF Load, CleanHeld, TypeOK, EmitType
<1>5. ASSUME NEW c \in Clients, Patch(c), ~PatchLoad(c)
      PROVE  \A e \in Emitters : CleanHeld(e)'
  <2>1. CASE Busy(c)
    <3>1. \A e \in Emitters : ~emit[e].clean
      BY <1>1, <2>1 DEF CleanHeld
    <3>2. \A e \in Emitters : ~emit'[e].clean
      <4>1. CASE emit' = emit
        BY <3>1, <4>1
      <4>2. CASE PatchClose(c)
        BY <3>1, <4>2 DEF PatchClose, TypeOK, EmitType
      <4>3. CASE PatchInstall(c)
        BY <3>1, <4>3 DEF PatchInstall, TypeOK, EmitType
      <4> QED
        BY <1>5, <4>1, <4>2, <4>3
           DEF Patch, PatchRefused, PatchCommit, PatchBuild, PatchFetch
    <3> QED
      BY <3>2 DEF CleanHeld
  <2>2. CASE ~Busy(c)
    <3>1. PatchRefused(c)
      BY <1>5, <2>2 DEF Busy, Patch, PatchCommit, PatchBuild, PatchFetch,
                        PatchClose, PatchInstall
    <3>2. /\ UNCHANGED <<up, row, sink, by, emit>>
          /\ \A d \in Clients : Busy(d)' <=> Busy(d)
      BY <2>2, <3>1 DEF PatchRefused, Busy, TypeOK, NoPatch, server
    <3> QED
      BY <1>1, <3>2 DEF CleanHeld, Target
  <2> QED
    BY <2>1, <2>2
<1>6. ASSUME NEW c \in Callers, NEW h \in Settable, Call(c, h)
      PROVE  \A e \in Emitters : CleanHeld(e)'
  BY <1>4, <1>6, Types0 DEF Call
<1>7. ASSUME NEW p \in Pages, Page(p)
      PROVE  \A e \in Emitters : CleanHeld(e)'
  BY <1>1, <1>7, PageLeaves, PageBusy DEF CleanHeld, Target
<1>8. ASSUME NEW e \in Emitters, Emission(e)
      PROVE  \A d \in Emitters : CleanHeld(d)'
  BY <1>1, <1>8, EmissionKeeps
<1>9. CASE UNCHANGED vars
  BY <1>1, <1>9 DEF vars, CleanHeld, Busy, Target
<1>10. ASSUME NEW c \in Clients, PatchLoad(c)
       PROVE  \A e \in Emitters : CleanHeld(e)'
  BY <1>4, <1>10 DEF PatchLoad
<1> QED
  BY <1>2, <1>3, <1>5, <1>6, <1>7, <1>8, <1>9, <1>10 DEF Next

-----------------------------------------------------------------------------
(* Forms *)

\* What FormInv says of one page, told of the page's form, PATCH and the row.
Truthful(f, x, r) ==
  /\ x.pc # "no" => f.saving
  /\ f.mode = "closed" => ~f.saving
  /\ f.back => f.saving /\ x.pc = "no"
  /\ f.boot /\ (f.mode = "edit" \/ f.saving) => f.late
  /\ ~f.late /\ ~f.boot /\ ~f.back /\ x.pc \in {"no", "sent", "loaded"} =>
       /\ f.mode = "edit" => f.snap = r
       /\ f.mode = "view" => f.field = r

LEMMA TruthfulAll ==
  /\ FormInv <=> \A p \in Pages : Truthful(form[p], patch[p], row)
  /\ FormInv' <=> \A p \in Pages : Truthful(form'[p], patch'[p], row')
BY DEF FormInv, Truthful

LEMMA OutdatedKeeps ==
  ASSUME TypeOK, NEW A, form' = Outdated(A), NEW p \in Pages, NEW x, p \notin A,
         Truthful(form[p], x, row)
  PROVE  Truthful(form'[p], x, row')
<1>1. form'[p] = [form[p] EXCEPT !.late = @ \/ (row' # row /\ p \notin A
                                              /\ form[p].mode # "closed")]
  BY DEF Outdated
<1>2. /\ form'[p].mode = form[p].mode /\ form'[p].boot = form[p].boot
      /\ form'[p].back = form[p].back
      /\ form'[p].saving = form[p].saving /\ form'[p].snap = form[p].snap
      /\ form'[p].field = form[p].field
      /\ form'[p].late = (form[p].late \/ (row' # row /\ form[p].mode # "closed"))
  BY <1>1 DEF TypeOK, FormType
<1>3. form[p].mode \in {"closed", "view", "edit"}
  BY DEF TypeOK, FormType
<1> QED
  BY <1>2, <1>3 DEF Truthful

LEMMA FormLoad ==
  ASSUME TypeOK, FormInv, NEW c \in Clients, NEW h, Load(c, h),
         patch[c].pc = "sent" \/ c \notin Pages
  PROVE  FormInv'
<1>1. /\ \A p \in Pages : p # c => patch'[p].pc = patch[p].pc
      /\ c \in Pages => patch[c].pc = "sent" /\ patch'[c].pc = "loaded"
      /\ UNCHANGED <<form, row>>
  BY Types0 DEF Load, TypeOK, PatchType, server
<1> QED
  BY <1>1, TruthfulAll DEF Truthful

LEMMA FormWork ==
  ASSUME TypeOK, FormInv, NEW c \in Clients, Patch(c), ~PatchLoad(c)
  PROVE  FormInv'
<1>1. CASE PatchRefused(c)
  <2>1. /\ patch' = [patch EXCEPT ![c] = NoPatch] /\ row' = row
        /\ patch[c].pc \in {"sent", "loaded"}
    BY <1>1 DEF PatchRefused, server
  <2> SUFFICES ASSUME NEW p \in Pages
               PROVE  Truthful(form'[p], patch'[p], row')
    BY TruthfulAll
  <2>2. Truthful(form[p], patch[p], row) /\ p \in Clients
    BY TruthfulAll, Types0
  <2>3. CASE p # c
    BY <1>1, <2>1, <2>2, <2>3 DEF PatchRefused, TypeOK
  <2>4. CASE p = c
    <3>1. form'[p] = [form[p] EXCEPT !.saving = FALSE] /\ patch'[p].pc = "no"
      BY <1>1, <2>1, <2>2, <2>4 DEF PatchRefused, TypeOK, NoPatch
    <3> QED
      BY <2>1, <2>2, <2>4, <3>1 DEF Truthful, TypeOK, FormType
  <2> QED
    BY <2>3, <2>4
<1>2. CASE PatchCommit(c)
  <2>1. /\ form' = Outdated({c}) /\ patch[c].pc = "loaded"
        /\ \A p \in Clients \ {c} : patch'[p] = patch[p]
        /\ patch'[c].pc = "committed"
    BY <1>2 DEF PatchCommit, TypeOK, NoPatch
  <2>2. ASSUME NEW p \in Pages, p # c
        PROVE  Truthful(form'[p], patch'[p], row')
    BY <2>1, <2>2, TruthfulAll, OutdatedKeeps, Types0
  <2>3. ASSUME c \in Pages
        PROVE  Truthful(form'[c], patch'[c], row')
    <3>1. form'[c] = [form[c] EXCEPT !.late = @ \/ FALSE]
      BY <2>1, <2>3 DEF Outdated
    <3>2. /\ form'[c].boot = form[c].boot /\ form'[c].back = form[c].back
          /\ form'[c].mode = form[c].mode
          /\ form'[c].late = form[c].late /\ form'[c].saving = form[c].saving
      BY <2>3, <3>1 DEF TypeOK, FormType
    <3> QED
      BY <2>1, <2>3, <3>2, TruthfulAll DEF Truthful
  <2> QED
    BY <2>2, <2>3, TruthfulAll
<1>3. ASSUME UNCHANGED <<form, row>>, NEW x,
             patch' = [patch EXCEPT ![c] = x],
             patch[c].pc # "no",
             c \in Pages => x.pc \in {"built", "fetched", "closed", "answered"}
      PROVE  FormInv'
  <2> SUFFICES ASSUME NEW p \in Pages
               PROVE  Truthful(form'[p], patch'[p], row')
    BY TruthfulAll
  <2>1. Truthful(form[p], patch[p], row) /\ p \in Clients
    BY TruthfulAll, Types0
  <2>2. CASE p # c
    BY <1>3, <2>1, <2>2 DEF TypeOK
  <2>3. CASE p = c
    <3>1. patch'[p] = x
      BY <1>3, <2>1, <2>3 DEF TypeOK
    <3> QED
      BY <1>3, <2>1, <2>3, <3>1 DEF Truthful
  <2> QED
    BY <2>2, <2>3
<1>4. CASE PatchBuild(c)
  <2>1. PICK s \in NewSinks(row) :
          patch' = [patch EXCEPT ![c].pc = "built", ![c].new = s]
    BY <1>4 DEF PatchBuild
  <2> DEFINE x == [patch[c] EXCEPT !.pc = "built", !.new = s]
  <2>2. /\ UNCHANGED <<form, row>> /\ patch' = [patch EXCEPT ![c] = x]
        /\ patch[c].pc # "no"
    BY <1>4, <2>1 DEF PatchBuild, server
  <2>3. x.pc = "built"
    BY DEF TypeOK, PatchType
  <2> HIDE DEF x
  <2> QED
    BY <1>3, <2>2, <2>3
<1>5. CASE PatchFetch(c)
  <2> DEFINE x == [patch[c] EXCEPT !.pc = "fetched", !.old = "installed"]
  <2>1. /\ UNCHANGED <<form, row>> /\ patch' = [patch EXCEPT ![c] = x]
        /\ patch[c].pc # "no"
    BY <1>5 DEF PatchFetch, server
  <2>2. x.pc = "fetched"
    BY DEF TypeOK, PatchType
  <2> HIDE DEF x
  <2> QED
    BY <1>3, <2>1, <2>2
<1>6. CASE PatchClose(c)
  <2> DEFINE x == [patch[c] EXCEPT !.pc = "closed"]
  <2>1. /\ UNCHANGED <<form, row>> /\ patch' = [patch EXCEPT ![c] = x]
        /\ patch[c].pc # "no"
    BY <1>6 DEF PatchClose
  <2>2. x.pc = "closed"
    BY DEF TypeOK, PatchType
  <2> HIDE DEF x
  <2> QED
    BY <1>3, <2>1, <2>2
<1>7. CASE PatchInstall(c)
  <2>1. /\ UNCHANGED <<form, row>> /\ patch[c].pc # "no"
        /\ c \in Pages => patch'[c].pc = "answered"
        /\ \A d \in Clients \ {c} : patch'[d].pc = patch[d].pc
    BY <1>7, InstallLeaves DEF PatchInstall, NoPatch
  <2> QED
    BY <2>1, TruthfulAll, Types0 DEF Truthful
<1> QED
  BY <1>1, <1>2, <1>4, <1>5, <1>6, <1>7 DEF Patch

LEMMA FormPage ==
  ASSUME TypeOK, FormInv, NEW p \in Pages, Page(p)
  PROVE  FormInv'
<1>1. row' = row /\ p \in Clients
  BY PageLeaves, Types0
<1>2. \A q \in Pages \ {p} : form'[q] = form[q] /\ patch'[q] = patch[q]
  BY Types0 DEF Page, Open, LoadForm, ReadBack, Edit, Type, Cancel, Save, Saved, TypeOK
<1> SUFFICES Truthful(form'[p], patch'[p], row)
  BY <1>1, <1>2, TruthfulAll
<1>3. Truthful(form[p], patch[p], row) /\ form[p] \in FormType
  BY TruthfulAll DEF TypeOK
<1>4. CASE Open(p)
  <2>1. form'[p] = NewForm /\ patch' = patch /\ form[p].mode = "closed"
    BY <1>4 DEF Open, TypeOK
  <2> QED
    BY <1>3, <2>1 DEF Truthful, NewForm, ClosedForm
<1>5. CASE LoadForm(p)
  <2>1. PICK x : x = [form[p] EXCEPT !.boot = FALSE, !.field = row]
    OBVIOUS
  <2>2. form'[p] = x /\ patch' = patch /\ form[p].boot
    BY <1>5, <2>1 DEF LoadForm, TypeOK
  <2>3. /\ ~x.boot /\ x.field = row /\ x.mode = form[p].mode
        /\ x.back = form[p].back /\ x.saving = form[p].saving
        /\ x.late = form[p].late /\ x.snap = form[p].snap
    BY <1>3, <2>1 DEF FormType
  <2> QED
    BY <1>3, <2>2, <2>3 DEF Truthful
<1>6. CASE ReadBack(p)
  <2>1. PICK x : x = [form[p] EXCEPT !.back = FALSE, !.field = row, !.mode = "view",
                                     !.snap = NoHost, !.saving = FALSE]
    OBVIOUS
  <2>2. form'[p] = x /\ patch' = patch /\ form[p].back
    BY <1>6, <2>1 DEF ReadBack, TypeOK
  <2>3. /\ ~x.back /\ x.field = row /\ x.mode = "view" /\ ~x.saving
        /\ x.boot = form[p].boot
    BY <1>3, <2>1 DEF FormType
  <2> QED
    BY <1>3, <2>2, <2>3 DEF Truthful
<1>7. CASE Edit(p)
  <2>1. PICK x : x = [form[p] EXCEPT !.mode = "edit", !.snap = form[p].field,
                                     !.late = @ \/ form[p].boot]
    OBVIOUS
  <2>2. form'[p] = x /\ patch' = patch /\ form[p].mode = "view"
    BY <1>7, <2>1 DEF Edit, TypeOK
  <2> QED
    BY <1>3, <2>1, <2>2 DEF Truthful, FormType
<1>8. ASSUME NEW h \in Settable, Type(p, h)
      PROVE  Truthful(form'[p], patch'[p], row)
  BY <1>3, <1>8 DEF Type, Truthful, TypeOK, FormType
<1>9. CASE Cancel(p)
  <2>1. PICK x : x = [form[p] EXCEPT !.mode = "view", !.field = form[p].snap,
                                     !.snap = NoHost]
    OBVIOUS
  <2>2. form'[p] = x /\ patch' = patch /\ form[p].mode = "edit"
    BY <1>9, <2>1 DEF Cancel, TypeOK
  <2> QED
    BY <1>3, <2>1, <2>2 DEF Truthful, FormType
<1>10. CASE Save(p)
  <2>1. /\ form'[p] = [form[p] EXCEPT !.saving = TRUE]
        /\ patch'[p] = [NoPatch EXCEPT !.pc = "sent", !.host = form[p].field]
        /\ form[p].mode = "edit" /\ ~form[p].saving
    BY <1>1, <1>10 DEF Save, TypeOK
  <2>2. patch'[p].pc = "sent"
    BY <2>1 DEF NoPatch
  <2>3. /\ form'[p].saving /\ form'[p].mode = form[p].mode
        /\ form'[p].boot = form[p].boot /\ form'[p].late = form[p].late
        /\ form'[p].back = form[p].back
        /\ form'[p].snap = form[p].snap
    BY <1>3, <2>1 DEF FormType
  <2>4. patch[p].pc = "no"
    BY <1>3, <2>1, <1>1 DEF Truthful, TypeOK, PatchType
  <2> QED
    BY <1>3, <2>1, <2>2, <2>3, <2>4 DEF Truthful
<1>11. CASE Saved(p)
  <2>1. PICK x : x = [form[p] EXCEPT !.back = TRUE, !.late = form[p].boot]
    OBVIOUS
  <2>2. form'[p] = x /\ patch'[p] = NoPatch /\ form[p].saving
    BY <1>1, <1>3, <1>11, <2>1 DEF Saved, TypeOK, Truthful
  <2> QED
    BY <1>3, <2>1, <2>2 DEF Truthful, FormType, NoPatch
<1> QED
  BY <1>4, <1>5, <1>6, <1>7, <1>8, <1>9, <1>10, <1>11 DEF Page

LEMMA FormStep ==
  ASSUME TypeOK, Down, FormInv, [Next]_vars
  PROVE  FormInv'
<1>1. CASE Boot
  BY <1>1 DEF Boot, FormInv
<1>2. CASE Crash
  <2> SUFFICES ASSUME NEW p \in Pages
               PROVE  Truthful(form'[p], patch'[p], row')
    BY TruthfulAll
  <2>1. PICK x : x = [form[p] EXCEPT
          !.mode = IF form[p].back THEN "view" ELSE @,
          !.boot = FALSE, !.back = FALSE, !.saving = FALSE,
          !.late = @ \/ form[p].boot \/ form[p].saving]
    OBVIOUS
  <2>2. form'[p] = x /\ patch'[p].pc = "no" /\ row' = row
    BY <1>2, <2>1, Types0 DEF Crash, NoPatch
  <2>3. /\ ~x.boot /\ ~x.back /\ ~x.saving /\ x.snap = form[p].snap
        /\ x.field = form[p].field
        /\ x.late = (form[p].late \/ form[p].boot \/ form[p].saving)
        /\ ~form[p].back => x.mode = form[p].mode
    BY <2>1 DEF TypeOK, FormType
  <2>4. Truthful(form[p], patch[p], row)
    BY TruthfulAll
  <2> QED
    BY <2>2, <2>3, <2>4 DEF Truthful
<1>3. ASSUME NEW c \in Clients, Patch(c)
      PROVE  FormInv'
  <2>1. CASE PatchLoad(c)
    BY <2>1, FormLoad DEF PatchLoad
  <2> QED
    BY <1>3, <2>1, FormWork
<1>4. ASSUME NEW c \in Callers, NEW h \in Settable, Call(c, h)
      PROVE  FormInv'
  BY <1>4, FormLoad, Types0, SettingsAssumption DEF Call
<1>5. ASSUME NEW p \in Pages, Page(p)
      PROVE  FormInv'
  BY <1>5, FormPage
<1>6. ASSUME NEW e \in Emitters, Emission(e)
      PROVE  FormInv'
  BY <1>6, EmissionLeaves DEF FormInv
<1>7. CASE UNCHANGED vars
  BY <1>7 DEF vars, FormInv
<1> QED
  BY <1>1, <1>2, <1>3, <1>4, <1>5, <1>6, <1>7 DEF Next

-----------------------------------------------------------------------------
(* Theorems *)

\* The strengthening holds in every reachable state, whoever patches, emits or
\* saves, and wherever the process dies.
THEOREM Invariance == Spec => []IInv
<1>1. IInv /\ [Next]_vars => IInv'
  BY TypeStep, DownStep, PatchSinkStep, EmitStep, FormStep DEF IInv
<1> QED
  BY InitInductive, <1>1, PTL DEF Spec

\* _rebuild_log_sink: once a PATCH has been, and none is at work, the sink
\* installed is the one of the settings row, unless the last overlapped another.
THEOREM SinkOfRow == Spec => []SinkMatches
<1>1. IInv => SinkMatches
  BY DEF IInv, SinkInv, SinkMatches, Quiet, Busy
<1> QED
  BY <1>1, Invariance, PTL

\* _emit_log: an event that no PATCH overlaps is sent, unless its send fails, to
\* the server of the row, or before any PATCH to the one of the boot.
THEOREM EventsShipped == Spec => []CleanEmit
<1>1. IInv => CleanEmit
  BY DEF IInv
<1> QED
  BY <1>1, Invariance, PTL

\* The settings form: at rest it shows what is saved, whatever was edited,
\* cancelled or refused.
THEOREM FormTruthful == Spec => []FormShows
<1>1. IInv => FormShows
  BY DEF IInv, FormInv, FormShows, AtRest
<1> QED
  BY <1>1, Invariance, PTL
=============================================================================
