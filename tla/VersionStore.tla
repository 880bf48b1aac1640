---------------------------- MODULE VersionStore ----------------------------
(***************************************************************************)
(* The version store of ONE provider (app/services/version_store.py and    *)
(* the version half of app/repositories/provider_repo.py): version rows in *)
(* SQLite, raw and converted files in a ring of Slots names per directory, *)
(* and nothing that makes the two change together.                         *)
(*                                                                         *)
(* The refresh thread that holds the provider's lock runs store_version,   *)
(* one file write, row insert or row delete per step; each can fail, and   *)
(* the process can die between any two of them.  Meanwhile the management  *)
(* API renames the provider, request threads read the row and later open   *)
(* its file, and at every boot migrate_naming moves the files of all rows  *)
(* to the directory of the provider's current name before any request is   *)
(* served.                                                                 *)
(***************************************************************************)
EXTENDS Integers, FiniteSets, FiniteSetsExt

CONSTANTS
  Docs,             \* documents: one (raw bytes, converted bytes) pair each
  NoDoc,            \* no document
  Dirs,             \* directories `<slug>-<id>` the provider's names map to
  Legacy,           \* the directory `<id>` of the naming before the ring
  Readers,          \* request threads serving the provider's public URL
  Slots,            \* size of the on-disk ring (10 in the code)
  Retention,        \* VERSION_RETENTION_COUNT
  PruneSpan,        \* rows beyond Retention that one prune looks at (10)
  MaxSeq,           \* bound: no store is started beyond this sequence
  MaxSpan,          \* bound: a prune is cut short, by an error or a crash,
                    \* only while every row is among the newest MaxSpan
  Faults            \* what may go wrong at boot: a "move" that is passed over,
                    \* the "migration" ending in an error

ASSUME StoreAssumption ==
  /\ NoDoc \notin Docs
  /\ Legacy \notin Dirs
  /\ Dirs # {}
  /\ Slots \in Nat \ {0}
  /\ Retention \in Nat \ {0}
  /\ PruneSpan \in Nat
  /\ MaxSeq \in Nat
  /\ MaxSpan \in Nat
  /\ Faults \subseteq {"move", "migration"}

VARIABLES
  rows,     \* version rows by sequence: the document whose hashes the row
            \* records, and the directory and number in its two paths
  files,    \* regular files by path <<kind, directory, number>>
  dir,      \* directory of the provider's current name
  up,       \* "down", "migrating" or "serving"
  pc,       \* next step of store_version: "idle", "raw", "converted",
            \* "insert" or "prune"
  job,      \* the document, sequence and directory store_version works on
  victims,  \* sequences of the rows _prune has still to delete
  todo,     \* sequences of the rows migrate_naming has still to handle
  half,     \* the raw file of the next of them has been handled
  rd,       \* the row each reader has selected and not yet opened
  adrift,   \* history: versions with a file moved and its new path not committed
  left,     \* history: versions with a move this migration has passed over
  lost      \* history: versions whose row was pointed away from a file left
            \* behind, or that were adrift when the provider was renamed

vars == <<rows, files, dir, up, pc, job, victims, todo, half, rd,
          adrift, left, lost>>

storing == <<pc, job, victims>>
migrating == <<todo, half>>
astray == <<adrift, left, lost>>

-----------------------------------------------------------------------------
(* Paths, files and rows *)

Kinds == {"raw", "converted"}
AllDirs == Dirs \cup {Legacy}
Path == Kinds \X AllDirs \X Nat

Row == [doc : Docs, dir : AllDirs, slot : Nat]
NoJob == [doc |-> NoDoc, seq |-> 0, dir |-> Legacy]
NoRow == [seq |-> 0, doc |-> NoDoc, dir |-> Legacy, slot |-> 0]

\* Mutant of Slot: a ring with one slot per retained version.
SlotPerRetained(seq) == seq % Retention

Slot(seq) == seq % Slots

\* `f` with `x` set to `y`: an atomic replace, or an insert.
Put(f, x, y) == [z \in DOMAIN f \cup {x} |-> IF z = x THEN y ELSE f[z]]

\* `f` without the entries in X: unlinked files, or deleted rows.
Without(f, X) == Restrict(f, DOMAIN f \ X)

\* get_current_version: the highest sequence, 0 when the provider has none.
Top == IF DOMAIN rows = {} THEN 0 ELSE Max(DOMAIN rows)

\* The converted and the raw file a row points at hold the row's document.
Intact(row) ==
  \A k \in Kinds :
    LET p == <<k, row.dir, row.slot>>
    IN  p \in DOMAIN files /\ files[p] = row.doc

-----------------------------------------------------------------------------
(* store_version, run by the holder of the provider's lock *)

\* Mutant of StoreBegin: the next sequence is taken from the number of rows.
StoreBeginByCount(d) ==
  /\ up = "serving" /\ pc = "idle" /\ Top < MaxSeq
  /\ DOMAIN rows # {} => d # rows[Top].doc
  /\ job' = [doc |-> d, seq |-> Cardinality(DOMAIN rows) + 1, dir |-> dir]
  /\ pc' = "raw"
  /\ UNCHANGED <<rows, files, dir, up, victims, migrating, rd, astray>>

\* The updater calls store_version only with bytes whose hash differs from the
\* current row's; the directory is that of the name read at the call.
StoreBegin(d) ==
  /\ up = "serving" /\ pc = "idle" /\ Top < MaxSeq
  /\ DOMAIN rows # {} => d # rows[Top].doc
  /\ job' = [doc |-> d, seq |-> Top + 1, dir |-> dir]
  /\ pc' = "raw"
  /\ UNCHANGED <<rows, files, dir, up, victims, migrating, rd, astray>>

JobPath(kind) == <<kind, job.dir, Slot(job.seq)>>

Abandon == pc' = "idle" /\ job' = NoJob /\ victims' = {}

WriteRaw ==
  /\ pc = "raw"
  /\ files' = Put(files, JobPath("raw"), job.doc)
  /\ pc' = "converted"
  /\ UNCHANGED <<rows, dir, up, job, victims, migrating, rd, astray>>

\* _write_atomic removes its temporary file: the slot keeps what it held.
WriteRawFails ==
  /\ pc = "raw"
  /\ Abandon
  /\ UNCHANGED <<rows, files, dir, up, migrating, rd, astray>>

WriteConverted ==
  /\ pc = "converted"
  /\ files' = Put(files, JobPath("converted"), job.doc)
  /\ pc' = "insert"
  /\ UNCHANGED <<rows, dir, up, job, victims, migrating, rd, astray>>

WriteConvertedFails ==
  /\ pc = "converted"
  /\ files' = Without(files, {JobPath("raw")})
  /\ Abandon
  /\ UNCHANGED <<rows, dir, up, migrating, rd, astray>>

\* How many rows are newer: the index in get_versions.
Rank(r, seq) == Cardinality({s \in DOMAIN r : s > seq})

\* Mutant of Beyond: keeps one version too many.
BeyondOneMore(r) ==
  {seq \in DOMAIN r : Rank(r, seq) > Retention
                      /\ Rank(r, seq) < Retention + PruneSpan}

\* versions[retention_count:] of the newest Retention + PruneSpan rows.
Beyond(r) ==
  {seq \in DOMAIN r : Rank(r, seq) >= Retention
                      /\ Rank(r, seq) < Retention + PruneSpan}

\* create_version commits the row; _prune then lists the rows to delete.
InsertRow ==
  /\ pc = "insert"
  /\ rows' = Put(rows, job.seq,
                 [doc |-> job.doc, dir |-> job.dir, slot |-> Slot(job.seq)])
  /\ victims' = Beyond(rows')
  /\ pc' = "prune"
  /\ UNCHANGED <<files, dir, up, job, migrating, rd, astray>>

InsertFails ==
  /\ pc = "insert"
  /\ files' = Without(files, {JobPath("raw"), JobPath("converted")})
  /\ Abandon
  /\ UNCHANGED <<rows, dir, up, migrating, rd, astray>>

\* Mutant of PruneRow: the files go with the row.
PruneRowAndFiles ==
  /\ pc = "prune" /\ victims # {}
  /\ LET v == rows[Max(victims)]
     IN  files' = Without(files, {<<k, v.dir, v.slot>> : k \in Kinds})
  /\ rows' = Without(rows, {Max(victims)})
  /\ victims' = victims \ {Max(victims)}
  /\ UNCHANGED <<dir, up, pc, job, migrating, rd, astray>>

\* delete_version: one row, one commit, newest victim first.
PruneRow ==
  /\ pc = "prune" /\ victims # {}
  /\ rows' = Without(rows, {Max(victims)})
  /\ victims' = victims \ {Max(victims)}
  /\ UNCHANGED <<files, dir, up, pc, job, migrating, rd, astray>>

StoreReturns ==
  /\ pc = "prune" /\ victims = {}
  /\ Abandon
  /\ UNCHANGED <<rows, files, dir, up, migrating, rd, astray>>

\* The environment cuts a prune short only while no row is older than this.
SpanOk == \A s \in DOMAIN rows : s > Top - MaxSpan

\* A failed delete leaves store_version by an exception: the remaining rows
\* stay until a later store prunes.
PruneFails ==
  /\ pc = "prune" /\ victims # {} /\ SpanOk
  /\ Abandon
  /\ UNCHANGED <<rows, files, dir, up, migrating, rd, astray>>

-----------------------------------------------------------------------------
(* Other threads of the running process *)

\* PATCH /api/providers/<id> with a new name; nothing on disk moves, and no boot
\* looks in the directory of the old name for a file that a row does not name.
Rename(d) ==
  /\ up = "serving" /\ d # dir
  /\ dir' = d
  /\ lost' = lost \cup adrift /\ adrift' = {}
  /\ UNCHANGED <<rows, files, up, storing, migrating, rd, left>>

\* get_current, first half: select the row ...
SelectRow(r) ==
  /\ up = "serving" /\ rd[r] = NoRow /\ DOMAIN rows # {}
  /\ rd' = [rd EXCEPT ![r] = [seq  |-> Top,           doc  |-> rows[Top].doc,
                              dir  |-> rows[Top].dir, slot |-> rows[Top].slot]]
  /\ UNCHANGED <<rows, files, dir, up, storing, migrating, astray>>

\* ... second half: open and read the file it names.
OpenFile(r) ==
  /\ rd[r] # NoRow
  /\ rd' = [rd EXCEPT ![r] = NoRow]
  /\ UNCHANGED <<rows, files, dir, up, storing, migrating, astray>>

-----------------------------------------------------------------------------
(* Death and boot *)

Crash ==
  /\ up # "down"
  /\ pc = "prune" /\ victims # {} => SpanOk
  /\ up' = "down"
  /\ Abandon
  /\ todo' = {} /\ half' = FALSE /\ left' = {}
  /\ rd' = [r \in Readers |-> NoRow]
  /\ UNCHANGED <<rows, files, dir, adrift, lost>>

Boot ==
  /\ up = "down"
  /\ up' = "migrating"
  /\ todo' = DOMAIN rows
  /\ UNCHANGED <<rows, files, dir, storing, half, rd, astray>>

\* Where a version's file is by its row, and where the migration wants it.
OldPath(kind, seq) == <<kind, rows[seq].dir, rows[seq].slot>>
NewPath(kind, seq) == <<kind, dir, Slot(seq)>>
Misplaced(kind, seq) ==
  OldPath(kind, seq) \in DOMAIN files /\ OldPath(kind, seq) # NewPath(kind, seq)

\* Mutant of Moved: the file is copied, not renamed.
Copied(kind, seq) ==
  Put(files, NewPath(kind, seq), files[OldPath(kind, seq)])

\* The file renamed over the target.
Moved(kind, seq) ==
  Put(Without(files, {OldPath(kind, seq)}),
      NewPath(kind, seq), files[OldPath(kind, seq)])

\* _migrate_version_files, one file: nothing to move, or the move, or an error
\* of rename and replace, which is passed over as if the file had moved.
Move(kind, seq) ==
  \/ ~Misplaced(kind, seq) /\ UNCHANGED <<files, adrift, left>>
  \/ /\ Misplaced(kind, seq)
     /\ files' = Moved(kind, seq)
     /\ adrift' = adrift \cup {seq}
     /\ UNCHANGED left
  \/ /\ "move" \in Faults /\ Misplaced(kind, seq)
     /\ left' = left \cup {seq}
     /\ UNCHANGED <<files, adrift>>

MigrateRaw ==
  /\ up = "migrating" /\ todo # {} /\ ~half
  /\ Move("raw", Min(todo))
  /\ half' = TRUE
  /\ UNCHANGED <<rows, dir, up, storing, todo, rd, lost>>

MigrateConverted ==
  /\ up = "migrating" /\ todo # {} /\ half
  /\ Move("converted", Min(todo))
  /\ half' = FALSE
  /\ todo' = todo \ {Min(todo)}
  /\ UNCHANGED <<rows, dir, up, storing, rd, lost>>

\* Mutant of MigrateCommit: the stored path is not projected onto the ring.
MigrateCommitUnprojected ==
  /\ up = "migrating" /\ todo = {}
  /\ rows' = [s \in DOMAIN rows |-> [doc |-> rows[s].doc, dir |-> dir, slot |-> s]]
  /\ up' = "serving"
  /\ lost' = lost \cup left /\ adrift' = {} /\ left' = {}
  /\ UNCHANGED <<files, dir, storing, migrating, rd>>

\* One commit stores the new paths of all rows, those of files that have not
\* moved among them; only then is the app served.
MigrateCommit ==
  /\ up = "migrating" /\ todo = {}
  /\ rows' = [s \in DOMAIN rows |->
                [doc |-> rows[s].doc, dir |-> dir, slot |-> Slot(s)]]
  /\ up' = "serving"
  /\ lost' = lost \cup left /\ adrift' = {} /\ left' = {}
  /\ UNCHANGED <<files, dir, storing, migrating, rd>>

\* A directory that cannot be made, the commit, or another provider's files end
\* the migration; create_app logs it and serves all the same, with the rows as
\* they were and the files that have moved where they are.
MigrateFails ==
  /\ "migration" \in Faults
  /\ up = "migrating"
  /\ up' = "serving"
  /\ todo' = {} /\ half' = FALSE /\ left' = {}
  /\ UNCHANGED <<rows, files, dir, storing, rd, adrift, lost>>

-----------------------------------------------------------------------------
\* A stopped service with what the naming before the ring left behind: the
\* newest Retention of `hi` versions, each in `<id>/<seq>_*`.
LegacyRows(hi) == {s \in 1..hi : s > hi - Retention}

Init ==
  /\ \E hi \in 0..MaxSeq : \E d \in [LegacyRows(hi) -> Docs] :
       /\ rows = [s \in LegacyRows(hi) |->
                    [doc |-> d[s], dir |-> Legacy, slot |-> s]]
       /\ files = [p \in Kinds \X {Legacy} \X LegacyRows(hi) |-> d[p[3]]]
  /\ dir \in Dirs
  /\ up = "down"
  /\ pc = "idle" /\ job = NoJob /\ victims = {}
  /\ todo = {} /\ half = FALSE
  /\ rd = [r \in Readers |-> NoRow]
  /\ adrift = {} /\ left = {} /\ lost = {}

Store ==
  \/ \E d \in Docs : StoreBegin(d)
  \/ WriteRaw \/ WriteRawFails
  \/ WriteConverted \/ WriteConvertedFails
  \/ InsertRow \/ InsertFails
  \/ PruneRow \/ PruneFails \/ StoreReturns

Migrate ==
  \/ Boot \/ MigrateRaw \/ MigrateConverted \/ MigrateCommit \/ MigrateFails

Next ==
  \/ Store
  \/ Migrate
  \/ Crash
  \/ \E d \in Dirs : Rename(d)
  \/ \E r \in Readers : SelectRow(r) \/ OpenFile(r)

Spec == Init /\ [][Next]_vars

-----------------------------------------------------------------------------
(* Properties *)

\* Every variable has its type; a storer holds a job exactly while it is busy,
\* and is idle unless the service is up (there is no refresh during boot).
TypeOK ==
  /\ rows \in [DOMAIN rows -> Row] /\ DOMAIN rows \subseteq 1..MaxSeq
  /\ files \in [DOMAIN files -> Docs] /\ DOMAIN files \subseteq Path
  /\ dir \in Dirs
  /\ up \in {"down", "migrating", "serving"}
  /\ pc \in {"idle", "raw", "converted", "insert", "prune"}
  /\ IF pc = "idle" THEN job = NoJob
     ELSE up = "serving" /\ job \in [doc : Docs, seq : 1..MaxSeq, dir : Dirs]
  /\ victims \subseteq DOMAIN rows
  /\ todo \subseteq DOMAIN rows
  /\ half \in BOOLEAN
  /\ rd \in [Readers -> {NoRow} \cup [seq : 1..MaxSeq, doc : Docs,
                                      dir : AllDirs, slot : Nat]]
  /\ adrift \subseteq 1..Top /\ left \subseteq 1..Top /\ lost \subseteq 1..Top

\* Faults of a boot that have cost this version its files, for now or for good.
Astray(seq) == seq \in adrift \cup lost

\* The files of the newest Retention versions are as their rows say ...
RetainedWhole == \A s \in DOMAIN rows : s > Top - Retention => Intact(rows[s])

\* ... while requests are served, whatever stores failed half way, whenever the
\* process died, and however often the provider was renamed: the ring never takes
\* the slot of a version that still counts, and the boot migration never moves
\* one file over another that counts.  A move that fails, or a migration that
\* does, costs the versions it was about, and no other.
NewestIntact ==
  up = "serving" =>
    \A s \in DOMAIN rows :
      s > Top - Retention /\ ~Astray(s) => Intact(rows[s])

\* A reader that has selected its row and not yet opened the file still finds
\* that version there until Slots - 1 newer versions are in, although its row
\* may have been pruned and the provider renamed meanwhile; unless a boot had
\* lost that version before.
ReadersIntact ==
  \A r \in Readers :
    rd[r] # NoRow /\ rd[r].seq > Top + 1 - Slots /\ ~Astray(rd[r].seq) =>
      Intact(rd[r])

\* When store_version returns, exactly the newest Retention versions are left,
\* the leftovers of earlier prunes that were cut short included.
PrunedToRetention ==
  pc = "prune" /\ victims = {} =>
    DOMAIN rows = {s \in 1..Top : s > Top - Retention}

\* The current version alone (what a public request serves) is intact.
CurrentIntact ==
  up = "serving" /\ DOMAIN rows # {} => Intact(rows[Top])

\* Whatever earlier boots left half done - files moved, new paths not committed -
\* a boot whose commit succeeds makes every counting version whole, unless a move
\* was passed over, or the provider renamed while the files were adrift.
MigrationHeals ==
  [][MigrateCommit =>
       \A s \in DOMAIN rows :
         s > Top - Retention /\ s \notin lost' => Intact(rows[s])']_vars

\* The document of the newest row, and what a request for it gets.
TopDoc == IF DOMAIN rows = {} THEN NoDoc ELSE rows[Top].doc
Served ==
  IF DOMAIN rows = {} \/ up # "serving" THEN TopDoc
  ELSE LET at == OldPath("converted", Top)
       IN  IF at \in DOMAIN files THEN files[at] ELSE NoDoc

LG == INSTANCE LastGood
        WITH version <- Top, doc <- TopDoc, served <- Served,
             whole <- (up = "serving" => ~Astray(Top)), up <- (up = "serving")

\* Seen through get_current, the store is the register LastGood: what is served
\* changes only when a row is inserted, to that row's document, under the next
\* sequence number, and never through a failed store, a prune, a rename, a crash
\* or a migration, unless the faults of a boot have lost the newest version.
ServesLastGood == LG!Spec
-----------------------------------------------------------------------------
(* What the proofs need: IInv, the inductive invariant behind NewestIntact,   *)
(* ReadersIntact, PrunedToRetention, MigrationHeals and ServesLastGood.       *)

\* What the deployment has to grant: the ring is larger than the retention, at
\* most so many prunes in a row are cut short that the rows still fit the ring,
\* and one prune looks further back than the ring.
RingFits ==
  /\ Retention < Slots
  /\ MaxSpan <= Slots
  /\ Slots < Retention + PruneSpan

\* Top is the highest sequence and the newest Retention are all there.
Dense ==
  /\ DOMAIN rows # {} => Top \in DOMAIN rows /\ \A s \in DOMAIN rows : s <= Top
  /\ \A s \in 1..Top : s > Top - Retention => s \in DOMAIN rows

\* No two rows share a slot, except while the oldest is about to be pruned.
Window ==
  IF pc = "prune"
  THEN /\ \A s \in DOMAIN rows : s >= Top - Slots
       /\ \A s \in victims : s <= Top - Retention
       /\ \A s \in DOMAIN rows : s \in victims \/ s > Top - Retention
  ELSE /\ \A s \in DOMAIN rows : s > Top - Slots
       /\ victims = {}

\* How far the storer is.
JobInv ==
  LET Written(k) == JobPath(k) \in DOMAIN files /\ files[JobPath(k)] = job.doc
  IN  /\ pc \in {"raw", "converted", "insert"} => job.seq = Top + 1
      /\ pc \in {"converted", "insert"} => Written("raw")
      /\ pc = "insert" => Written("converted")

\* How far the migration is.
TodoInv ==
  /\ up # "migrating" => todo = {} /\ left = {}
  /\ todo = {} => ~half

Books ==
  /\ TypeOK
  /\ Dense
  /\ Window
  /\ JobInv
  /\ TodoInv

\* A row is on the ring, or as the naming before the ring left it.
PathOK(row) ==
  \/ row.dir \in Dirs /\ row.slot = Slot(row.seq)
  \/ row.dir = Legacy /\ row.slot = row.seq

\* So is what a reader has selected; there are none unless requests are served.
Placed ==
  /\ \A s \in DOMAIN rows : PathOK([seq |-> s, dir |-> rows[s].dir, slot |-> rows[s].slot])
  /\ \A r \in Readers : rd[r] # NoRow =>
       up = "serving" /\ rd[r].seq <= Top /\ PathOK(rd[r])

\* Where the file of a row is, as long as its move may not be committed.
AtSource(k, s) ==
  OldPath(k, s) \in DOMAIN files /\ files[OldPath(k, s)] = rows[s].doc
AtTarget(k, s) ==
  /\ NewPath(k, s) \in DOMAIN files /\ files[NewPath(k, s)] = rows[s].doc
  /\ ~Misplaced(k, s)
Handled(k, s) ==
  up = "migrating" /\ (s \notin todo \/ (k = "raw" /\ half /\ s = Min(todo)))

\* The rows whose slot the next store does not take.
Kept == {s \in DOMAIN rows : s > Top + 1 - Slots}

\* The files of every kept version that is not lost are where its row says, or,
\* if it is adrift, where the next boot looks; once handled, they are there.
Located ==
  \A s \in Kept \ lost, k \in Kinds :
    /\ AtSource(k, s) \/ (s \in adrift /\ AtTarget(k, s))
    /\ Handled(k, s) /\ s \notin left => AtTarget(k, s)

\* Nothing is astray but by a fault.
Blameless ==
  /\ "migration" \notin Faults /\ up = "serving" => adrift = {}
  /\ "move" \notin Faults => left = {}
  /\ Faults = {} => lost = {}

IInv ==
  /\ Books
  /\ Placed
  /\ Located
  /\ Blameless
  /\ ReadersIntact
=============================================================================
