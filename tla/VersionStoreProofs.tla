------------------------- MODULE VersionStoreProofs -------------------------
(***************************************************************************)
(* Proofs about VersionStore, for any ring size, retention, sets of        *)
(* documents, names and readers and whatever may go wrong at boot, under   *)
(* RingFits: Books is shown to be inductive first, then IInv on top of it. *)
(***************************************************************************)
EXTENDS VersionStore, FiniteSetTheorems, TLAPS

-----------------------------------------------------------------------------
(* Extremal elements of sets of naturals, and ranks *)

LEMMA MinExists ==
  ASSUME NEW T, T \subseteq Nat, T # {}
  PROVE  Min(T) \in T /\ \A x \in T : Min(T) <= x
<1> DEFINE R == {ss \in Nat \X Nat : ss[1] < ss[2]}
<1>1. IsWellFoundedOn(R, Nat)
  BY NatLessThanWellFounded DEF OpToRel
<1>2. \A x, y \in Nat : x < y => <<x, y>> \in R
  OBVIOUS
<1> HIDE DEF R
<1>3. PICK m \in T : \A x \in T : ~(<<x, m>> \in R)
  BY <1>1, WFMin
<1>4. ASSUME NEW x \in T
      PROVE  m <= x
  <2>1. x \in Nat /\ m \in Nat
    OBVIOUS
  <2>2. ~(x < m)
    BY <1>2, <1>3, <2>1
  <2> QED
    BY <2>1, <2>2
<1> QED
  BY <1>4 DEF Min

LEMMA MaxIs ==
  ASSUME NEW T, T \subseteq Nat, NEW m \in T, \A x \in T : x <= m
  PROVE  Max(T) = m
<1>1. \A y \in T : m >= y
  OBVIOUS
<1>2. \A x \in T : (\A y \in T : x >= y) => x = m
  OBVIOUS
<1> QED
  BY <1>1, <1>2 DEF Max

LEMMA MaxExists ==
  ASSUME NEW n \in Nat, NEW T, T \subseteq 1..n, T # {}
  PROVE  Max(T) \in T /\ \A x \in T : x <= Max(T)
<1> DEFINE U == {n - x : x \in T}
<1>1. U \subseteq Nat
  OBVIOUS
<1>2. U # {}
  OBVIOUS
<1>3. Min(U) \in U /\ \A y \in U : Min(U) <= y
  <2> HIDE DEF U
  <2> QED BY <1>1, <1>2, MinExists
<1>4. PICK m \in T : Min(U) = n - m
  BY <1>3
<1>5. ASSUME NEW x \in T
      PROVE  x <= m
  <2>1. n - x \in U
    OBVIOUS
  <2>2. n - m <= n - x
    BY <1>3, <1>4, <2>1
  <2> QED
    BY <2>2
<1>6. T \subseteq Nat
  OBVIOUS
<1> QED
  BY <1>5, <1>6, MaxIs

\* The rows that _prune deletes are those below the newest Retention, provided
\* the newest Retention are all there and no row is older than the ring.
LEMMA BeyondIs ==
  ASSUME RingFits,
         NEW n \in Nat, NEW r, DOMAIN r \subseteq 1..n,
         NEW top \in Nat,
         \A s \in DOMAIN r : s <= top /\ s >= top - Slots,
         \A s \in 1..top : s > top - Retention => s \in DOMAIN r
  PROVE  Beyond(r) = {s \in DOMAIN r : s <= top - Retention}
<1> USE StoreAssumption DEF RingFits
<1> SUFFICES ASSUME NEW s \in DOMAIN r
             PROVE  s \in Beyond(r) <=> s <= top - Retention
  BY DEF Beyond
<1> DEFINE U == {x \in DOMAIN r : x > s}
<1>0. s \in 1..n /\ s <= top /\ s >= top - Slots
  OBVIOUS
<1>1. U \subseteq (s + 1) .. top
  BY <1>0
<1>2. IsFiniteSet((s + 1) .. top) /\ Cardinality((s + 1) .. top) <= top - s
  <2>1. s + 1 \in Int /\ top \in Int
    BY <1>0
  <2>2. /\ IsFiniteSet((s + 1) .. top)
        /\ Cardinality((s + 1) .. top) =
             IF s + 1 > top THEN 0 ELSE top - (s + 1) + 1
    BY <2>1, FS_Interval
  <2> QED
    BY <1>0, <2>1, <2>2
<1>3. /\ IsFiniteSet(U) /\ Cardinality(U) \in Nat
      /\ Cardinality(U) <= top - s
  <2>1. IsFiniteSet(U) /\ Cardinality(U) <= Cardinality((s + 1) .. top)
    <3> HIDE DEF U
    <3> QED BY <1>1, <1>2, FS_Subset
  <2>2. Cardinality(U) \in Nat
    BY <2>1, FS_CardinalityType
  <2>3. Cardinality((s + 1) .. top) \in Nat
    BY <1>2, FS_CardinalityType
  <2> QED
    <3> HIDE DEF U
    <3> QED BY <1>0, <1>2, <2>1, <2>2, <2>3
<1>4. ASSUME s <= top - Retention
      PROVE  Retention <= Cardinality(U)
  <2>1. (top - Retention + 1) .. top \subseteq U
    BY <1>0, <1>4
  <2>2. Cardinality((top - Retention + 1) .. top) = Retention
    BY FS_Interval
  <2> QED
    <3> HIDE DEF U
    <3> QED BY <1>3, <2>1, <2>2, FS_Subset
<1>5. s \in Beyond(r) <=>
        Cardinality(U) >= Retention /\ Cardinality(U) < Retention + PruneSpan
  BY DEF Beyond, Rank
<1> QED
  <2> HIDE DEF U
  <2> QED BY <1>0, <1>3, <1>4, <1>5
-----------------------------------------------------------------------------
(* Slots of the ring *)

LEMMA DivMod ==
  ASSUME NEW m \in Nat \ {0}, NEW a \in Nat
  PROVE  /\ a \div m \in Int /\ a % m \in Nat
         /\ a = m * (a \div m) + (a % m)
OBVIOUS

LEMMA Multiple ==
  ASSUME NEW m \in Nat \ {0}, NEW x \in Int, m * x > 0
  PROVE  m * x >= m
<1>1. x > 0
  OBVIOUS
<1>2. m * x = m + m * (x - 1)
  OBVIOUS
<1>3. m * (x - 1) >= 0
  BY <1>1
<1> QED
  BY <1>2, <1>3

\* Two sequences less than a ring apart have different slots.
LEMMA ModDistinct ==
  ASSUME NEW m \in Nat \ {0}, NEW a \in Nat, NEW b \in Nat, a < b, b - a < m
  PROVE  a % m # b % m
<1> SUFFICES ASSUME a % m = b % m
             PROVE  FALSE
  OBVIOUS
<1>1. b - a = m * ((b \div m) - (a \div m))
  <2>1. a = m * (a \div m) + (a % m) /\ b = m * (b \div m) + (b % m)
    BY DivMod
  <2>2. a \div m \in Int /\ b \div m \in Int /\ a % m \in Nat
    BY DivMod
  <2>3. m * ((b \div m) - (a \div m)) = m * (b \div m) - m * (a \div m)
    BY <2>2
  <2> QED
    BY <2>1, <2>2, <2>3
<1>2. (b \div m) - (a \div m) \in Int
  BY DivMod
<1> DEFINE q == (b \div m) - (a \div m)
<1> HIDE DEF q
<1>3. q \in Int /\ m * q = b - a
  BY <1>1, <1>2 DEF q
<1>4. m * q > 0
  BY <1>3
<1>5. m * q >= m
  BY <1>3, <1>4, Multiple
<1> QED
  BY <1>3, <1>5

LEMMA SlotNat ==
  ASSUME NEW n \in Nat
  PROVE  Slot(n) \in Nat
BY StoreAssumption, DivMod DEF Slot

-----------------------------------------------------------------------------
(* The highest sequence *)

LEMMA TopNat ==
  ASSUME TypeOK, Dense
  PROVE  Top \in Nat /\ (DOMAIN rows = {} => Top = 0)
<1>1. CASE DOMAIN rows = {}
  BY <1>1 DEF Top
<1>2. CASE DOMAIN rows # {}
  <2>1. Top \in DOMAIN rows /\ DOMAIN rows \subseteq 1..MaxSeq
    BY <1>2 DEF TypeOK, Dense
  <2> QED
    BY <1>2, <2>1
<1> QED
  BY <1>1, <1>2

LEMMA TopSame ==
  ASSUME DOMAIN rows' = DOMAIN rows
  PROVE  Top' = Top
BY DEF Top

-----------------------------------------------------------------------------
(* Initial states *)

\* What the naming before the ring left: each file where its row says.
LEMMA InitFacts ==
  ASSUME Init
  PROVE  /\ \E hi \in 0..MaxSeq : Top = hi /\ DOMAIN rows = LegacyRows(hi)
         /\ rows \in [DOMAIN rows -> Row]
         /\ files \in [DOMAIN files -> Docs] /\ DOMAIN files \subseteq Path
         /\ Placed
         /\ \A s \in DOMAIN rows, k \in Kinds : AtSource(k, s)
<1> USE StoreAssumption
<1>0. PICK hi \in 0..MaxSeq : \E d \in [LegacyRows(hi) -> Docs] :
        /\ rows = [s \in LegacyRows(hi) |->
                     [doc |-> d[s], dir |-> Legacy, slot |-> s]]
        /\ files = [p \in Kinds \X {Legacy} \X LegacyRows(hi) |-> d[p[3]]]
  BY DEF Init
<1>1. PICK d \in [LegacyRows(hi) -> Docs] :
        /\ rows = [s \in LegacyRows(hi) |->
                     [doc |-> d[s], dir |-> Legacy, slot |-> s]]
        /\ files = [p \in Kinds \X {Legacy} \X LegacyRows(hi) |-> d[p[3]]]
  BY <1>0
<1>2. DOMAIN rows = LegacyRows(hi) /\ LegacyRows(hi) \subseteq 1..hi /\ hi \in Nat
  BY <1>1 DEF LegacyRows
<1>3. Top = hi
  <2>1. CASE hi = 0
    <3>1. DOMAIN rows = {}
      BY <1>2, <2>1
    <3> QED
      BY <2>1, <3>1 DEF Top
  <2>2. CASE hi > 0
    <3>1. hi \in DOMAIN rows /\ \A s \in DOMAIN rows : s <= hi
      BY <1>2, <2>2 DEF LegacyRows
    <3>2. DOMAIN rows \subseteq Nat
      BY <1>2
    <3> QED
      BY <3>1, <3>2, MaxIs DEF Top
  <2> QED
    BY <1>2, <2>1, <2>2
<1>4. rows \in [DOMAIN rows -> Row]
  BY <1>1, <1>2 DEF Row, AllDirs
<1>5. files \in [DOMAIN files -> Docs] /\ DOMAIN files \subseteq Path
  BY <1>1, <1>2 DEF Path, Kinds, AllDirs
<1>6. Placed
  BY <1>1 DEF Placed, PathOK, Init
<1>7. \A s \in DOMAIN rows, k \in Kinds : AtSource(k, s)
  BY <1>1 DEF AtSource, OldPath
<1> QED
  BY <1>2, <1>3, <1>4, <1>5, <1>6, <1>7

LEMMA InitBooks ==
  ASSUME RingFits, Init
  PROVE  Books
<1> USE StoreAssumption DEF RingFits
<1>1. PICK hi \in 0..MaxSeq : Top = hi /\ DOMAIN rows = LegacyRows(hi)
  BY InitFacts
<1>2. /\ dir \in Dirs /\ up = "down" /\ pc = "idle" /\ job = NoJob
      /\ victims = {} /\ todo = {} /\ half = FALSE
      /\ rd = [r \in Readers |-> NoRow]
      /\ adrift = {} /\ left = {} /\ lost = {}
  BY DEF Init
<1>3. DOMAIN rows = {s \in 1..hi : s > hi - Retention} /\ hi \in Nat
  BY <1>1 DEF LegacyRows
<1>4. TypeOK
  <2>1. /\ rows \in [DOMAIN rows -> Row]
        /\ files \in [DOMAIN files -> Docs] /\ DOMAIN files \subseteq Path
    BY InitFacts
  <2>2. DOMAIN rows \subseteq 1..MaxSeq
    BY <1>3
  <2>3. rd \in [Readers -> {NoRow} \cup [seq : 1..MaxSeq, doc : Docs,
                                         dir : AllDirs, slot : Nat]]
    BY <1>2
  <2> QED
    BY <1>2, <2>1, <2>2, <2>3 DEF TypeOK
<1>5. Dense /\ Window
  BY <1>1, <1>2, <1>3 DEF Dense, Window
<1>6. JobInv /\ TodoInv
  BY <1>2 DEF JobInv, TodoInv
<1> QED
  BY <1>4, <1>5, <1>6 DEF Books

-----------------------------------------------------------------------------
(* The books of rows and steps, whatever becomes of the files of other rows *)

LEMMA StoreBeginBooks ==
  ASSUME Books, NEW d \in Docs, StoreBegin(d)
  PROVE  Books'
<1> USE StoreAssumption DEF Books
<1>1. /\ up = "serving" /\ pc = "idle" /\ Top < MaxSeq
      /\ job' = [doc |-> d, seq |-> Top + 1, dir |-> dir]
      /\ pc' = "raw"
      /\ UNCHANGED <<rows, files, dir, up, victims, todo, half, rd,
                     adrift, left, lost>>
  BY DEF StoreBegin, migrating, astray
<1>2. Top' = Top /\ Top \in Nat
  BY <1>1, TopSame, TopNat
<1>3. TypeOK'
  BY <1>1, <1>2 DEF TypeOK
<1>4. Dense' /\ Window' /\ JobInv' /\ TodoInv'
  BY <1>1, <1>2 DEF Dense, Window, JobInv, TodoInv
<1> QED
  BY <1>3, <1>4

LEMMA WriteBooks ==
  ASSUME Books, WriteRaw \/ WriteConverted
  PROVE  Books'
<1> USE StoreAssumption DEF Books
<1>1. PICK k \in Kinds :
        /\ files' = Put(files, JobPath(k), job.doc)
        /\ \/ pc = "raw" /\ pc' = "converted" /\ k = "raw"
           \/ pc = "converted" /\ pc' = "insert" /\ k = "converted"
        /\ UNCHANGED <<rows, dir, up, job, victims, todo, half, rd,
                       adrift, left, lost>>
  BY DEF WriteRaw, WriteConverted, migrating, astray, Kinds
<1>2. Top' = Top /\ up = "serving"
  BY <1>1, TopSame DEF TypeOK
<1>3. JobPath(k) \in Path /\ job.doc \in Docs
  BY <1>1, SlotNat DEF TypeOK, JobPath, Path, AllDirs
<1>4. TypeOK'
  BY <1>1, <1>2, <1>3 DEF TypeOK, Put
<1>5. Dense' /\ Window' /\ TodoInv'
  BY <1>1, <1>2 DEF Dense, Window, TodoInv
<1>6. JobInv'
  BY <1>1, <1>2 DEF JobInv, JobPath, Put
<1> QED
  BY <1>4, <1>5, <1>6

\* The three ways a store fails before its row is in: its own files go, at most.
LEMMA EarlyFailureFacts ==
  ASSUME TypeOK, WriteRawFails \/ WriteConvertedFails \/ InsertFails
  PROVE  /\ pc \in {"raw", "converted", "insert"} /\ up = "serving"
         /\ pc' = "idle" /\ job' = NoJob /\ victims' = {}
         /\ \E X \in SUBSET {JobPath("raw"), JobPath("converted")} :
              files' = Without(files, X)
         /\ UNCHANGED <<rows, dir, up, todo, half, rd, adrift, left, lost>>
<1>1. files' = files => files' = Without(files, {})
  BY DEF Without, Restrict, TypeOK
<1> QED
  BY <1>1 DEF WriteRawFails, WriteConvertedFails, InsertFails, Abandon,
              migrating, astray, TypeOK

LEMMA EarlyFailureBooks ==
  ASSUME Books, WriteRawFails \/ WriteConvertedFails \/ InsertFails
  PROVE  Books'
<1> USE StoreAssumption DEF Books
<1>1. /\ pc \in {"raw", "converted", "insert"} /\ up = "serving"
      /\ pc' = "idle" /\ job' = NoJob /\ victims' = {}
      /\ \E X \in SUBSET {JobPath("raw"), JobPath("converted")} :
           files' = Without(files, X)
      /\ UNCHANGED <<rows, dir, up, todo, half, rd, adrift, left, lost>>
  BY EarlyFailureFacts
<1>2. Top' = Top
  BY <1>1, TopSame
<1>3. TypeOK'
  BY <1>1, <1>2 DEF TypeOK, Without, Restrict
<1>4. Dense' /\ Window' /\ JobInv' /\ TodoInv'
  BY <1>1, <1>2 DEF Dense, Window, JobInv, TodoInv
<1> QED
  BY <1>3, <1>4

LEMMA InsertRowBooks ==
  ASSUME RingFits, Books, InsertRow
  PROVE  /\ Books'
         /\ Top \in Nat /\ Top' = Top + 1 /\ job.seq = Top + 1
         /\ DOMAIN rows' = DOMAIN rows \cup {Top + 1}
         /\ rows'[Top + 1] =
              [doc |-> job.doc, dir |-> job.dir, slot |-> Slot(Top + 1)]
         /\ \A s \in DOMAIN rows : s # Top + 1 /\ rows'[s] = rows[s]
<1> USE StoreAssumption DEF RingFits, Books
<1> DEFINE new == [doc |-> job.doc, dir |-> job.dir, slot |-> Slot(job.seq)]
<1>1. /\ pc = "insert" /\ pc' = "prune" /\ up = "serving"
      /\ rows' = Put(rows, job.seq, new)
      /\ victims' = Beyond(rows')
      /\ UNCHANGED <<files, dir, up, job, todo, half, rd, adrift, left, lost>>
  BY DEF InsertRow, migrating, astray, TypeOK
<1>2. /\ Top \in Nat /\ job.seq = Top + 1 /\ job.seq \in 1..MaxSeq
      /\ job.doc \in Docs /\ job.dir \in Dirs
  BY <1>1, TopNat DEF JobInv, TypeOK
<1>3. new \in Row
  BY <1>2, SlotNat DEF Row, AllDirs
<1>4. /\ DOMAIN rows' = DOMAIN rows \cup {Top + 1}
      /\ rows'[Top + 1] = new
      /\ \A s \in DOMAIN rows : s # Top + 1 /\ rows'[s] = rows[s]
  <2>1. \A s \in DOMAIN rows : s # Top + 1
    BY <1>2 DEF TypeOK, Dense
  <2> QED
    BY <1>1, <1>2, <2>1 DEF Put
<1>5. \A s \in DOMAIN rows' : s \in 1..MaxSeq /\ s <= Top + 1
  BY <1>1, <1>2, <1>4 DEF TypeOK, Dense
<1>6. Top' = Top + 1
  <2>1. Max(DOMAIN rows') = Top + 1
    BY <1>2, <1>4, <1>5, MaxIs
  <2> QED
    BY <1>4, <2>1 DEF Top
<1>7. \A s \in 1..Top' : s > Top' - Retention => s \in DOMAIN rows'
  BY <1>2, <1>4, <1>6 DEF Dense
<1>8. \A s \in DOMAIN rows' : s >= Top' - Slots
  BY <1>1, <1>2, <1>4, <1>5, <1>6 DEF Window, TypeOK
<1>9. victims' = {s \in DOMAIN rows' : s <= Top' - Retention}
  <2>1. DOMAIN rows' \subseteq 1..MaxSeq /\ MaxSeq \in Nat /\ Top' \in Nat
    BY <1>2, <1>5, <1>6
  <2>2. \A s \in DOMAIN rows' : s <= Top' /\ s >= Top' - Slots
    BY <1>5, <1>6, <1>8
  <2> HIDE DEF RingFits
  <2> QED
    BY <1>1, <1>7, <2>1, <2>2, BeyondIs
<1>10. TypeOK'
  <2>1. rows' \in [DOMAIN rows' -> Row] /\ DOMAIN rows' \subseteq 1..MaxSeq
    BY <1>1, <1>3, <1>4, <1>5 DEF TypeOK, Put
  <2>2. victims' \subseteq DOMAIN rows' /\ todo' \subseteq DOMAIN rows'
    BY <1>1, <1>4, <1>9 DEF TypeOK
  <2>3. adrift' \subseteq 1..Top' /\ left' \subseteq 1..Top' /\ lost' \subseteq 1..Top'
    BY <1>1, <1>2, <1>6 DEF TypeOK
  <2> QED
    BY <1>1, <2>1, <2>2, <2>3 DEF TypeOK
<1>11. Dense'
  BY <1>4, <1>5, <1>6, <1>7 DEF Dense
<1>12. Window'
  BY <1>1, <1>2, <1>5, <1>6, <1>8, <1>9 DEF Window
<1>13. JobInv' /\ TodoInv'
  BY <1>1 DEF JobInv, TodoInv
<1> QED
  BY <1>2, <1>4, <1>6, <1>10, <1>11, <1>12, <1>13

LEMMA PruneRowBooks ==
  ASSUME RingFits, Books, PruneRow
  PROVE  /\ Books'
         /\ Top' = Top /\ Top \in DOMAIN rows'
         /\ DOMAIN rows' \subseteq DOMAIN rows
         /\ \A s \in DOMAIN rows' : rows'[s] = rows[s]
<1> USE StoreAssumption DEF RingFits, Books
<1> DEFINE v == Max(victims)
<1>1. /\ pc = "prune" /\ victims # {} /\ up = "serving"
      /\ rows' = Without(rows, {v})
      /\ victims' = victims \ {v}
      /\ UNCHANGED <<files, dir, up, pc, job, todo, half, rd,
                     adrift, left, lost>>
  BY DEF PruneRow, migrating, astray, TypeOK
<1>2. v \in victims
  <2>1. victims \subseteq 1..MaxSeq
    BY DEF TypeOK
  <2> QED
    BY <1>1, <2>1, MaxExists
<1> HIDE DEF v
<1>3. v \in DOMAIN rows /\ v <= Top - Retention /\ v \in Nat
  BY <1>1, <1>2 DEF TypeOK, Window
<1>4. /\ DOMAIN rows' = DOMAIN rows \ {v}
      /\ \A s \in DOMAIN rows' : rows'[s] = rows[s]
  BY <1>1 DEF Without, Restrict
<1>5. Top \in Nat /\ Top \in DOMAIN rows /\ \A s \in DOMAIN rows : s <= Top
  BY <1>3, TopNat DEF Dense
<1>6. Top \in DOMAIN rows' /\ \A s \in DOMAIN rows' : s <= Top
  BY <1>3, <1>4, <1>5
<1>7. Top' = Top
  <2>1. DOMAIN rows' \subseteq Nat
    BY <1>4 DEF TypeOK
  <2> QED
    BY <1>6, <2>1, MaxIs DEF Top
<1>8. TypeOK'
  <2>1. rows' \in [DOMAIN rows' -> Row] /\ DOMAIN rows' \subseteq 1..MaxSeq
    BY <1>1, <1>4 DEF TypeOK, Without, Restrict
  <2>2. victims' \subseteq DOMAIN rows' /\ todo' \subseteq DOMAIN rows'
    BY <1>1, <1>4 DEF TypeOK, TodoInv
  <2> QED
    BY <1>1, <1>7, <2>1, <2>2 DEF TypeOK
<1>9. Dense'
  <2>1. \A s \in 1..Top' : s > Top' - Retention => s \in DOMAIN rows'
    BY <1>3, <1>4, <1>5, <1>7 DEF Dense
  <2> QED
    BY <1>6, <1>7, <2>1 DEF Dense
<1>10. Window' /\ JobInv' /\ TodoInv'
  BY <1>1, <1>4, <1>7 DEF Window, JobInv, TodoInv
<1> QED
  BY <1>4, <1>6, <1>7, <1>8, <1>9, <1>10

LEMMA StoreEndBooks ==
  ASSUME RingFits, Books, StoreReturns \/ PruneFails
  PROVE  Books'
<1> USE StoreAssumption DEF RingFits, Books
<1>1. /\ pc = "prune" /\ up = "serving" /\ (victims = {} \/ SpanOk)
      /\ pc' = "idle" /\ job' = NoJob /\ victims' = {}
      /\ UNCHANGED <<rows, files, dir, up, todo, half, rd, adrift, left, lost>>
  BY DEF StoreReturns, PruneFails, Abandon, migrating, astray, TypeOK
<1>2. Top' = Top /\ Top \in Nat
  BY <1>1, TopSame, TopNat
<1>3. TypeOK' /\ Dense'
  BY <1>1, <1>2 DEF TypeOK, Dense
<1>4. Window'
  BY <1>1, <1>2 DEF Window, SpanOk, TypeOK
<1>5. JobInv' /\ TodoInv'
  BY <1>1 DEF JobInv, TodoInv
<1> QED
  BY <1>3, <1>4, <1>5

LEMMA OtherThreadsBooks ==
  ASSUME Books,
         \/ \E d \in Dirs : Rename(d)
         \/ \E r \in Readers : SelectRow(r) \/ OpenFile(r)
  PROVE  Books'
<1> USE StoreAssumption DEF Books
<1>1. /\ UNCHANGED <<rows, files, up, pc, job, victims, todo, half, left>>
      /\ dir' \in Dirs
      /\ adrift' \subseteq adrift /\ lost' \subseteq lost \cup adrift
  BY DEF Rename, SelectRow, OpenFile, storing, migrating, astray, TypeOK
<1>2. Top' = Top
  BY <1>1, TopSame
<1>3. rd' \in [Readers -> {NoRow} \cup [seq : 1..MaxSeq, doc : Docs,
                                        dir : AllDirs, slot : Nat]]
  <2>1. CASE \E d \in Dirs : Rename(d)
    BY <2>1 DEF Rename, TypeOK
  <2>2. CASE \E r \in Readers : OpenFile(r)
    BY <2>2 DEF OpenFile, TypeOK
  <2>3. ASSUME NEW r \in Readers, SelectRow(r)
        PROVE  rd' \in [Readers -> {NoRow} \cup [seq : 1..MaxSeq, doc : Docs,
                                                 dir : AllDirs, slot : Nat]]
    <3>1. Top \in DOMAIN rows
      BY <2>3 DEF SelectRow, Dense
    <3>2. Top \in 1..MaxSeq /\ rows[Top] \in Row
      BY <3>1 DEF TypeOK
    <3> QED
      BY <2>3, <3>2 DEF SelectRow, TypeOK, Row
  <2> QED
    BY <2>1, <2>2, <2>3
<1>4. TypeOK'
  BY <1>1, <1>2, <1>3 DEF TypeOK
<1>5. Dense' /\ Window' /\ JobInv' /\ TodoInv'
  BY <1>1, <1>2 DEF Dense, Window, JobInv, JobPath, TodoInv
<1> QED
  BY <1>4, <1>5

LEMMA CrashBooks ==
  ASSUME RingFits, Books, Crash
  PROVE  Books'
<1> USE StoreAssumption DEF RingFits, Books
<1>1. /\ up # "down" /\ up' = "down"
      /\ pc = "prune" /\ victims # {} => SpanOk
      /\ pc' = "idle" /\ job' = NoJob /\ victims' = {}
      /\ todo' = {} /\ half' = FALSE /\ left' = {}
      /\ rd' = [r \in Readers |-> NoRow]
      /\ UNCHANGED <<rows, files, dir, adrift, lost>>
  BY DEF Crash, Abandon
<1>2. Top' = Top /\ Top \in Nat
  BY <1>1, TopSame, TopNat
<1>3. TypeOK' /\ Dense'
  BY <1>1, <1>2 DEF TypeOK, Dense
<1>4. Window'
  BY <1>1, <1>2 DEF Window, SpanOk, TypeOK
<1>5. JobInv' /\ TodoInv'
  BY <1>1 DEF JobInv, TodoInv
<1> QED
  BY <1>3, <1>4, <1>5

\* The migration handles one file of one row.
LEMMA MoveFacts ==
  ASSUME Books, MigrateRaw \/ MigrateConverted
  PROVE  \E k \in Kinds, m \in DOMAIN rows :
           /\ up = "migrating" /\ Move(k, m)
           /\ \/ k = "raw" /\ ~half /\ half' /\ todo' = todo
              \/ k = "converted" /\ half /\ ~half' /\ todo' = todo \ {m}
           /\ todo # {} /\ m = Min(todo) /\ m \in todo
           /\ UNCHANGED <<rows, dir, up, pc, job, victims, rd, lost>>
<1>1. todo # {} /\ todo \subseteq Nat /\ todo \subseteq DOMAIN rows
  BY StoreAssumption DEF Books, TypeOK, MigrateRaw, MigrateConverted
<1>2. Min(todo) \in DOMAIN rows /\ Min(todo) \in todo
  BY <1>1, MinExists
<1>3. CASE MigrateRaw
  <2>1. "raw" \in Kinds
    BY DEF Kinds
  <2> QED
    BY <1>1, <1>2, <1>3, <2>1 DEF MigrateRaw, storing
<1>4. CASE MigrateConverted
  <2>1. "converted" \in Kinds
    BY DEF Kinds
  <2> QED
    BY <1>1, <1>2, <1>4, <2>1 DEF MigrateConverted, storing
<1> QED
  BY <1>3, <1>4

LEMMA MoveBooks ==
  ASSUME Books, MigrateRaw \/ MigrateConverted
  PROVE  Books'
<1> USE StoreAssumption DEF Books
<1>1. PICK k \in Kinds, m \in DOMAIN rows :
        /\ up = "migrating" /\ Move(k, m)
        /\ \/ k = "raw" /\ ~half /\ half' /\ todo' = todo
           \/ k = "converted" /\ half /\ ~half' /\ todo' = todo \ {m}
        /\ todo # {} /\ m = Min(todo) /\ m \in todo
        /\ UNCHANGED <<rows, dir, up, pc, job, victims, rd, lost>>
  BY MoveFacts
<1>2. Top' = Top /\ pc = "idle" /\ half' \in BOOLEAN
  BY <1>1, TopSame DEF TypeOK, MigrateRaw, MigrateConverted
<1>3. files' \in [DOMAIN files' -> Docs] /\ DOMAIN files' \subseteq Path
  <2>1. CASE files' = files
    BY <2>1 DEF TypeOK
  <2>2. CASE files' # files
    <3> DEFINE old == OldPath(k, m)
               new == NewPath(k, m)
    <3>1. /\ files' = Put(Without(files, {old}), new, files[old])
          /\ old \in DOMAIN files
      BY <1>1, <2>2 DEF Move, Moved, Misplaced
    <3>2. new \in Path
      BY SlotNat DEF TypeOK, Path, AllDirs, NewPath
    <3> HIDE DEF old, new
    <3> QED
      BY <3>1, <3>2 DEF Put, Without, Restrict, TypeOK
  <2> QED
    BY <2>1, <2>2
<1>4. adrift' \subseteq 1..Top' /\ left' \subseteq 1..Top'
  <2>1. m \in 1..Top
    <3>1. m \in 1..MaxSeq /\ m <= Top /\ Top \in Nat
      BY TopNat DEF TypeOK, Dense
    <3> QED
      BY <3>1
  <2>2. adrift' \subseteq adrift \cup {m} /\ left' \subseteq left \cup {m}
    BY <1>1 DEF Move
  <2> QED
    BY <1>2, <2>1, <2>2 DEF TypeOK
<1>5. TypeOK'
  BY <1>1, <1>2, <1>3, <1>4 DEF TypeOK
<1>6. Dense' /\ Window' /\ JobInv' /\ TodoInv'
  BY <1>1, <1>2 DEF Dense, Window, JobInv, TodoInv
<1> QED
  BY <1>5, <1>6

LEMMA BootBooks ==
  ASSUME Books, Boot
  PROVE  Books'
<1>1. /\ up = "down" /\ up' = "migrating" /\ todo' = DOMAIN rows
      /\ UNCHANGED <<rows, files, dir, pc, job, victims, half, rd,
                     adrift, left, lost>>
  BY DEF Boot, storing, astray
<1>2. Top' = Top /\ pc = "idle" /\ ~half
  BY <1>1, TopSame DEF Books, TypeOK, TodoInv
<1>3. TypeOK'
  BY <1>1, <1>2 DEF Books, TypeOK
<1>4. Dense' /\ Window' /\ JobInv' /\ TodoInv'
  BY <1>1, <1>2 DEF Books, Dense, Window, JobInv, TodoInv
<1> QED
  BY <1>3, <1>4 DEF Books

LEMMA MigrationEndBooks ==
  ASSUME Books, MigrateCommit \/ MigrateFails
  PROVE  Books' /\ Top' = Top /\ DOMAIN rows' = DOMAIN rows
<1> USE StoreAssumption DEF Books
<1>1. /\ up = "migrating" /\ up' = "serving"
      /\ todo' = {} /\ half' = FALSE /\ left' = {}
      /\ adrift' \subseteq adrift /\ lost' \subseteq lost \cup left
      /\ UNCHANGED <<files, dir, pc, job, victims, rd>>
  BY DEF MigrateCommit, MigrateFails, storing, migrating, TodoInv, TypeOK
<1>2. rows' \in [DOMAIN rows -> Row]
  <2>1. CASE MigrateFails
    BY <2>1 DEF MigrateFails, TypeOK
  <2>2. CASE MigrateCommit
    <3>1. \A s \in DOMAIN rows : Slot(s) \in Nat /\ rows[s].doc \in Docs
      BY SlotNat DEF TypeOK, Row
    <3> QED
      BY <2>2, <3>1 DEF MigrateCommit, TypeOK, Row, AllDirs
  <2> QED
    BY <2>1, <2>2
<1>3. DOMAIN rows' = DOMAIN rows /\ rows' \in [DOMAIN rows' -> Row]
  BY <1>2
<1>4. Top' = Top
  BY <1>3, TopSame
<1>5. TypeOK'
  BY <1>1, <1>3, <1>4 DEF TypeOK
<1>6. Dense' /\ Window' /\ JobInv' /\ TodoInv'
  BY <1>1, <1>3, <1>4 DEF Dense, Window, JobInv, TodoInv, TypeOK
<1> QED
  BY <1>3, <1>4, <1>5, <1>6

LEMMA StutterBooks ==
  ASSUME Books, UNCHANGED vars
  PROVE  Books'
<1>1. Top' = Top
  BY TopSame DEF vars
<1> QED
  BY <1>1 DEF vars, Books, TypeOK, Dense, Window, JobInv, JobPath, TodoInv

LEMMA NextBooks ==
  ASSUME RingFits, Books, [Next]_vars
  PROVE  Books'
<1>1. CASE Store
  BY <1>1, StoreBeginBooks, WriteBooks, EarlyFailureBooks, InsertRowBooks,
     PruneRowBooks, StoreEndBooks DEF Store
<1>2. CASE Migrate
  BY <1>2, BootBooks, MoveBooks, MigrationEndBooks DEF Migrate
<1> QED
  BY <1>1, <1>2, CrashBooks, OtherThreadsBooks, StutterBooks DEF Next

-----------------------------------------------------------------------------
(* Rows, their files and the paths of the storer and of the migration *)

\* What is, or is not, at a path stays so.
Untouched(p) ==
  /\ p \in DOMAIN files' <=> p \in DOMAIN files
  /\ p \in DOMAIN files => files'[p] = files[p]

\* A file write or an unlink at the storer's own paths leaves the kept rows
\* alone: their slots differ from the one being written.
LEMMA SlotTaken ==
  ASSUME Books, pc \in {"raw", "converted", "insert"},
         NEW n \in Nat, n <= Top, n > Top + 1 - Slots
  PROVE  Slot(n) # Slot(job.seq)
<1>1. Top \in Nat /\ job.seq = Top + 1
  BY TopNat DEF Books, JobInv
<1>2. n < Top + 1 /\ (Top + 1) - n < Slots /\ Top + 1 \in Nat
  BY <1>1, StoreAssumption
<1> QED
  BY <1>1, <1>2, ModDistinct, StoreAssumption DEF Slot

\* A path of a row, or of what a reader has selected of one.
LEMMA PathElsewhere ==
  ASSUME Books, pc \in {"raw", "converted", "insert"},
         NEW row, row.seq \in Nat, row.seq <= Top, row.seq > Top + 1 - Slots,
         PathOK(row), NEW k \in Kinds, NEW k2 \in Kinds
  PROVE  JobPath(k) # <<k2, row.dir, row.slot>>
<1>1. Slot(row.seq) # Slot(job.seq)
  BY SlotTaken
<1>2. job.dir \in Dirs
  BY DEF Books, TypeOK
<1> QED
  BY <1>1, <1>2, StoreAssumption DEF PathOK, JobPath

LEMMA KeptElsewhere ==
  ASSUME Books, Placed, pc \in {"raw", "converted", "insert"},
         NEW s \in Kept, NEW k \in Kinds, NEW k2 \in Kinds
  PROVE  JobPath(k) # OldPath(k2, s) /\ JobPath(k) # NewPath(k2, s)
<1>1. s \in DOMAIN rows /\ s \in Nat /\ s <= Top /\ s > Top + 1 - Slots
  BY DEF Kept, Books, TypeOK, Dense
<1>2. JobPath(k) # NewPath(k2, s)
  BY <1>1, SlotTaken DEF JobPath, NewPath
<1> DEFINE row == [seq |-> s, dir |-> rows[s].dir, slot |-> rows[s].slot]
<1>3. PathOK(row)
  BY <1>1 DEF Placed
<1>4. row.seq = s /\ OldPath(k2, s) = <<k2, row.dir, row.slot>>
  BY DEF OldPath
<1> HIDE DEF row
<1>5. JobPath(k) # OldPath(k2, s)
  BY <1>1, <1>3, <1>4, PathElsewhere
<1> QED
  BY <1>2, <1>5

\* A file stays where it is found when nothing happens at its two paths.
LEMMA FoundStays ==
  ASSUME NEW k \in Kinds, NEW s \in DOMAIN rows,
         rows'[s] = rows[s], dir' = dir,
         Untouched(OldPath(k, s)), Untouched(NewPath(k, s))
  PROVE  /\ AtSource(k, s) => AtSource(k, s)'
         /\ AtTarget(k, s) => AtTarget(k, s)'
<1>1. OldPath(k, s)' = OldPath(k, s) /\ NewPath(k, s)' = NewPath(k, s)
  BY DEF OldPath, NewPath
<1> QED
  BY <1>1 DEF AtTarget, AtSource, Misplaced, Untouched

\* Outside of a prune no two rows share a slot, hence neither a path that one
\* row has now and the other gets, nor two paths that they get.
LEMMA RowsApart ==
  ASSUME Books, Placed, pc # "prune",
         NEW s \in DOMAIN rows, NEW t \in DOMAIN rows, s # t,
         NEW k \in Kinds, NEW k2 \in Kinds
  PROVE  /\ OldPath(k, s) # OldPath(k2, t)
         /\ OldPath(k, s) # NewPath(k2, t)
         /\ NewPath(k, s) # OldPath(k2, t)
         /\ NewPath(k, s) # NewPath(k2, t)
<1> USE StoreAssumption DEF Books
<1>1. s \in Nat /\ t \in Nat /\ Top \in Nat /\ dir \in Dirs
  BY TopNat DEF TypeOK
<1>2. s <= Top /\ t <= Top /\ s > Top - Slots /\ t > Top - Slots
  BY DEF Dense, Window
<1>3. Slot(s) # Slot(t)
  <2>1. CASE s < t
    <3>1. t - s < Slots
      BY <1>1, <1>2
    <3> QED
      BY <1>1, <2>1, <3>1, ModDistinct DEF Slot
  <2>2. CASE t < s
    <3>1. s - t < Slots
      BY <1>1, <1>2
    <3> QED
      BY <1>1, <2>2, <3>1, ModDistinct DEF Slot
  <2> QED
    BY <1>1, <2>1, <2>2
<1>4. /\ \/ rows[s].dir \in Dirs /\ rows[s].slot = Slot(s)
         \/ rows[s].dir = Legacy /\ rows[s].slot = s
      /\ \/ rows[t].dir \in Dirs /\ rows[t].slot = Slot(t)
         \/ rows[t].dir = Legacy /\ rows[t].slot = t
  BY DEF Placed, PathOK
<1>5. OldPath(k, s) # OldPath(k2, t)
  BY <1>3, <1>4 DEF OldPath
<1>6. OldPath(k, s) # NewPath(k2, t) /\ NewPath(k, s) # OldPath(k2, t)
  BY <1>1, <1>3, <1>4 DEF OldPath, NewPath
<1>7. NewPath(k, s) # NewPath(k2, t)
  BY <1>3 DEF NewPath
<1> QED
  BY <1>5, <1>6, <1>7

\* Handling one file of row m, whether it moves or not, touches nothing that
\* another file of a row is at, or may be moved to.
LEMMA MoveApart ==
  ASSUME Books, Placed, pc # "prune",
         NEW k \in Kinds, NEW m \in DOMAIN rows, Move(k, m),
         NEW s \in DOMAIN rows, NEW k2 \in Kinds, s # m \/ k2 # k
  PROVE  Untouched(OldPath(k2, s)) /\ Untouched(NewPath(k2, s))
<1> DEFINE old == OldPath(k, m)
           new == NewPath(k, m)
<1>1. \/ files' = files
      \/ files' = Put(Without(files, {old}), new, files[old])
  BY DEF Move, Moved
<1>2. /\ OldPath(k2, s) # old /\ OldPath(k2, s) # new
      /\ NewPath(k2, s) # old /\ NewPath(k2, s) # new
  <2>1. CASE s # m
    BY <2>1, RowsApart
  <2>2. CASE k2 # k
    BY <2>2 DEF OldPath, NewPath
  <2> QED
    BY <2>1, <2>2
<1> HIDE DEF old, new
<1> QED
  BY <1>1, <1>2 DEF Untouched, Put, Without, Restrict

\* A file that is where it should be is at its target once handled, unless the
\* move was passed over: then it is where it was.
LEMMA MoveOwn ==
  ASSUME NEW k \in Kinds, NEW m \in DOMAIN rows, Move(k, m),
         UNCHANGED <<rows, dir>>,
         AtSource(k, m) \/ (m \in adrift /\ AtTarget(k, m))
  PROVE  /\ AtSource(k, m)' \/ (m \in adrift' /\ AtTarget(k, m)')
         /\ m \notin left' => AtTarget(k, m)'
<1> DEFINE old == OldPath(k, m)
           new == NewPath(k, m)
<1>1. old' = old /\ new' = new
  BY DEF OldPath, NewPath
<1>2. CASE files' = files /\ adrift \subseteq adrift'
  <2>1. Misplaced(k, m) => m \in left' \/ files' # files
    <3>1. ASSUME files' = Moved(k, m), Misplaced(k, m)
          PROVE  old \notin DOMAIN files'
      BY <3>1 DEF Moved, Misplaced, Put, Without, Restrict
    <3> QED
      BY <3>1 DEF Move, Misplaced
  <2> HIDE DEF old, new
  <2>2. AtSource(k, m)' = AtSource(k, m) /\ AtTarget(k, m)' = AtTarget(k, m)
    BY <1>1, <1>2 DEF AtSource, AtTarget, Misplaced, old, new
  <2>3. ~Misplaced(k, m) => AtTarget(k, m)
    BY DEF AtSource, AtTarget, Misplaced
  <2> QED
    BY <1>2, <2>1, <2>2, <2>3
<1>3. CASE /\ Misplaced(k, m) /\ files' = Moved(k, m)
           /\ adrift' = adrift \cup {m}
  <2>1. old \in DOMAIN files /\ old # new /\ files[old] = rows[m].doc
    BY <1>3 DEF AtSource, AtTarget, Misplaced
  <2>2. files' = Put(Without(files, {old}), new, files[old])
    BY <1>3 DEF Moved
  <2> HIDE DEF old, new
  <2>3. /\ new \in DOMAIN files' /\ files'[new] = files[old]
        /\ old \notin DOMAIN files'
    BY <2>1, <2>2 DEF Put, Without, Restrict
  <2>4. AtTarget(k, m)'
    BY <1>1, <2>1, <2>3 DEF AtTarget, Misplaced, old, new
  <2> QED
    BY <1>3, <2>4
<1> QED
  BY <1>2, <1>3 DEF Move

-----------------------------------------------------------------------------
(* The parts of IInv that speak of files and readers *)

LEMMA InitInv ==
  ASSUME RingFits, Init
  PROVE  IInv
<1>1. Books /\ Placed
  BY InitBooks, InitFacts
<1>2. /\ up = "down" /\ rd = [r \in Readers |-> NoRow]
      /\ adrift = {} /\ left = {} /\ lost = {}
  BY DEF Init
<1>3. Located
  BY <1>2, InitFacts DEF Located, Handled, Kept
<1>4. Blameless /\ ReadersIntact
  BY <1>2 DEF Blameless, ReadersIntact
<1> QED
  BY <1>1, <1>3, <1>4 DEF IInv

\* A step that changes no row, keeps the service up and leaves alone the files
\* of kept rows, and of the readers that wait for them.
LEMMA UpInv ==
  ASSUME IInv, Books', up = "serving",
         UNCHANGED <<rows, dir, up, rd, adrift, left, lost>>,
         \A s \in Kept, k \in Kinds :
           Untouched(OldPath(k, s)) /\ Untouched(NewPath(k, s)),
         \A r \in Readers, k \in Kinds :
           rd[r] # NoRow /\ rd[r].seq > Top + 1 - Slots =>
             Untouched(<<k, rd[r].dir, rd[r].slot>>)
  PROVE  IInv'
<1>1. Top' = Top
  BY TopSame
<1>2. Placed' /\ Blameless'
  BY <1>1 DEF IInv, Placed, PathOK, Blameless
<1>3. Located'
  <2> SUFFICES ASSUME NEW s \in Kept \ lost, NEW k \in Kinds
               PROVE  AtSource(k, s)' \/ (s \in adrift /\ AtTarget(k, s)')
    BY <1>1 DEF Located, Kept, Handled
  <2> QED
    BY FoundStays DEF IInv, Located, Kept
<1>4. ReadersIntact'
  BY <1>1 DEF IInv, ReadersIntact, Intact, Astray, Untouched
<1> QED
  BY <1>2, <1>3, <1>4 DEF IInv

LEMMA StoreBeginInv ==
  ASSUME IInv, NEW d \in Docs, StoreBegin(d)
  PROVE  IInv'
<1>1. Books'
  BY StoreBeginBooks DEF IInv
<1>2. /\ UNCHANGED <<rows, files, dir, up, rd, adrift, left, lost>>
      /\ up = "serving"
  BY DEF StoreBegin, astray
<1> QED
  BY <1>1, <1>2, UpInv DEF Untouched

\* Writes and unlinks of the storer: none is at a path that counts.
LEMMA StorerFiles ==
  ASSUME IInv,
         \/ WriteRaw \/ WriteConverted
         \/ WriteRawFails \/ WriteConvertedFails \/ InsertFails
  PROVE  /\ up = "serving"
         /\ UNCHANGED <<rows, dir, up, rd, adrift, left, lost>>
         /\ \A s \in Kept, k \in Kinds :
              Untouched(OldPath(k, s)) /\ Untouched(NewPath(k, s))
         /\ \A r \in Readers, k \in Kinds :
              rd[r] # NoRow /\ rd[r].seq > Top + 1 - Slots =>
                Untouched(<<k, rd[r].dir, rd[r].slot>>)
<1>1. Books /\ Placed
  BY DEF IInv
<1>2. /\ pc \in {"raw", "converted", "insert"} /\ up = "serving"
      /\ UNCHANGED <<rows, dir, up, rd, adrift, left, lost>>
  BY <1>1, EarlyFailureFacts DEF Books, TypeOK, WriteRaw, WriteConverted, astray
<1>3. ASSUME NEW p, \A k \in Kinds : p # JobPath(k)
      PROVE  Untouched(p)
  BY <1>1, <1>3, EarlyFailureFacts
  DEF WriteRaw, WriteConverted, Put, Without, Restrict, Kinds, Books, Untouched
<1>4. \A s \in Kept, k \in Kinds :
        Untouched(OldPath(k, s)) /\ Untouched(NewPath(k, s))
  BY <1>1, <1>2, <1>3, KeptElsewhere
<1>5. ASSUME NEW r \in Readers, rd[r] # NoRow, rd[r].seq > Top + 1 - Slots,
             NEW k \in Kinds
      PROVE  Untouched(<<k, rd[r].dir, rd[r].slot>>)
  <2>1. rd[r].seq \in Nat /\ rd[r].seq <= Top /\ PathOK(rd[r])
    BY <1>1, <1>5, StoreAssumption DEF Placed, Books, TypeOK
  <2>2. \A k2 \in Kinds : JobPath(k2) # <<k, rd[r].dir, rd[r].slot>>
    BY <1>1, <1>2, <1>5, <2>1, PathElsewhere
  <2> QED
    BY <1>3, <2>2
<1> QED
  BY <1>2, <1>4, <1>5

LEMMA StorerFilesInv ==
  ASSUME IInv,
         \/ WriteRaw \/ WriteConverted
         \/ WriteRawFails \/ WriteConvertedFails \/ InsertFails
  PROVE  IInv'
<1>1. Books'
  BY WriteBooks, EarlyFailureBooks DEF IInv
<1> QED
  BY <1>1, StorerFiles, UpInv

LEMMA InsertRowInv ==
  ASSUME RingFits, IInv, InsertRow
  PROVE  IInv'
<1> USE StoreAssumption
<1>1. Books
  BY DEF IInv
<1>2. /\ Books'
      /\ Top \in Nat /\ Top' = Top + 1 /\ job.seq = Top + 1
      /\ DOMAIN rows' = DOMAIN rows \cup {Top + 1}
      /\ rows'[Top + 1] =
           [doc |-> job.doc, dir |-> job.dir, slot |-> Slot(Top + 1)]
      /\ \A s \in DOMAIN rows : s # Top + 1 /\ rows'[s] = rows[s]
  BY <1>1, InsertRowBooks
<1>3. /\ pc = "insert" /\ up = "serving" /\ job.dir \in Dirs
      /\ UNCHANGED <<files, dir, up, rd, adrift, left, lost>>
  BY <1>1 DEF InsertRow, Books, TypeOK, astray
<1>4. Placed' /\ Blameless'
  <2>1. \A s \in DOMAIN rows' :
          PathOK([seq |-> s, dir |-> rows[s].dir, slot |-> rows[s].slot])'
    BY <1>2, <1>3 DEF IInv, Placed, PathOK
  <2>2. \A r \in Readers : rd[r] # NoRow => rd[r].seq \in Nat
    BY <1>1 DEF Books, TypeOK
  <2> QED
    BY <1>2, <1>3, <2>1, <2>2 DEF IInv, Placed, PathOK, Blameless
<1>5. Located'
  <2> SUFFICES ASSUME NEW s \in Kept' \ lost, NEW k \in Kinds
               PROVE  AtSource(k, s)' \/ (s \in adrift /\ AtTarget(k, s)')
    BY <1>3 DEF Located, Handled
  <2>1. CASE s = Top + 1
    BY <1>2, <1>3, <2>1 DEF IInv, Books, JobInv, JobPath, Kinds, AtSource, OldPath
  <2>2. CASE s # Top + 1
    <3>1. s \in Kept \ lost /\ s \in DOMAIN rows /\ rows'[s] = rows[s]
      BY <1>1, <1>2, <2>2 DEF Kept, Books, TypeOK
    <3>2. AtSource(k, s) \/ (s \in adrift /\ AtTarget(k, s))
      BY <3>1 DEF IInv, Located
    <3> QED
      BY <1>3, <3>1, <3>2, FoundStays DEF Untouched
  <2> QED
    BY <2>1, <2>2
<1>6. ReadersIntact'
  BY <1>1, <1>2, <1>3 DEF IInv, ReadersIntact, Intact, Astray, Books, TypeOK
<1> QED
  BY <1>2, <1>4, <1>5, <1>6 DEF IInv

LEMMA PruneRowInv ==
  ASSUME RingFits, IInv, PruneRow
  PROVE  IInv'
<1>1. /\ Books'
      /\ Top' = Top /\ DOMAIN rows' \subseteq DOMAIN rows
      /\ \A s \in DOMAIN rows' : rows'[s] = rows[s]
  BY PruneRowBooks DEF IInv
<1>2. /\ UNCHANGED <<files, dir, up, rd, adrift, left, lost>>
      /\ up = "serving"
  BY DEF PruneRow, IInv, Books, TypeOK, astray
<1>3. Placed' /\ Blameless'
  BY <1>1, <1>2 DEF IInv, Placed, PathOK, Blameless
<1>4. Located'
  <2> SUFFICES ASSUME NEW s \in Kept' \ lost, NEW k \in Kinds
               PROVE  AtSource(k, s)' \/ (s \in adrift /\ AtTarget(k, s)')
    BY <1>2 DEF Located, Handled
  <2>1. s \in Kept \ lost /\ s \in DOMAIN rows /\ rows'[s] = rows[s]
    BY <1>1 DEF Kept
  <2>2. AtSource(k, s) \/ (s \in adrift /\ AtTarget(k, s))
    BY <2>1 DEF IInv, Located
  <2> QED
    BY <1>2, <2>1, <2>2, FoundStays DEF Untouched
<1>5. ReadersIntact'
  BY <1>1, <1>2 DEF IInv, ReadersIntact, Intact, Astray
<1> QED
  BY <1>1, <1>3, <1>4, <1>5 DEF IInv

LEMMA StoreEndInv ==
  ASSUME RingFits, IInv, StoreReturns \/ PruneFails
  PROVE  IInv'
<1>1. Books'
  BY StoreEndBooks DEF IInv
<1>2. /\ UNCHANGED <<rows, files, dir, up, rd, adrift, left, lost>>
      /\ up = "serving"
  BY DEF StoreReturns, PruneFails, IInv, Books, TypeOK, astray
<1> QED
  BY <1>1, <1>2, UpInv DEF Untouched

\* The boot after a rename looks for a file only where its row says it is: what
\* was adrift is lost, what was not is at its row's path.
LEMMA RenameInv ==
  ASSUME IInv, NEW d \in Dirs, Rename(d)
  PROVE  IInv'
<1>1. Books'
  BY OtherThreadsBooks DEF IInv
<1>2. /\ up = "serving" /\ lost' = lost \cup adrift /\ adrift' = {}
      /\ UNCHANGED <<rows, files, up, rd, left>>
  BY DEF Rename
<1>3. Top' = Top
  BY <1>2, TopSame
<1>4. Placed' /\ Blameless'
  BY <1>2, <1>3 DEF IInv, Placed, PathOK, Blameless
<1>5. Located'
  <2> SUFFICES ASSUME NEW s \in Kept \ (lost \cup adrift), NEW k \in Kinds
               PROVE  AtSource(k, s)'
    BY <1>2, <1>3 DEF Located, Kept, Handled
  <2> QED
    BY <1>2 DEF IInv, Located, AtSource, OldPath
<1>6. ReadersIntact'
  BY <1>2, <1>3 DEF IInv, ReadersIntact, Intact, Astray
<1> QED
  BY <1>1, <1>4, <1>5, <1>6 DEF IInv

LEMMA SelectRowInv ==
  ASSUME RingFits, IInv, NEW r \in Readers, SelectRow(r)
  PROVE  IInv'
<1> USE StoreAssumption DEF RingFits, IInv
<1> DEFINE sel == [seq  |-> Top,           doc  |-> rows[Top].doc,
                   dir  |-> rows[Top].dir, slot |-> rows[Top].slot]
<1>1. /\ up = "serving" /\ DOMAIN rows # {}
      /\ rd' = [rd EXCEPT ![r] = sel]
      /\ UNCHANGED <<rows, files, dir, up, todo, half, adrift, left, lost>>
  BY DEF SelectRow, migrating, astray
<1>2. Top' = Top /\ Top \in Nat /\ Top \in Kept /\ Top \in DOMAIN rows
  BY <1>1, TopSame, TopNat DEF Books, Dense, Kept
<1>3. Books' /\ rd \in [Readers -> {NoRow} \cup [seq : 1..MaxSeq, doc : Docs,
                                                 dir : AllDirs, slot : Nat]]
  BY OtherThreadsBooks DEF Books, TypeOK
<1>4. Placed' /\ Blameless'
  <2>1. PathOK(sel)
    BY <1>2 DEF Placed, PathOK
  <2> SUFFICES ASSUME NEW q \in Readers, rd'[q] # NoRow
               PROVE  rd'[q].seq <= Top /\ PathOK(rd'[q])
    BY <1>1, <1>2 DEF Placed, PathOK, Blameless
  <2>2. CASE q = r
    BY <1>1, <1>2, <1>3, <2>1, <2>2
  <2>3. CASE q # r
    BY <1>1, <1>3, <2>3 DEF Placed
  <2> QED
    BY <2>2, <2>3
<1>5. Located'
  <2>1. UNCHANGED <<Top, Kept>>
    BY <1>1, <1>2 DEF Kept
  <2> QED
    BY <1>1, <2>1
    DEF Located, Handled, AtSource, AtTarget, Misplaced, OldPath, NewPath
<1>6. ReadersIntact'
  <2>1. ~Astray(Top) => Intact(rows[Top])
    BY <1>2 DEF Located, Astray, AtSource, OldPath, Intact
  <2> SUFFICES ASSUME NEW q \in Readers, rd'[q] # NoRow, ~Astray(rd'[q].seq),
                      rd'[q].seq > Top + 1 - Slots, NEW k \in Kinds
               PROVE  LET p == <<k, rd'[q].dir, rd'[q].slot>>
                      IN  p \in DOMAIN files /\ files[p] = rd'[q].doc
    BY <1>1, <1>2 DEF ReadersIntact, Intact, Astray
  <2>2. CASE q = r
    BY <1>1, <1>3, <2>1, <2>2 DEF Intact
  <2>3. CASE q # r
    BY <1>1, <1>3, <2>3 DEF ReadersIntact, Intact
  <2> QED
    BY <2>2, <2>3
<1> QED
  BY <1>3, <1>4, <1>5, <1>6

LEMMA OpenFileInv ==
  ASSUME IInv, NEW r \in Readers, OpenFile(r)
  PROVE  IInv'
<1>1. /\ rd' = [rd EXCEPT ![r] = NoRow]
      /\ UNCHANGED <<rows, files, dir, up, todo, half, adrift, left, lost>>
  BY DEF OpenFile, migrating, astray
<1>2. Top' = Top /\ Kept' = Kept
  BY <1>1, TopSame DEF Kept
<1>3. Books'
  BY OtherThreadsBooks DEF IInv
<1>4. \A q \in Readers : rd'[q] # NoRow => rd'[q] = rd[q]
  BY <1>1 DEF IInv, Books, TypeOK
<1>5. Placed' /\ Blameless'
  BY <1>1, <1>2, <1>4 DEF IInv, Placed, PathOK, Blameless
<1>6. Located'
  BY <1>1, <1>2
  DEF IInv, Located, Handled, AtSource, AtTarget, Misplaced, OldPath, NewPath
<1>7. ReadersIntact'
  BY <1>1, <1>2, <1>4 DEF IInv, ReadersIntact, Intact, Astray
<1> QED
  BY <1>3, <1>5, <1>6, <1>7 DEF IInv

-----------------------------------------------------------------------------
(* Death and boot *)

\* Whatever ends a migration without its commit, files are where the next boot
\* finds them; and nobody reads while the service is not up.
LEMMA CutShortInv ==
  ASSUME RingFits, IInv, Crash \/ MigrateFails
  PROVE  IInv'
<1>1. Books'
  BY CrashBooks, MigrationEndBooks DEF IInv
<1>2. /\ up' # "migrating" /\ left' = {}
      /\ UNCHANGED <<rows, files, dir, adrift, lost>>
  BY DEF Crash, MigrateFails
<1>3. \A r \in Readers : rd'[r] = NoRow
  BY DEF Crash, MigrateFails, IInv, Placed
<1>4. Top' = Top /\ Kept' = Kept
  BY <1>2, TopSame DEF Kept
<1>5. Placed' /\ ReadersIntact'
  BY <1>2, <1>3 DEF IInv, Placed, PathOK, ReadersIntact
<1>6. Blameless'
  BY <1>2 DEF IInv, Blameless, Crash, MigrateFails
<1>7. Located'
  BY <1>2, <1>4
  DEF IInv, Located, Handled, AtSource, AtTarget, Misplaced, OldPath, NewPath
<1> QED
  BY <1>1, <1>5, <1>6, <1>7 DEF IInv

LEMMA BootInv ==
  ASSUME IInv, Boot
  PROVE  IInv'
<1>1. /\ up = "down" /\ up' = "migrating" /\ todo' = DOMAIN rows /\ ~half'
      /\ UNCHANGED <<rows, files, dir, rd, adrift, left, lost>>
  BY DEF Boot, IInv, Books, TodoInv, astray
<1>2. Books'
  BY BootBooks DEF IInv
<1>3. Top' = Top /\ Kept' = Kept
  BY <1>1, TopSame DEF Kept
<1>4. Placed' /\ Blameless' /\ ReadersIntact'
  BY <1>1 DEF IInv, Placed, PathOK, Blameless, ReadersIntact
<1>5. Located'
  <2>1. \A s \in Kept, k \in Kinds : ~Handled(k, s)'
    BY <1>1 DEF Handled, Kept
  <2> QED
    BY <1>1, <1>3, <2>1
    DEF IInv, Located, AtSource, AtTarget, Misplaced, OldPath, NewPath
<1> QED
  BY <1>2, <1>4, <1>5 DEF IInv

LEMMA MoveInv ==
  ASSUME IInv, MigrateRaw \/ MigrateConverted
  PROVE  IInv'
<1>1. PICK kind \in Kinds, m \in DOMAIN rows :
        /\ up = "migrating" /\ Move(kind, m)
        /\ \/ kind = "raw" /\ ~half /\ half' /\ todo' = todo
           \/ kind = "converted" /\ half /\ ~half' /\ todo' = todo \ {m}
        /\ todo # {} /\ m = Min(todo) /\ m \in todo
        /\ UNCHANGED <<rows, dir, up, pc, job, victims, rd, lost>>
  BY MoveFacts DEF IInv
<1>2. Books' /\ Top' = Top /\ Kept' = Kept /\ pc # "prune"
  BY <1>1, TopSame, MoveBooks DEF IInv, Books, TypeOK, Kept
<1>3. /\ adrift \subseteq adrift' /\ left \subseteq left'
      /\ left' # left => "move" \in Faults
  BY <1>1 DEF Move
<1>4. Placed' /\ Blameless' /\ ReadersIntact'
  BY <1>1, <1>3 DEF IInv, Placed, PathOK, Blameless, ReadersIntact
<1>5. ASSUME NEW s \in Kept \ lost, NEW k \in Kinds
      PROVE  /\ AtSource(k, s)' \/ (s \in adrift' /\ AtTarget(k, s)')
             /\ Handled(k, s)' /\ s \notin left' => AtTarget(k, s)'
  <2>1. /\ s \in DOMAIN rows
        /\ AtSource(k, s) \/ (s \in adrift /\ AtTarget(k, s))
        /\ Handled(k, s) /\ s \notin left => AtTarget(k, s)
    BY DEF IInv, Located, Kept
  <2>2. CASE s = m /\ k = kind
    BY <1>1, <2>1, <2>2, MoveOwn
  <2>3. CASE s # m \/ k # kind
    <3>1. Handled(k, s)' => Handled(k, s)
      BY <1>1, <2>3 DEF Handled, Kinds
    <3>2. Untouched(OldPath(k, s)) /\ Untouched(NewPath(k, s))
      BY <1>1, <1>2, <2>1, <2>3, MoveApart DEF IInv
    <3>3. /\ AtSource(k, s) => AtSource(k, s)'
          /\ AtTarget(k, s) => AtTarget(k, s)'
      BY <1>1, <2>1, <3>2, FoundStays
    <3> QED
      BY <1>3, <2>1, <3>1, <3>3
  <2> QED
    BY <2>2, <2>3
<1>6. Located'
  BY <1>1, <1>2, <1>5 DEF Located
<1> QED
  BY <1>2, <1>4, <1>6 DEF IInv

\* When the migration has gone through its rows, every kept file is at its
\* target or left behind; the commit makes the target its path.
LEMMA CommitHeals ==
  ASSUME IInv, MigrateCommit
  PROVE  /\ Top' = Top /\ Kept' = Kept
         /\ \A s \in Kept \ lost' : Intact(rows[s])'
<1>1. /\ up = "migrating" /\ todo = {} /\ lost' = lost \cup left
      /\ rows' = [s \in DOMAIN rows |->
                    [doc |-> rows[s].doc, dir |-> dir, slot |-> Slot(s)]]
      /\ UNCHANGED <<files, dir>>
  BY DEF MigrateCommit
<1>2. Top' = Top /\ Kept' = Kept
  BY <1>1, TopSame DEF Kept
<1>3. ASSUME NEW s \in Kept \ lost'
      PROVE  Intact(rows[s])'
  <2>1. s \in DOMAIN rows /\ \A k \in Kinds : AtTarget(k, s)
    BY <1>1 DEF IInv, Located, Handled, Kept
  <2> QED
    BY <1>1, <2>1 DEF Intact, AtTarget, NewPath
<1> QED
  BY <1>2, <1>3

LEMMA MigrateCommitInv ==
  ASSUME IInv, MigrateCommit
  PROVE  IInv'
<1>1. Books' /\ Books
  BY MigrationEndBooks DEF IInv
<1>2. /\ up = "migrating" /\ up' = "serving" /\ rd' = rd /\ dir \in Dirs
      /\ lost' = lost \cup left /\ adrift' = {} /\ left' = {}
      /\ rows' = [s \in DOMAIN rows |->
                    [doc |-> rows[s].doc, dir |-> dir, slot |-> Slot(s)]]
  BY <1>1 DEF MigrateCommit, Books, TypeOK
<1>3. \A r \in Readers : rd'[r] = NoRow
  BY <1>2 DEF IInv, Placed
<1>4. Placed' /\ Blameless' /\ ReadersIntact'
  BY <1>2, <1>3 DEF IInv, Placed, PathOK, Blameless, ReadersIntact
<1>5. Located'
  <2>1. \A s \in Kept' \ lost', k \in Kinds : AtSource(k, s)'
    BY CommitHeals DEF Intact, AtSource, OldPath
  <2> QED
    BY <1>2, <2>1 DEF Located, Handled
<1> QED
  BY <1>1, <1>4, <1>5 DEF IInv

LEMMA StutterInv ==
  ASSUME IInv, UNCHANGED vars
  PROVE  IInv'
<1>1. Top' = Top
  BY TopSame DEF vars
<1>2. Books'
  BY StutterBooks DEF IInv
<1> QED
  BY <1>1, <1>2
  DEF vars, IInv, Placed, PathOK, Located, Kept, Blameless, Astray,
      ReadersIntact, Intact, AtTarget, AtSource, Misplaced, Handled, OldPath,
      NewPath

-----------------------------------------------------------------------------
(* The inductive invariant and what follows from it *)

LEMMA NextInv ==
  ASSUME RingFits, IInv, [Next]_vars
  PROVE  IInv'
<1>1. CASE UNCHANGED vars
  BY <1>1, StutterInv
<1>2. CASE Store
  BY <1>2, StoreBeginInv, StorerFilesInv, InsertRowInv, PruneRowInv, StoreEndInv
  DEF Store
<1>3. CASE Migrate
  BY <1>3, BootInv, MoveInv, MigrateCommitInv, CutShortInv DEF Migrate
<1>4. CASE Crash
  BY <1>4, CutShortInv
<1>5. CASE \E d \in Dirs : Rename(d)
  BY <1>5, RenameInv
<1>6. CASE \E r \in Readers : SelectRow(r) \/ OpenFile(r)
  BY <1>6, SelectRowInv, OpenFileInv
<1> QED
  BY <1>1, <1>2, <1>3, <1>4, <1>5, <1>6 DEF Next

\* The inductive invariant holds throughout, in every deployment whose ring
\* fits and whatever goes wrong at its boots: the basis of the theorems below.
THEOREM Invariance == ASSUME RingFits PROVE Spec => []IInv
<1>1. Init => IInv
  BY InitInv
<1>2. IInv /\ [Next]_vars => IInv'
  BY NextInv
<1> QED
  BY <1>1, <1>2, PTL DEF Spec

\* Types of rows, files, steps and readers (version_store.py).
THEOREM TypeCorrect == ASSUME RingFits PROVE Spec => []TypeOK
<1>1. IInv => TypeOK
  BY DEF IInv, Books
<1> QED
  BY <1>1, Invariance, PTL

\* A retained version is kept.
LEMMA RetainedKept ==
  ASSUME RingFits, Books, NEW s \in DOMAIN rows, s > Top - Retention
  PROVE  s \in Kept
<1>1. Top \in Nat /\ s \in Nat
  BY TopNat DEF Books, TypeOK
<1> QED
  BY <1>1, StoreAssumption DEF Kept, RingFits

\* The files of the newest Retention versions are never lost or replaced while
\* requests are served, for any ring, retention, names and documents, but those
\* of the versions that a fault of a boot was about.
THEOREM RetainedFiles == ASSUME RingFits PROVE Spec => []NewestIntact
<1>1. IInv => NewestIntact
  <2> SUFFICES ASSUME IInv, up = "serving", NEW s \in DOMAIN rows,
                      s > Top - Retention, ~Astray(s)
               PROVE  Intact(rows[s])
    BY DEF NewestIntact
  <2>1. s \in Kept
    BY RetainedKept DEF IInv
  <2> QED
    BY <2>1 DEF IInv, Located, Astray, AtSource, OldPath, Intact
<1> QED
  BY <1>1, Invariance, PTL

\* When no move and no migration fails (version_store.py:212-229 and
\* __init__.py:29-37 catch nothing), no retained version loses its files,
\* whenever the process dies and whatever else fails.
THEOREM FaultlessBoots ==
  ASSUME RingFits, Faults = {}
  PROVE  Spec => [](up = "serving" => RetainedWhole)
<1>1. IInv => (up = "serving" => RetainedWhole)
  <2> SUFFICES ASSUME IInv, up = "serving", NEW s \in DOMAIN rows,
                      s > Top - Retention
               PROVE  Intact(rows[s])
    BY DEF RetainedWhole
  <2>1. s \in Kept /\ adrift = {} /\ lost = {}
    BY RetainedKept DEF IInv, Blameless
  <2> QED
    BY <2>1 DEF IInv, Located, AtSource, OldPath, Intact
<1> QED
  BY <1>1, Invariance, PTL

\* A reader between its row select and its open is not overtaken by the ring.
THEOREM SlowReaders == ASSUME RingFits PROVE Spec => []ReadersIntact
<1>1. IInv => ReadersIntact
  BY DEF IInv
<1> QED
  BY <1>1, Invariance, PTL

\* A store that returns leaves exactly the newest Retention versions, whichever
\* prunes were cut short before it and whether or not the rows are on the ring.
THEOREM ExactRetention == ASSUME RingFits PROVE Spec => []PrunedToRetention
<1>1. Books => PrunedToRetention
  <2> SUFFICES ASSUME Books, pc = "prune", victims = {}
               PROVE  DOMAIN rows = {s \in 1..Top : s > Top - Retention}
    BY DEF PrunedToRetention
  <2>1. Top \in Nat /\ DOMAIN rows \subseteq 1..MaxSeq
    BY TopNat DEF Books, TypeOK
  <2>2. \A s \in DOMAIN rows : s \in 1..Top /\ s > Top - Retention
    BY <2>1 DEF Books, Window, Dense
  <2>3. \A s \in 1..Top : s > Top - Retention => s \in DOMAIN rows
    BY DEF Books, Dense
  <2> QED
    BY <2>2, <2>3
<1> QED
  BY <1>1, Invariance, PTL DEF IInv

\* However many boots before it moved files and did not commit, and whatever was
\* stored, pruned or cut short in between: a boot migration that commits makes
\* every retained version whole, but those whose move was passed over and those
\* that were adrift when the provider was renamed.
THEOREM Healing == ASSUME RingFits PROVE Spec => MigrationHeals
<1>1. IInv /\ [Next]_vars =>
        [MigrateCommit =>
           \A s \in DOMAIN rows :
             s > Top - Retention /\ s \notin lost' => Intact(rows[s])']_vars
  <2> SUFFICES ASSUME IInv, MigrateCommit, NEW s \in DOMAIN rows,
                      s > Top - Retention, s \notin lost'
               PROVE  Intact(rows[s])'
    OBVIOUS
  <2>1. s \in Kept
    BY RetainedKept DEF IInv
  <2> QED
    BY <2>1, CommitHeals
<1> QED
  BY <1>1, Invariance, PTL DEF Spec, MigrationHeals

-----------------------------------------------------------------------------
(* Refinement: seen through get_current the store is a register *)

LEMMA TopRow ==
  ASSUME RingFits, Books, DOMAIN rows # {}
  PROVE  Top \in DOMAIN rows /\ Top \in Kept /\ rows[Top].doc \in Docs
<1>1. Top \in DOMAIN rows /\ Top \in Nat
  BY TopNat DEF Books, Dense
<1> QED
  BY <1>1, StoreAssumption DEF Kept, RingFits, Books, TypeOK, Row

\* What is served is the document of the newest row, unless it is astray.
LEMMA ServedIsTop ==
  ASSUME RingFits, IInv
  PROVE  /\ TopDoc \in Docs \cup {NoDoc} /\ Served \in Docs \cup {NoDoc}
         /\ (up = "serving" => ~Astray(Top)) => Served = TopDoc
<1>1. TopDoc \in Docs \cup {NoDoc}
  BY TopRow DEF TopDoc, IInv
<1>2. CASE DOMAIN rows = {} \/ up # "serving"
  BY <1>1, <1>2 DEF Served
<1>3. CASE ~(DOMAIN rows = {} \/ up # "serving")
  <2> DEFINE at == OldPath("converted", Top)
  <2>1. Served = IF at \in DOMAIN files THEN files[at] ELSE NoDoc
    BY <1>3 DEF Served
  <2>2. at \in DOMAIN files => files[at] \in Docs
    BY DEF IInv, Books, TypeOK
  <2>3. ~Astray(Top) => AtSource("converted", Top)
    BY <1>3, TopRow DEF IInv, Located, Astray, Kinds
  <2>4. ~Astray(Top) => at \in DOMAIN files /\ files[at] = TopDoc
    BY <1>3, <2>3 DEF AtSource, TopDoc
  <2> HIDE DEF at
  <2> QED
    BY <1>1, <1>3, <2>1, <2>2, <2>4
<1> QED
  BY <1>2, <1>3

LEMMA InitRefines ==
  ASSUME RingFits, Init
  PROVE  LG!Init
<1>1. IInv
  BY InitInv
<1>2. Top \in Nat /\ up = "down"
  BY <1>1, TopNat DEF IInv, Books, Init
<1> QED
  BY <1>1, <1>2, ServedIsTop DEF LG!Init

\* A step of a storer, a reader or PATCH that keeps the newest row and its
\* converted file keeps everything that the register shows.
LEMMA SameServed ==
  ASSUME Top' = Top, up' = up, DOMAIN rows' = {} <=> DOMAIN rows = {},
         DOMAIN rows # {} => rows'[Top] = rows[Top],
         DOMAIN rows # {} /\ up = "serving" => Untouched(OldPath("converted", Top)),
         adrift' \cup lost' = adrift \cup lost
  PROVE  UNCHANGED LG!vars
<1>1. TopDoc' = TopDoc
  BY DEF TopDoc
<1>2. DOMAIN rows # {} => OldPath("converted", Top)' = OldPath("converted", Top)
  BY DEF OldPath
<1>3. Served' = Served
  <2>1. CASE DOMAIN rows = {} \/ up # "serving"
    BY <1>1, <2>1 DEF Served
  <2>2. CASE ~(DOMAIN rows = {} \/ up # "serving")
    BY <1>2, <2>2 DEF Served, Untouched
  <2> QED
    BY <2>1, <2>2
<1>4. Astray(Top)' <=> Astray(Top)
  BY DEF Astray
<1> QED
  BY <1>1, <1>3, <1>4 DEF LG!vars

LEMMA StorerRefines ==
  ASSUME RingFits, IInv, Store, ~InsertRow
  PROVE  UNCHANGED LG!vars
<1>1. CASE PruneRow
  <2>1. /\ Top' = Top /\ Top \in DOMAIN rows'
        /\ DOMAIN rows' \subseteq DOMAIN rows
        /\ \A s \in DOMAIN rows' : rows'[s] = rows[s]
    BY <1>1, PruneRowBooks DEF IInv
  <2>2. UNCHANGED <<files, up, adrift, lost>>
    BY <1>1 DEF PruneRow, astray
  <2>3. DOMAIN rows' # {} /\ DOMAIN rows # {} /\ rows'[Top] = rows[Top]
    BY <2>1
  <2> QED
    BY <2>1, <2>2, <2>3, SameServed DEF Untouched
<1>2. CASE \/ WriteRaw \/ WriteConverted
           \/ WriteRawFails \/ WriteConvertedFails \/ InsertFails
  <2>1. /\ UNCHANGED <<rows, up, adrift, lost>>
        /\ \A s \in Kept, k \in Kinds : Untouched(OldPath(k, s))
    BY <1>2, StorerFiles
  <2>2. DOMAIN rows # {} => Untouched(OldPath("converted", Top))
    BY <2>1, TopRow DEF IInv, Kinds
  <2> QED
    BY <2>1, <2>2, TopSame, SameServed
<1>3. CASE (\E d \in Docs : StoreBegin(d)) \/ StoreReturns \/ PruneFails
  <2>1. UNCHANGED <<rows, files, up, adrift, lost>>
    BY <1>3 DEF StoreBegin, StoreReturns, PruneFails, astray
  <2> QED
    BY <2>1, TopSame, SameServed DEF Untouched
<1> QED
  BY <1>1, <1>2, <1>3 DEF Store

LEMMA InsertRefines ==
  ASSUME RingFits, IInv, IInv', InsertRow
  PROVE  LG!Publish
<1>1. /\ Top \in Nat /\ Top' = Top + 1 /\ DOMAIN rows' # {}
      /\ up = "serving" /\ up' = up /\ UNCHANGED <<adrift, lost>>
  BY InsertRowBooks DEF InsertRow, IInv, Books, TypeOK, astray
<1>2. ~Astray(Top)'
  BY <1>1 DEF Astray, IInv, Books, TypeOK
<1>3. TopDoc' \in Docs /\ Served' = TopDoc'
  <2>1. TopDoc' = rows'[Top'].doc /\ rows'[Top'].doc \in Docs
    BY <1>1 DEF TopDoc, IInv, Books, TypeOK, Dense, Row
  <2>2. (RingFits /\ IInv /\ (up = "serving" => ~Astray(Top)) => Served = TopDoc)'
    BY ServedIsTop, PTL
  <2>3. RingFits'
    BY DEF RingFits
  <2> QED
    BY <1>2, <2>1, <2>2, <2>3
<1> QED
  BY <1>1, <1>2, <1>3 DEF LG!Publish

\* The end of a boot shows the register damaged, or not.
LEMMA BootRefines ==
  ASSUME RingFits, IInv, IInv', MigrateCommit \/ MigrateFails
  PROVE  LG!Start
<1>1. Top' = Top /\ up = "migrating" /\ up' = "serving" /\ DOMAIN rows' = DOMAIN rows
  BY MigrationEndBooks DEF MigrateCommit, MigrateFails, IInv
<1>2. TopDoc' = TopDoc
  <2>1. DOMAIN rows # {} => Top \in DOMAIN rows /\ rows'[Top].doc = rows[Top].doc
    BY TopRow DEF MigrateCommit, MigrateFails, IInv
  <2> QED
    BY <1>1, <2>1 DEF TopDoc
<1>3. /\ Served' \in Docs \cup {NoDoc}
      /\ (up = "serving" => ~Astray(Top))' => Served' = TopDoc'
  <2>1. (RingFits /\ IInv =>
           /\ Served \in Docs \cup {NoDoc}
           /\ (up = "serving" => ~Astray(Top)) => Served = TopDoc)'
    BY ServedIsTop, PTL
  <2>2. RingFits'
    BY DEF RingFits
  <2> QED
    BY <2>1, <2>2
<1>4. (up = "serving" => ~Astray(Top))' \in BOOLEAN
  OBVIOUS
<1> QED
  BY <1>1, <1>2, <1>3, <1>4 DEF LG!Start

LEMMA DownRefines ==
  ASSUME IInv, Boot \/ MigrateRaw \/ MigrateConverted \/ Crash
  PROVE  LG!Stop \/ UNCHANGED LG!vars
<1>1. /\ rows' = rows /\ up' # "serving"
      /\ up = "serving" => Crash
  BY DEF Boot, MigrateRaw, MigrateConverted, Crash
<1>2. Top' = Top /\ TopDoc' = TopDoc
  BY <1>1, TopSame DEF TopDoc
<1>3. Served' = TopDoc /\ (up # "serving" => Served = TopDoc)
  BY <1>1, <1>2 DEF Served, TopDoc
<1>4. CASE up = "serving"
  BY <1>1, <1>2, <1>3, <1>4 DEF LG!Stop
<1>5. CASE up # "serving"
  BY <1>1, <1>2, <1>3, <1>5 DEF LG!vars
<1> QED
  BY <1>4, <1>5

LEMMA StepRefines ==
  ASSUME RingFits, IInv, IInv', [Next]_vars
  PROVE  [LG!Next]_(LG!vars)
<1>1. CASE Store
  BY <1>1, StorerRefines, InsertRefines DEF LG!Next
<1>2. CASE Migrate \/ Crash
  BY <1>2, BootRefines, DownRefines DEF Migrate, LG!Next
<1>3. CASE \/ \E d \in Dirs : Rename(d)
           \/ \E r \in Readers : SelectRow(r) \/ OpenFile(r)
           \/ UNCHANGED vars
  <2>1. /\ UNCHANGED <<rows, files, up>>
        /\ adrift' \cup lost' = adrift \cup lost
    BY <1>3 DEF Rename, SelectRow, OpenFile, vars, astray
  <2> QED
    BY <2>1, TopSame, SameServed DEF Untouched
<1> QED
  BY <1>1, <1>2, <1>3 DEF Next

\* What get_current serves changes only by the insert of a row, to that row's
\* document, one sequence number at a time: no failed store, prune, rename or
\* crash can be seen, and a boot only if its faults were about the newest version.
THEOREM Refinement == ASSUME RingFits PROVE Spec => ServesLastGood
<1>1. Init => LG!Init
  BY InitRefines
<1>2. IInv /\ IInv' /\ [Next]_vars => [LG!Next]_(LG!vars)
  BY StepRefines
<1>3. Spec => []IInv
  BY Invariance
<1> QED
  BY <1>1, <1>2, <1>3, PTL DEF Spec, ServesLastGood, LG!Spec
=============================================================================
