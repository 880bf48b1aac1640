--------------------------- MODULE LogStoreProofs ---------------------------
(***************************************************************************)
(* Proofs about LogStore, for any threads and number of lines.             *)
(***************************************************************************)
EXTENDS LogStore, WellFoundedInduction, TLAPS

-----------------------------------------------------------------------------
(* Induction over the numbers up to n, stated for sets *)

LEMMA UpTo ==
  ASSUME NEW n \in Nat, NEW T, 0 \in T,
         \A i \in 1..n : i - 1 \in T => i \in T
  PROVE  0..n \subseteq T
<1> DEFINE U == (0..n) \ T
           R == {ss \in Nat \X Nat : ss[1] < ss[2]}
<1>1. IsWellFoundedOn(R, Nat)
  BY NatLessThanWellFounded DEF OpToRel
<1>2. \A x, y \in Nat : x < y => <<x, y>> \in R
  OBVIOUS
<1> HIDE DEF R
<1> SUFFICES ASSUME U # {} PROVE FALSE
  OBVIOUS
<1>3. PICK m \in U : \A x \in U : ~(<<x, m>> \in R)
  <2>1. U \subseteq Nat
    OBVIOUS
  <2> HIDE DEF U
  <2> QED
    BY <1>1, <2>1, WFMin
<1>4. m \in 1..n /\ m - 1 \in 0..n /\ m - 1 \in Nat /\ m \in Nat /\ m - 1 < m
  OBVIOUS
<1>5. m - 1 \in T
  <2>1. <<m - 1, m>> \in R
    BY <1>2, <1>4
  <2> QED
    BY <1>3, <1>4, <2>1
<1>6. m \in T
  BY <1>4, <1>5
<1> QED
  BY <1>6

\* A function that starts with x0 and goes on by the steps in `step`.
StepsOf(n, X) == [1..n -> [X -> X]]

Follows(g, n, X, x0, step) ==
  /\ g \in [0..n -> X]
  /\ g[0] = x0
  /\ \A i \in 1..n : g[i] = step[i][g[i - 1]]

\* Such a function exists, so that a recursive definition has its meaning.
LEMMA Steps ==
  ASSUME NEW n \in Nat, NEW X, NEW x0 \in X, NEW step \in StepsOf(n, X)
  PROVE  \E g : Follows(g, n, X, x0, step)
<1> DEFINE Good(m) == \E g \in [0..m -> X] :
                        g[0] = x0 /\ \A i \in 1..m : g[i] = step[i][g[i - 1]]
           T == {m \in 0..n : Good(m)}
<1>1. Good(0)
  <2> DEFINE g == [i \in 0..0 |-> x0]
  <2>1. g \in [0..0 -> X] /\ g[0] = x0 /\ 1..0 = {}
    OBVIOUS
  <2> HIDE DEF g
  <2> QED
    BY <2>1
<1>2. ASSUME NEW m \in 1..n, Good(m - 1) PROVE Good(m)
  <2>0. step \in [1..n -> [X -> X]]
    BY DEF StepsOf
  <2>1. PICK g \in [0..(m - 1) -> X] :
          g[0] = x0 /\ \A i \in 1..(m - 1) : g[i] = step[i][g[i - 1]]
    BY <1>2
  <2> DEFINE h == [i \in 0..m |-> IF i < m THEN g[i] ELSE step[m][g[m - 1]]]
  <2>2. g[m - 1] \in X /\ step[m][g[m - 1]] \in X
    BY <2>0
  <2>3. h \in [0..m -> X] /\ h[0] = x0
    BY <2>1, <2>2
  <2>4. ASSUME NEW i \in 1..m PROVE h[i] = step[i][h[i - 1]]
    BY <2>1
  <2> HIDE DEF h
  <2> QED
    BY <2>3, <2>4
<1>3. 0 \in T /\ \A i \in 1..n : i - 1 \in T => i \in T
  <2> HIDE DEF Good
  <2>1. 0 \in T
    BY <1>1
  <2>2. ASSUME NEW i \in 1..n, i - 1 \in T PROVE i \in T
    <3>1. Good(i - 1) /\ i \in 0..n
      BY <2>2
    <3> QED
      BY <1>2, <3>1
  <2> QED
    BY <2>1, <2>2
<1>4. n \in T
  <2> HIDE DEF T
  <2>1. 0..n \subseteq T
    BY <1>3, UpTo
  <2> QED
    BY <2>1
<1> QED
  BY <1>4 DEF Follows

-----------------------------------------------------------------------------
(* What a line appended to a sequence of lines changes *)

Sorted(s) == \A i, j \in DOMAIN s : i < j => s[i] < s[j]

LEMMA AppendIs ==
  ASSUME NEW s \in Seq(Nat), NEW e \in Nat
  PROVE  /\ Append(s, e) \in Seq(Nat)
         /\ ToSet(Append(s, e)) = ToSet(s) \cup {e}
         /\ IsInjective(s) /\ e \notin ToSet(s) => IsInjective(Append(s, e))
         /\ Sorted(s) /\ (\A x \in ToSet(s) : x < e) => Sorted(Append(s, e))
<1> DEFINE a == Append(s, e)
           n == Len(s)
<1>1. /\ n \in Nat /\ DOMAIN s = 1..n /\ a \in Seq(Nat)
      /\ DOMAIN a = 1..(n + 1) /\ a[n + 1] = e
      /\ \A i \in 1..n : a[i] = s[i] /\ s[i] \in ToSet(s)
  BY DEF ToSet
<1>2. ToSet(s) = {s[i] : i \in 1..n} /\ ToSet(a) = {a[i] : i \in 1..(n + 1)}
  BY <1>1 DEF ToSet
<1>3. 1..(n + 1) = (1..n) \cup {n + 1} /\ n + 1 \notin 1..n
  BY <1>1
<1> HIDE DEF a, n
<1>4. ToSet(a) = ToSet(s) \cup {e}
  <2>1. {a[i] : i \in 1..(n + 1)} = {a[i] : i \in 1..n} \cup {a[n + 1]}
    BY <1>3
  <2>2. {a[i] : i \in 1..n} = {s[i] : i \in 1..n}
    BY <1>1
  <2> QED
    BY <1>1, <1>2, <2>1, <2>2
<1>5. ASSUME IsInjective(s), e \notin ToSet(s) PROVE IsInjective(a)
  BY <1>1, <1>3, <1>5 DEF IsInjective
<1>6. ASSUME Sorted(s), \A x \in ToSet(s) : x < e PROVE Sorted(a)
  <2> SUFFICES ASSUME NEW i \in DOMAIN a, NEW j \in DOMAIN a, i < j
               PROVE  a[i] < a[j]
    BY DEF Sorted
  <2>1. i \in 1..n
    BY <1>1
  <2>2. CASE j \in 1..n
    BY <1>1, <1>6, <2>1, <2>2 DEF Sorted
  <2>3. CASE j = n + 1
    BY <1>1, <1>6, <2>1, <2>3
  <2> QED
    BY <1>1, <1>3, <2>2, <2>3
<1> QED
  BY <1>1, <1>4, <1>5, <1>6 DEF a

-----------------------------------------------------------------------------
(* purge_older_than collects the young lines in their order *)

LEMMA YoungerIs ==
  ASSUME NEW lines \in Seq(Nat), NEW cut \in Nat
  PROVE  /\ Younger(lines, cut) \in Seq(Nat)
         /\ ToSet(Younger(lines, cut)) = {l \in ToSet(lines) : l > cut}
         /\ IsInjective(lines) => IsInjective(Younger(lines, cut))
         /\ Sorted(lines) => Sorted(Younger(lines, cut))
<1> DEFINE n == Len(lines)
           Step(i, k) == IF lines[i] > cut THEN Append(k, lines[i]) ELSE k
           step == [i \in 1..n |-> [k \in Seq(Nat) |-> Step(i, k)]]
           Eq(g) == g = [i \in 0..n |-> IF i = 0 THEN <<>> ELSE Step(i, g[i - 1])]
           keep == CHOOSE g : Eq(g)
<1>0. /\ n \in Nat /\ DOMAIN lines = 1..n /\ \A i \in 1..n : lines[i] \in Nat
      /\ \A i \in 1..n : i - 1 \in 0..n
  OBVIOUS
<1>1. Eq(keep)
  <2>1. step \in [1..n -> [Seq(Nat) -> Seq(Nat)]]
    BY <1>0
  <2>2. PICK g \in [0..n -> Seq(Nat)] :
          g[0] = <<>> /\ \A i \in 1..n : g[i] = step[i][g[i - 1]]
    <3>1. n \in Nat /\ <<>> \in Seq(Nat) /\ step \in StepsOf(n, Seq(Nat))
      BY <1>0, <2>1 DEF StepsOf
    <3> HIDE DEF step, n
    <3>2. \E g : Follows(g, n, Seq(Nat), <<>>, step)
      BY <3>1, Steps
    <3> QED
      BY <3>2 DEF Follows
  <2>3. \A i \in 1..n : g[i] = Step(i, g[i - 1])
    <3> HIDE DEF n, Step
    <3>1. \A i \in 1..n : g[i - 1] \in Seq(Nat)
      BY <1>0
    <3> QED
      BY <2>2, <3>1
  <2>4. Eq(g)
    <3> HIDE DEF step, Step, n
    <3>1. \A i \in 0..n : i = 0 \/ i \in 1..n
      BY <1>0
    <3> QED
      BY <1>0, <2>2, <2>3, <3>1
  <2> HIDE DEF Eq
  <2> QED
    BY <2>4
<1>2. Younger(lines, cut) = keep[n]
  BY DEF Younger
<1> HIDE DEF keep
<1>3. keep[0] = <<>> /\ \A i \in 1..n : keep[i] = Step(i, keep[i - 1])
  <2> HIDE DEF Step, n
  <2>1. \A i \in 1..n : i \in 0..n /\ i # 0
    BY <1>0
  <2>2. 0 \in 0..n
    BY <1>0
  <2> QED
    BY <1>1, <2>1, <2>2
<1> HIDE DEF Eq, step
<1> DEFINE Young(i) == {lines[j] : j \in {k \in 1..i : lines[k] > cut}}
           Good(i) == /\ keep[i] \in Seq(Nat)
                      /\ ToSet(keep[i]) = Young(i)
                      /\ IsInjective(lines) => IsInjective(keep[i])
                      /\ Sorted(lines) => Sorted(keep[i])
           T == {i \in 0..n : Good(i)}
<1>4. Good(0)
  BY <1>3 DEF ToSet, IsInjective, Sorted
<1>5. ASSUME NEW i \in 1..n, Good(i - 1) PROVE Good(i)
  <2> DEFINE k == keep[i - 1]
             l == lines[i]
  <2>1. /\ l \in Nat /\ i \in Nat /\ i - 1 \in Nat /\ 1..i = (1..(i - 1)) \cup {i}
        /\ i \notin 1..(i - 1) /\ \A j \in 1..(i - 1) : j \in 1..n /\ j < i
    BY <1>0
  <2>2. keep[i] = IF l > cut THEN Append(k, l) ELSE k
    BY <1>3
  <2>3. Young(i) = Young(i - 1) \cup {x \in {l} : l > cut}
    <3> HIDE DEF n
    <3> QED
      BY <2>1
  <2>4. /\ k \in Seq(Nat) /\ ToSet(k) = Young(i - 1)
        /\ IsInjective(lines) => IsInjective(k) /\ l \notin Young(i - 1)
        /\ Sorted(lines) => Sorted(k) /\ \A x \in Young(i - 1) : x < l
    <3>1. IsInjective(lines) => l \notin Young(i - 1)
      <4> HIDE DEF n
      <4> QED
        BY <1>0, <2>1 DEF IsInjective
    <3>2. Sorted(lines) => \A x \in Young(i - 1) : x < l
      <4> HIDE DEF n
      <4> QED
        BY <1>0, <2>1 DEF Sorted
    <3> QED
      BY <1>5, <3>1, <3>2
  <2> HIDE DEF Young, k, l, n
  <2>5. CASE l > cut
    <3>1. keep[i] = Append(k, l)
      BY <2>2, <2>5
    <3>2. Young(i) = ToSet(k) \cup {l}
      BY <2>3, <2>4, <2>5
    <3> QED
      BY <2>1, <2>4, <3>1, <3>2, AppendIs
  <2>6. CASE ~(l > cut)
    <3>1. keep[i] = k /\ Young(i) = Young(i - 1)
      BY <2>2, <2>3, <2>6
    <3> QED
      BY <2>4, <3>1
  <2> QED
    BY <2>5, <2>6
<1>6. n \in T
  <2> HIDE DEF Good, n
  <2>1. 0 \in T /\ \A i \in 1..n : i - 1 \in T => i \in T
    BY <1>0, <1>4, <1>5
  <2> HIDE DEF T
  <2>2. 0..n \subseteq T
    BY <1>0, <2>1, UpTo
  <2> QED
    BY <1>0, <2>2
<1>7. Young(n) = {l \in ToSet(lines) : l > cut}
  BY <1>0 DEF ToSet
<1> HIDE DEF Young
<1> QED
  BY <1>2, <1>6, <1>7

-----------------------------------------------------------------------------
(* The inductive invariant *)

\* What keeps a line from being twice in the file: the lines being appended are
\* new and not the same, and neither a copy nor what the purge keeps repeats one.
Once ==
  /\ IsInjective(file) /\ ToSet(file) \subseteq logged
  /\ IsInjective(kept) /\ ToSet(kept) \subseteq logged
  /\ \A t \in Threads : pc[t] # "idle" => line[t] \notin logged
  /\ \A t, u \in Threads : pc[t] # "idle" /\ line[t] = line[u] => t = u
  /\ \A t \in Threads : pc[t] = "replace" =>
       /\ IsInjective(copy[t])
       /\ ToSet(copy[t]) \subseteq logged \cup {line[t]}

\* What keeps the log exact while no two rewrites overlap: only one is under
\* way, and it knows the file as it is.
OneWriter ==
  /\ \A t, u \in Threads : pc[t] # "idle" /\ pc[u] # "idle" => t = u
  /\ \A t \in Threads : pc[t] # "idle" => purge = "idle" /\ line[t] = clock

AppendKnows ==
  \A t \in Threads : pc[t] = "replace" => copy[t] = Append(file, line[t])

PurgeKnows ==
  purge = "replace" =>
    /\ Sorted(kept) /\ ToSet(kept) \subseteq ToSet(file)
    /\ \A l \in ToSet(file) \ ToSet(kept) : l <= cutoff

Exact ==
  /\ LinesKept /\ dropped \cap ToSet(file) = {} /\ Sorted(file)

Solo == ~overlap => OneWriter /\ AppendKnows /\ PurgeKnows /\ Exact

Inductive == TypeOK /\ Once /\ Solo

LEMMA InitInductive == Init => Inductive
<1> SUFFICES ASSUME Init PROVE Inductive
  OBVIOUS
<1>1. TypeOK
  <2>1. <<>> \in Seq(1..MaxLines)
    OBVIOUS
  <2>2. copy \in [Threads -> Seq(1..MaxLines)] /\ 0 \in 0..MaxLines /\ 0..0 = {0}
    BY <2>1, LogAssumption DEF Init
  <2> QED
    BY <2>1, <2>2 DEF Init, TypeOK
<1>2. Once
  BY DEF Init, Once, ToSet, IsInjective
<1>3. Solo
  BY DEF Init, Solo, OneWriter, AppendKnows, PurgeKnows, Exact, LinesKept, Sorted, ToSet
<1> QED
  BY <1>1, <1>2, <1>3 DEF Inductive

\* What a step of a thread leaves of the others, and what a return leaves of it.
LEMMA ReturnIs ==
  ASSUME TypeOK, NEW t \in Threads, Return(t)
  PROVE  /\ pc'[t] = "idle" /\ line'[t] = 0 /\ copy'[t] = <<>>
         /\ \A u \in Threads \ {t} :
              pc'[u] = pc[u] /\ line'[u] = line[u] /\ copy'[u] = copy[u]
         /\ pc' \in [Threads -> {"idle", "read", "replace"}]
         /\ line' \in [Threads -> 0..clock]
         /\ copy' \in [Threads -> Seq(1..MaxLines)]
BY DEF Return, TypeOK

LEMMA StampIs ==
  ASSUME TypeOK, NEW t \in Threads, Stamp(t)
  PROVE  /\ pc[t] = "idle" /\ pc'[t] = "read" /\ line'[t] = clock + 1
         /\ \A u \in Threads \ {t} : pc'[u] = pc[u] /\ line'[u] = line[u]
         /\ pc' \in [Threads -> {"idle", "read", "replace"}]
         /\ line' \in [Threads -> 0..clock']
         /\ clock' = clock + 1 /\ clock' \in 0..MaxLines
BY LogAssumption DEF Stamp, TypeOK

LEMMA CopyIs ==
  ASSUME TypeOK, NEW t \in Threads, Copy(t)
  PROVE  /\ pc[t] = "read" /\ pc'[t] = "replace"
         /\ copy'[t] = Append(file, line[t]) /\ line[t] \in 1..MaxLines
         /\ \A u \in Threads \ {t} : pc'[u] = pc[u] /\ copy'[u] = copy[u]
         /\ pc' \in [Threads -> {"idle", "read", "replace"}]
         /\ copy' \in [Threads -> Seq(1..MaxLines)]
<1>1. pc[t] = "read" /\ line[t] \in 1..MaxLines
  BY LogAssumption DEF Copy, TypeOK
<1>2. Append(file, line[t]) \in Seq(1..MaxLines)
  BY <1>1 DEF TypeOK
<1> QED
  BY <1>1, <1>2 DEF Copy, TypeOK

\* A sequence of lines is one over any set its lines are in.
LEMMA SeqOver ==
  ASSUME NEW s \in Seq(Nat), NEW S, ToSet(s) \subseteq S
  PROVE  s \in Seq(S)
<1>1. s \in [1..Len(s) -> Nat] /\ Len(s) \in Nat
  OBVIOUS
<1>2. \A i \in 1..Len(s) : s[i] \in S
  BY <1>1 DEF ToSet
<1> QED
  BY <1>1, <1>2

LEMMA SeqIs ==
  ASSUME NEW S, NEW s \in Seq(S)
  PROVE  s \in [1..Len(s) -> S] /\ Len(s) \in Nat
OBVIOUS

LEMMA LinesAre ==
  ASSUME TypeOK
  PROVE  /\ file \in Seq(Nat) /\ kept \in Seq(Nat) /\ cutoff \in Nat
         /\ ToSet(file) \subseteq 1..MaxLines
         /\ \A t \in Threads : line[t] \in Nat
<1>1. 1..MaxLines \subseteq Nat
  OBVIOUS
<1>2. ASSUME NEW s \in Seq(1..MaxLines)
      PROVE  s \in Seq(Nat) /\ ToSet(s) \subseteq 1..MaxLines
  <2>1. s \in [1..Len(s) -> 1..MaxLines] /\ Len(s) \in Nat
    BY SeqIs
  <2>2. s \in [1..Len(s) -> Nat]
    BY <1>1, <2>1
  <2> QED
    BY <2>1, <2>2 DEF ToSet
<1>3. file \in Seq(1..MaxLines) /\ kept \in Seq(1..MaxLines)
  BY DEF TypeOK
<1>4. cutoff \in Nat /\ \A t \in Threads : line[t] \in Nat
  BY LogAssumption DEF TypeOK
<1> QED
  BY <1>2, <1>3, <1>4

\* What the purge finds to keep.
LEMMA PurgeFinds ==
  ASSUME TypeOK
  PROVE  LET young == Younger(file, cutoff)
         IN  /\ young \in Seq(1..MaxLines)
             /\ ToSet(young) = {l \in ToSet(file) : l > cutoff}
             /\ IsInjective(file) => IsInjective(young)
             /\ Sorted(file) => Sorted(young)
<1> DEFINE young == Younger(file, cutoff)
<1>1. /\ young \in Seq(Nat)
      /\ ToSet(young) = {l \in ToSet(file) : l > cutoff}
      /\ IsInjective(file) => IsInjective(young)
      /\ Sorted(file) => Sorted(young)
  BY LinesAre, YoungerIs
<1> HIDE DEF young
<1>2. ToSet(young) \subseteq 1..MaxLines
  BY <1>1, LinesAre
<1>3. young \in Seq(1..MaxLines)
  BY <1>1, <1>2, SeqOver
<1> QED
  BY <1>1, <1>3 DEF young

-----------------------------------------------------------------------------
(* Types *)

LEMMA StepTypes ==
  ASSUME TypeOK, Once, Next
  PROVE  TypeOK'
<1>1. ASSUME NEW t \in Threads, Stamp(t)
      PROVE  TypeOK'
  <2>1. /\ UNCHANGED <<file, cutoff, copy, purge, kept, logged, dropped>>
        /\ overlap' \in BOOLEAN
    BY <1>1 DEF Stamp, purging, Begins, TypeOK
  <2>2. clock \in Nat /\ 0..clock \subseteq 0..clock' /\ 1..clock \subseteq 1..clock'
    BY <1>1, StampIs DEF TypeOK
  <2>3. \A u \in Threads : pc'[u] = "idle" <=> line'[u] = 0
    <3>1. pc'[t] # "idle" /\ line'[t] # 0
      BY <1>1, <2>2, StampIs
    <3>2. ASSUME NEW u \in Threads \ {t}
          PROVE  pc'[u] = "idle" <=> line'[u] = 0
      BY <1>1, StampIs DEF TypeOK
    <3> QED
      BY <3>1, <3>2
  <2> QED
    BY <1>1, <2>1, <2>2, <2>3, StampIs DEF TypeOK
<1>2. ASSUME NEW t \in Threads, Copy(t)
      PROVE  TypeOK'
  <2>1. UNCHANGED <<file, clock, cutoff, line, purge, kept, logged, dropped, overlap>>
    BY <1>2 DEF Copy, purging
  <2>2. \A u \in Threads : pc'[u] = "idle" <=> line'[u] = 0
    BY <1>2, <2>1, CopyIs DEF TypeOK
  <2> QED
    BY <1>2, <2>1, <2>2, CopyIs DEF TypeOK
<1>3. ASSUME NEW t \in Threads, Replace(t) \/ AppendFails(t)
      PROVE  TypeOK'
  <2>1. /\ Return(t) /\ pc[t] # "idle"
        /\ UNCHANGED <<clock, cutoff, purge, kept, dropped, overlap>>
    BY <1>3 DEF Replace, AppendFails, purging
  <2>2. file' \in Seq(1..MaxLines) /\ logged' \subseteq 1..clock /\ logged \subseteq logged'
    <3>1. CASE Replace(t)
      <4>1. line[t] \in 1..clock
        BY <2>1, LogAssumption DEF TypeOK
      <4> QED
        BY <3>1, <4>1 DEF Replace, TypeOK
    <3>2. CASE AppendFails(t)
      BY <3>2 DEF AppendFails, TypeOK
    <3> QED
      BY <1>3, <3>1, <3>2
  <2>3. \A u \in Threads : pc'[u] = "idle" <=> line'[u] = 0
    BY <2>1, ReturnIs DEF TypeOK
  <2> QED
    BY <2>1, <2>2, <2>3, ReturnIs DEF TypeOK
<1>4. CASE PurgeRead
  <2>1. /\ UNCHANGED <<file, cutoff, appending, dropped>> /\ purge' = "replace"
        /\ kept' = Younger(file, cutoff) /\ overlap' \in BOOLEAN
    BY <1>4 DEF PurgeRead, Begins, TypeOK
  <2>2. kept' \in Seq(1..MaxLines)
    BY <2>1, PurgeFinds
  <2> QED
    BY <2>1, <2>2 DEF TypeOK, appending
<1>5. CASE PurgeReplace
  <2>1. dropped' \subseteq logged
    BY <1>5 DEF PurgeReplace, TypeOK, Once
  <2> QED
    BY <1>5, <2>1 DEF PurgeReplace, appending, TypeOK
<1>6. CASE Clear
  <2>1. dropped' \subseteq logged /\ overlap' \in BOOLEAN
    BY <1>6 DEF Clear, TypeOK, Once, Begins
  <2> QED
    BY <1>6, <2>1 DEF Clear, appending, purging, TypeOK
<1>7. CASE Age
  <2>1. cutoff' \in 0..clock
    BY <1>7 DEF Age, TypeOK
  <2> QED
    BY <1>7, <2>1 DEF Age, appending, purging, TypeOK
<1>8. CASE PurgeFails
  <2>1. <<>> \in Seq(1..MaxLines)
    OBVIOUS
  <2> QED
    BY <1>8, <2>1 DEF PurgeFails, appending, TypeOK
<1> QED
  BY <1>1, <1>2, <1>3, <1>4, <1>5, <1>6, <1>7, <1>8 DEF Next, Write

-----------------------------------------------------------------------------
(* No line is twice in the file *)

LEMMA StepOnce ==
  ASSUME TypeOK, Once, Next
  PROVE  Once'
<1>1. ASSUME NEW t \in Threads, Stamp(t)
      PROVE  Once'
  <2>1. /\ UNCHANGED <<file, kept, copy, logged>>
        /\ \A l \in logged : l <= clock
        /\ clock \in Nat
    BY <1>1 DEF Stamp, purging, TypeOK
  <2>2. /\ line'[t] \notin logged
        /\ \A u \in Threads : line[u] # line'[t]
    BY <1>1, <2>1, StampIs DEF TypeOK
  <2>3. pc[t] = "idle" /\ pc'[t] = "read"
    BY <1>1, StampIs
  <2>4. \A u \in Threads \ {t} : pc'[u] = pc[u] /\ line'[u] = line[u]
    BY <1>1, StampIs
  <2> QED
    BY <2>1, <2>2, <2>3, <2>4 DEF Once
<1>2. ASSUME NEW t \in Threads, Copy(t)
      PROVE  Once'
  <2>1. UNCHANGED <<file, line, kept, logged>>
    BY <1>2 DEF Copy, purging
  <2>2. /\ pc[t] = "read" /\ pc'[t] = "replace" /\ copy'[t] = Append(file, line[t])
        /\ \A u \in Threads \ {t} : pc'[u] = pc[u] /\ copy'[u] = copy[u]
    BY <1>2, CopyIs
  <2>3. line[t] \notin ToSet(file)
    BY <2>2 DEF Once
  <2>4. /\ IsInjective(copy'[t])
        /\ ToSet(copy'[t]) \subseteq logged \cup {line[t]}
    BY <2>2, <2>3, LinesAre, AppendIs DEF Once
  <2> QED
    BY <2>1, <2>2, <2>4 DEF Once
<1>3. ASSUME NEW t \in Threads, Replace(t)
      PROVE  Once'
  <2>1. /\ pc[t] = "replace" /\ file' = copy[t] /\ logged' = logged \cup {line[t]}
        /\ Return(t) /\ UNCHANGED kept
    BY <1>3 DEF Replace, purging
  <2>2. /\ pc'[t] = "idle" /\ line'[t] = 0
        /\ \A u \in Threads \ {t} :
             pc'[u] = pc[u] /\ line'[u] = line[u] /\ copy'[u] = copy[u]
        /\ \A u \in Threads : pc[u] # "idle" => line[u] # 0
    BY <2>1, ReturnIs DEF TypeOK
  <2>3. \A u \in Threads \ {t} : pc[u] # "idle" => line[u] # line[t]
    BY DEF Once
  <2> QED
    BY <2>1, <2>2, <2>3 DEF Once
<1>4. ASSUME NEW t \in Threads, AppendFails(t)
      PROVE  Once'
  <2>1. Return(t) /\ UNCHANGED <<file, kept, logged>>
    BY <1>4 DEF AppendFails, purging
  <2>2. /\ pc'[t] = "idle" /\ line'[t] = 0
        /\ \A u \in Threads \ {t} :
             pc'[u] = pc[u] /\ line'[u] = line[u] /\ copy'[u] = copy[u]
        /\ \A u \in Threads : pc[u] # "idle" => line[u] # 0
    BY <2>1, ReturnIs DEF TypeOK
  <2> QED
    BY <2>1, <2>2 DEF Once
<1>5. CASE PurgeRead
  <2>1. UNCHANGED <<file, line, copy, pc, logged>> /\ kept' = Younger(file, cutoff)
    BY <1>5 DEF PurgeRead, appending
  <2>2. IsInjective(kept') /\ ToSet(kept') \subseteq logged
    BY <2>1, PurgeFinds DEF Once
  <2> QED
    BY <2>1, <2>2 DEF Once
<1>6. ASSUME file' \in {kept, <<>>, file}, kept' \in {kept, <<>>},
             UNCHANGED appending
      PROVE  Once'
  <2>1. IsInjective(<<>>) /\ ToSet(<<>>) = {}
    BY DEF IsInjective, ToSet
  <2> QED
    BY <1>6, <2>1 DEF Once, appending
<1>7. CASE PurgeReplace \/ PurgeFails \/ Clear \/ Age
  BY <1>6, <1>7 DEF PurgeReplace, PurgeFails, Clear, Age, purging
<1> QED
  BY <1>1, <1>2, <1>3, <1>4, <1>5, <1>7 DEF Next, Write

-----------------------------------------------------------------------------
(* The log is exact while no two rewrites overlap *)

LEMMA BeginsAlone ==
  ASSUME TypeOK, Begins, ~overlap'
  PROVE  ~overlap /\ purge = "idle" /\ \A t \in Threads : pc[t] = "idle"
BY DEF TypeOK, Begins, Writers

LEMMA StepSolo ==
  ASSUME TypeOK, Once, Solo, Next
  PROVE  Solo'
<1> SUFFICES ASSUME ~overlap'
             PROVE  OneWriter' /\ AppendKnows' /\ PurgeKnows' /\ Exact'
  BY DEF Solo
<1>0. ~overlap' /\ overlap' = overlap => OneWriter /\ AppendKnows /\ PurgeKnows /\ Exact
  BY DEF Solo
<1>1. ASSUME NEW t \in Threads, Stamp(t)
      PROVE  OneWriter' /\ AppendKnows' /\ PurgeKnows' /\ Exact'
  <2>1. Begins /\ UNCHANGED <<file, purge, kept, logged, dropped>>
    BY <1>1 DEF Stamp, purging
  <2>2. ~overlap /\ purge = "idle" /\ \A u \in Threads : pc[u] = "idle"
    BY <2>1, BeginsAlone
  <2>3. /\ line'[t] = clock' /\ pc'[t] = "read"
        /\ \A u \in Threads \ {t} : pc'[u] = "idle"
    BY <1>1, <2>2, StampIs
  <2>4. Exact'
    BY <2>1, <2>2 DEF Solo, Exact, LinesKept
  <2> QED
    BY <2>1, <2>2, <2>3, <2>4 DEF OneWriter, AppendKnows, PurgeKnows
<1>2. ASSUME NEW t \in Threads, Copy(t)
      PROVE  OneWriter' /\ AppendKnows' /\ PurgeKnows' /\ Exact'
  <2>1. UNCHANGED <<file, clock, cutoff, line, purge, kept, logged, dropped, overlap>>
    BY <1>2 DEF Copy, purging
  <2>2. /\ pc[t] = "read" /\ pc'[t] = "replace" /\ copy'[t] = Append(file, line[t])
        /\ \A u \in Threads \ {t} : pc'[u] = pc[u] /\ copy'[u] = copy[u]
    BY <1>2, CopyIs
  <2>3. Exact' /\ PurgeKnows'
    BY <1>0, <2>1 DEF Exact, LinesKept, PurgeKnows
  <2>4. OneWriter' /\ AppendKnows'
    BY <1>0, <2>1, <2>2 DEF OneWriter, AppendKnows
  <2> QED
    BY <2>3, <2>4
<1>3. ASSUME NEW t \in Threads, Return(t), pc[t] # "idle",
             UNCHANGED <<clock, purge, overlap>>
      PROVE  purge = "idle" /\ OneWriter' /\ AppendKnows' /\ PurgeKnows'
  <2>1. /\ purge = "idle"
        /\ \A u \in Threads \ {t} : pc[u] = "idle"
    BY <1>0, <1>3 DEF OneWriter
  <2>2. \A u \in Threads : pc'[u] = "idle"
    BY <1>3, <2>1, ReturnIs
  <2> QED
    BY <1>3, <2>1, <2>2 DEF OneWriter, AppendKnows, PurgeKnows
<1>4. ASSUME NEW t \in Threads, Replace(t)
      PROVE  OneWriter' /\ AppendKnows' /\ PurgeKnows' /\ Exact'
  <2>1. /\ pc[t] = "replace" /\ file' = copy[t] /\ logged' = logged \cup {line[t]}
        /\ Return(t) /\ UNCHANGED <<clock, purge, dropped, overlap>>
    BY <1>4 DEF Replace, purging
  <2>2. copy[t] = Append(file, line[t]) /\ line[t] = clock /\ Exact
    BY <1>0, <2>1 DEF AppendKnows, OneWriter
  <2>3. line[t] \notin logged /\ ToSet(file) \subseteq logged /\ dropped \subseteq logged
    BY <2>1 DEF Once, TypeOK
  <2>4. \A x \in ToSet(file) : x < line[t]
    <3>1. logged \subseteq 1..clock /\ clock \in Nat
      BY <2>2, LinesAre DEF TypeOK
    <3>2. ASSUME NEW x \in ToSet(file) PROVE x < line[t]
      <4>1. x \in 1..clock /\ x # clock
        BY <2>2, <2>3, <3>1
      <4> QED
        BY <2>2, <3>1, <4>1
    <3> QED
      BY <3>2
  <2>5. ToSet(file') = ToSet(file) \cup {line[t]} /\ Sorted(file')
    BY <2>1, <2>2, <2>4, LinesAre, AppendIs DEF Exact
  <2>6. Exact'
    BY <2>1, <2>2, <2>3, <2>5 DEF Exact, LinesKept
  <2> QED
    BY <1>3, <2>1, <2>6
<1>5. ASSUME NEW t \in Threads, AppendFails(t)
      PROVE  OneWriter' /\ AppendKnows' /\ PurgeKnows' /\ Exact'
  <2>1. /\ pc[t] # "idle" /\ Return(t)
        /\ UNCHANGED <<file, clock, purge, logged, dropped, overlap>>
    BY <1>5 DEF AppendFails, purging
  <2>2. Exact'
    BY <1>0, <2>1 DEF Exact, LinesKept
  <2> QED
    BY <1>3, <2>1, <2>2
<1>6. CASE PurgeRead
  <2>1. /\ Begins /\ kept' = Younger(file, cutoff)
        /\ UNCHANGED <<file, cutoff, pc, logged, dropped>>
    BY <1>6 DEF PurgeRead, appending
  <2>2. ~overlap /\ purge = "idle" /\ \A u \in Threads : pc[u] = "idle"
    BY <2>1, BeginsAlone
  <2>3. Exact'
    BY <2>1, <2>2 DEF Solo, Exact, LinesKept
  <2>4. Sorted(kept') /\ ToSet(kept') = {l \in ToSet(file) : l > cutoff}
    BY <2>1, <2>2, PurgeFinds DEF Solo, Exact
  <2>5. \A l \in ToSet(file) : l \in Nat /\ cutoff \in Nat
    BY LinesAre
  <2>6. PurgeKnows'
    BY <2>1, <2>4, <2>5 DEF PurgeKnows
  <2> QED
    BY <2>1, <2>2, <2>3, <2>6 DEF OneWriter, AppendKnows
<1>7. CASE PurgeReplace
  <2>1. /\ purge = "replace" /\ purge' = "idle" /\ file' = kept
        /\ dropped' = dropped \cup {l \in ToSet(file) \ ToSet(kept) : l <= cutoff}
        /\ UNCHANGED <<pc, logged, overlap>>
    BY <1>7 DEF PurgeReplace, appending
  <2>2. /\ Sorted(kept) /\ ToSet(kept) \subseteq ToSet(file) /\ Exact
        /\ \A l \in ToSet(file) \ ToSet(kept) : l <= cutoff
        /\ \A t \in Threads : pc[t] = "idle"
    BY <1>0, <2>1 DEF PurgeKnows, OneWriter
  <2>3. Exact'
    BY <2>1, <2>2 DEF Exact, LinesKept
  <2> QED
    BY <2>1, <2>2, <2>3 DEF OneWriter, AppendKnows, PurgeKnows
<1>8. CASE Clear
  <2>1. /\ Begins /\ file' = <<>> /\ dropped' = dropped \cup ToSet(file)
        /\ UNCHANGED <<pc, purge, logged>>
    BY <1>8 DEF Clear, appending, purging
  <2>2. ~overlap /\ purge = "idle" /\ \A u \in Threads : pc[u] = "idle"
    BY <2>1, BeginsAlone
  <2>3. ToSet(<<>>) = {} /\ Sorted(<<>>)
    BY DEF ToSet, Sorted
  <2>4. Exact'
    BY <2>1, <2>2, <2>3 DEF Solo, Exact, LinesKept
  <2> QED
    BY <2>1, <2>2, <2>4 DEF OneWriter, AppendKnows, PurgeKnows
<1>9. CASE Age
  <2>1. /\ cutoff' = cutoff + 1
        /\ UNCHANGED <<file, clock, line, copy, pc, purge, kept, logged, dropped, overlap>>
    BY <1>9 DEF Age, appending, purging
  <2>2. \A l \in ToSet(file) : l \in Nat /\ cutoff \in Nat
    BY LinesAre
  <2>3. PurgeKnows'
    BY <1>0, <2>1, <2>2 DEF PurgeKnows
  <2> QED
    BY <1>0, <2>1, <2>3 DEF OneWriter, AppendKnows, Exact, LinesKept
<1>10. CASE PurgeFails
  <2>1. /\ purge' = "idle"
        /\ UNCHANGED <<file, clock, line, copy, pc, logged, dropped, overlap>>
    BY <1>10 DEF PurgeFails, appending
  <2> QED
    BY <1>0, <2>1 DEF OneWriter, AppendKnows, PurgeKnows, Exact, LinesKept
<1> QED
  BY <1>1, <1>2, <1>4, <1>5, <1>6, <1>7, <1>8, <1>9, <1>10 DEF Next, Write

-----------------------------------------------------------------------------
(* The theorems *)

LEMMA InductiveHolds == Spec => []Inductive
<1>1. Inductive /\ [Next]_vars => Inductive'
  <2> SUFFICES ASSUME Inductive, [Next]_vars
               PROVE  Inductive'
    OBVIOUS
  <2>1. CASE Next
    BY <2>1, StepTypes, StepOnce, StepSolo DEF Inductive
  <2>2. CASE UNCHANGED vars
    BY <2>2 DEF vars, Inductive, TypeOK, Once, Solo, OneWriter, AppendKnows,
       PurgeKnows, Exact, LinesKept
  <2> QED
    BY <2>1, <2>2
<1> QED
  BY <1>1, InitInductive, PTL DEF Spec

\* Every variable has its type: a thread has a line exactly while it appends, and
\* what was purged or cleared had been logged.
THEOREM TypeCorrect == Spec => []TypeOK
<1>1. Inductive => TypeOK
  BY DEF Inductive
<1> QED
  BY <1>1, InductiveHolds, PTL

\* However the rewrites of append, purge_older_than and clear overlap, for any
\* number of threads and lines, the file repeats no line and has none of an append
\* that has not returned.
THEOREM NoRepeat == Spec => []OnceEach
<1>1. Inductive => OnceEach
  BY DEF Inductive, Once, OnceEach
<1> QED
  BY <1>1, InductiveHolds, PTL

\* As long as no two of those rewrites overlapped, the file has exactly the lines
\* logged and neither purged nor cleared, in the order of their stamps.
THEOREM ExactAlone == Spec => []SoloExact
<1>1. Inductive => SoloExact
  BY DEF Inductive, Solo, Exact, Sorted, SoloExact
<1> QED
  BY <1>1, InductiveHolds, PTL
=============================================================================
