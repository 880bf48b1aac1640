----------------------------- MODULE PageProofs -----------------------------
(***************************************************************************)
(* Proofs about the two parts of the management page that share nothing:   *)
(* its live log (UiLog) and its provider table (UiTable).                  *)
(***************************************************************************)
EXTENDS UiLog, UiTable, WellFoundedInduction, TLAPS

-----------------------------------------------------------------------------
(* Induction over the numbers up to n, stated for sets *)

LEMMA Least ==
  ASSUME NEW U, U \subseteq Nat, U # {}
  PROVE  \E m \in U : \A x \in U : m <= x
<1> DEFINE R == {ss \in Nat \X Nat : ss[1] < ss[2]}
<1>1. IsWellFoundedOn(R, Nat)
  BY NatLessThanWellFounded DEF OpToRel
<1>2. \A x, y \in Nat : x < y => <<x, y>> \in R
  OBVIOUS
<1> HIDE DEF R
<1>3. PICK m \in U : \A x \in U : ~(<<x, m>> \in R)
  BY <1>1, WFMin
<1>4. ASSUME NEW x \in U PROVE m <= x
  <2>1. x \in Nat /\ m \in Nat /\ ~(x < m)
    BY <1>2, <1>3
  <2> QED
    BY <2>1
<1> QED
  BY <1>4

LEMMA Greatest ==
  ASSUME NEW n \in Nat, NEW S, S \subseteq 0..n, S # {}
  PROVE  Max(S) \in S /\ \A x \in S : x <= Max(S)
<1> DEFINE U == {n - x : x \in S}
<1>1. U \subseteq Nat /\ U # {}
  <2>1. \A x \in S : x \in 0..n /\ n - x \in Nat
    OBVIOUS
  <2> QED
    BY <2>1
<1>2. PICK m \in U : \A x \in U : m <= x
  <2> HIDE DEF U
  <2> QED
    BY <1>1, Least
<1>3. PICK a \in S : m = n - a
  OBVIOUS
<1>4. \A x \in S : n - x \in U
  OBVIOUS
<1> HIDE DEF U
<1>5. \A x \in S : a >= x
  BY <1>2, <1>3, <1>4
<1> QED
  BY <1>5 DEF Max

LEMMA UpTo ==
  ASSUME NEW n \in Nat, NEW T, 0 \in T,
         \A i \in 1..n : i - 1 \in T => i \in T
  PROVE  0..n \subseteq T
<1> DEFINE U == (0..n) \ T
<1> SUFFICES ASSUME U # {} PROVE FALSE
  OBVIOUS
<1>1. U \subseteq Nat
  OBVIOUS
<1>2. PICK m \in U : \A x \in U : m <= x
  <2> HIDE DEF U
  <2> QED
    BY <1>1, Least
<1>3. m \in 1..n /\ m - 1 \in 0..n /\ ~(m <= m - 1)
  OBVIOUS
<1>4. m - 1 \in T
  BY <1>2, <1>3
<1>5. m \in T
  BY <1>3, <1>4
<1> QED
  BY <1>5

\* A function that starts with x0 and goes on by the steps in `step`.
StepsOf(n, X) == [1..n -> [X -> X]]

Follows(g, n, X, x0, step) ==
  /\ g \in [0..n -> X]
  /\ g[0] = x0
  /\ \A i \in 1..n : g[i] = step[i][g[i - 1]]

\* Such a function exists, so that a recursive definition has its meaning.
LEMMA Steps ==
  ASSUME NEW n \in Nat, NEW X, NEW x0 \in X, NEW step \in StepsOf(n, X)
  PROVE  \E g : Follows(g, n, X, x0, step)
<1> DEFINE Good(m) == \E g \in [0..m -> X] :
                        g[0] = x0 /\ \A i \in 1..m : g[i] = step[i][g[i - 1]]
           T == {m \in 0..n : Good(m)}
<1>1. Good(0)
  <2> DEFINE g == [i \in 0..0 |-> x0]
  <2>1. g \in [0..0 -> X] /\ g[0] = x0 /\ 1..0 = {}
    OBVIOUS
  <2> HIDE DEF g
  <2> QED
    BY <2>1
<1>2. ASSUME NEW m \in 1..n, Good(m - 1) PROVE Good(m)
  <2>0. step \in [1..n -> [X -> X]]
    BY DEF StepsOf
  <2>1. PICK g \in [0..(m - 1) -> X] :
          g[0] = x0 /\ \A i \in 1..(m - 1) : g[i] = step[i][g[i - 1]]
    BY <1>2
  <2> DEFINE h == [i \in 0..m |-> IF i < m THEN g[i] ELSE step[m][g[m - 1]]]
  <2>2. g[m - 1] \in X /\ step[m][g[m - 1]] \in X
    BY <2>0
  <2>3. h \in [0..m -> X] /\ h[0] = x0
    BY <2>1, <2>2
  <2>4. ASSUME NEW i \in 1..m PROVE h[i] = step[i][h[i - 1]]
    BY <2>1
  <2> HIDE DEF h
  <2> QED
    BY <2>3, <2>4
<1>3. 0 \in T /\ \A i \in 1..n : i - 1 \in T => i \in T
  <2> HIDE DEF Good
  <2>1. 0 \in T
    BY <1>1
  <2>2. ASSUME NEW i \in 1..n, i - 1 \in T PROVE i \in T
    <3>1. Good(i - 1) /\ i \in 0..n
      BY <2>2
    <3> QED
      BY <1>2, <3>1
  <2> QED
    BY <2>1, <2>2
<1>4. n \in T
  <2> HIDE DEF T
  <2>1. 0..n \subseteq T
    BY <1>3, UpTo
  <2> QED
    BY <2>1
<1> QED
  BY <1>4 DEF Follows

-----------------------------------------------------------------------------
(* Sequences *)

LEMMA AppendIs ==
  ASSUME NEW S, NEW s \in Seq(S), NEW e \in S
  PROVE  /\ Append(s, e) \in Seq(S) /\ Len(Append(s, e)) = Len(s) + 1
         /\ DOMAIN s = 1..Len(s) /\ Len(s) \in Nat
         /\ DOMAIN Append(s, e) = 1..(Len(s) + 1)
         /\ Append(s, e)[Len(s) + 1] = e
         /\ \A i \in 1..Len(s) : Append(s, e)[i] = s[i]
         /\ ToSet(Append(s, e)) = ToSet(s) \cup {e}
<1> DEFINE a == Append(s, e)
           n == Len(s)
<1>1. /\ n \in Nat /\ DOMAIN s = 1..n /\ a \in Seq(S) /\ Len(a) = n + 1
      /\ DOMAIN a = 1..(n + 1) /\ a[n + 1] = e
      /\ \A i \in 1..n : a[i] = s[i]
  OBVIOUS
<1>2. ToSet(s) = {s[i] : i \in 1..n} /\ ToSet(a) = {a[i] : i \in 1..(n + 1)}
  BY <1>1 DEF ToSet
<1>3. 1..(n + 1) = (1..n) \cup {n + 1}
  BY <1>1
<1> HIDE DEF a, n
<1>4. {a[i] : i \in 1..(n + 1)} = {a[i] : i \in 1..n} \cup {a[n + 1]}
  BY <1>3
<1>5. {a[i] : i \in 1..n} = {s[i] : i \in 1..n}
  BY <1>1
<1> QED
  BY <1>1, <1>2, <1>4, <1>5 DEF a, n

LEMMA TailIs ==
  ASSUME NEW S, NEW s \in Seq(S), s # <<>>
  PROVE  /\ Tail(s) \in Seq(S) /\ Len(Tail(s)) = Len(s) - 1 /\ Len(s) \in Nat \ {0}
         /\ Head(s) = s[1] /\ Head(s) \in S
         /\ DOMAIN s = 1..Len(s) /\ DOMAIN Tail(s) = 1..(Len(s) - 1)
         /\ \A i \in 1..(Len(s) - 1) : Tail(s)[i] = s[i + 1]
         /\ ToSet(s) = ToSet(Tail(s)) \cup {Head(s)}
<1> DEFINE t == Tail(s)
           n == Len(s) - 1
<1>1. /\ n \in Nat /\ DOMAIN s = 1..(n + 1) /\ t \in Seq(S) /\ Len(t) = n
      /\ DOMAIN t = 1..n /\ Head(s) = s[1] /\ s[1] \in S /\ Len(s) = n + 1
      /\ \A i \in 1..n : t[i] = s[i + 1]
  OBVIOUS
<1>2. ToSet(t) = {t[i] : i \in 1..n} /\ ToSet(s) = {s[i] : i \in 1..(n + 1)}
  BY <1>1 DEF ToSet
<1>3. /\ \A i \in 1..(n + 1) : i = 1 \/ (i - 1 \in 1..n /\ i = (i - 1) + 1)
      /\ \A i \in 1..n : i + 1 \in 1..(n + 1)
      /\ 1 \in 1..(n + 1)
  BY <1>1
<1> HIDE DEF t, n
<1>4. {s[i] : i \in 1..(n + 1)} = {t[i] : i \in 1..n} \cup {s[1]}
  BY <1>1, <1>3
<1> QED
  BY <1>1, <1>2, <1>4 DEF t, n

-----------------------------------------------------------------------------
(* The live log: the inductive invariant *)

\* A line of a run that has an id, which it keeps.
Known(line) == line # NoRun => stored[line[1]] # 0

Lines == {line \in Events \cup {NoRun} : Known(line)}

\* Runs come into being one after the other, and none with an id above its number.
RunsInOrder ==
  /\ \A r, q \in Runs : r < q /\ stored[r] = 0 => stored[q] = 0
  /\ \A r \in Runs : IF stored[r] = 0 THEN id[r] = 0 ELSE id[r] \in 1..r

\* Every line on its way to the page, or on it, is of a run with an id.
Answers == [pc : {"none", "sent", "served"}, rows : Seq(Lines \ {NoRun})]

LinesKnown ==
  wire \in Seq(Lines) /\ poll \in [Polls -> Answers] /\ box \in Seq(Lines)

\* What TypeOK says besides of lines and their ids.
ServerTypes ==
  /\ stored \in [Runs -> Deleted..Stages] /\ told \in [Runs -> 0..Stages]
  /\ id \in [Runs -> 0..MaxRuns]

PageTypes ==
  /\ conn \in {"closed", "connecting", "open"} /\ Len(wire) <= MaxWire
  /\ retry \in BOOLEAN /\ openTimer \in BOOLEAN /\ polling \in BOOLEAN
  /\ Len(box) <= MaxLines /\ clears \in 0..MaxClears

LogInductive ==
  ServerTypes /\ PageTypes /\ RunsInOrder /\ LinesKnown /\ SeenShown

\* The logs that agree with themselves: SeenShown and the types of one.
Ids(lines) == {EventId(line) : line \in ToSet(lines)} \ {NoRun}

Distinct(lines) ==
  \A i, j \in DOMAIN lines :
    EventId(lines[i]) = EventId(lines[j]) /\ lines[i] # NoRun => i = j

Logs == {log \in [box : Seq(Lines), seen : SUBSET Events] :
           /\ Len(log.box) <= MaxLines
           /\ log.seen = Ids(log.box) /\ Distinct(log.box)}

-----------------------------------------------------------------------------
(* What appendLog does to such a log *)

LEMMA LineIds ==
  ASSUME RunsInOrder, NEW line \in Lines
  PROVE  \/ line = NoRun /\ EventId(line) = NoRun
         \/ line # NoRun /\ EventId(line) # NoRun /\ EventId(line) \in Events
                         /\ line \in Events
<1>1. CASE line = NoRun
  BY <1>1 DEF EventId
<1>2. CASE line # NoRun
  <2>1. line \in Runs \X (1..Stages) /\ stored[line[1]] # 0
    BY <1>2 DEF Lines, Known, Events
  <2>2. line[1] \in Runs /\ line[2] \in 1..Stages /\ id[line[1]] \in 1..line[1]
    BY <2>1 DEF RunsInOrder
  <2>3. id[line[1]] \in Runs /\ id[line[1]] # 0
    BY <2>2, UiLogAssumption DEF Runs
  <2> QED
    BY <1>2, <2>1, <2>2, <2>3 DEF EventId, Events, NoRun
<1> QED
  BY <1>1, <1>2

LEMMA AppendLogKeeps ==
  ASSUME RunsInOrder, NEW log \in Logs, NEW line \in Lines
  PROVE  AppendLog(log, line) \in Logs
<1> DEFINE long == Append(log.box, line)
           ids == log.seen \cup ({EventId(line)} \ {NoRun})
           n == Len(log.box)
<1>1. /\ log.box \in Seq(Lines) /\ n <= MaxLines
      /\ log.seen = Ids(log.box) /\ Distinct(log.box)
  BY DEF Logs
<1>2. CASE EventId(line) \in log.seen
  BY <1>2 DEF AppendLog
<1>3. CASE EventId(line) \notin log.seen
  <2>1. /\ long \in Seq(Lines) /\ Len(long) = n + 1 /\ n \in Nat
        /\ DOMAIN log.box = 1..n /\ DOMAIN long = 1..(n + 1)
        /\ long[n + 1] = line /\ \A i \in 1..n : long[i] = log.box[i]
        /\ ToSet(long) = ToSet(log.box) \cup {line}
    BY <1>1, AppendIs
  <2>2. \A l \in ToSet(long) : l \in Lines
    BY <2>1 DEF ToSet
  <2> HIDE DEF long, n
  <2>3. ids = Ids(long)
    BY <1>1, <2>1 DEF Ids
  <2>4. ids \subseteq Events
    BY <2>2, <2>3, LineIds DEF Ids
  <2>5. \A i \in 1..n : log.box[i] # NoRun => EventId(log.box[i]) \in log.seen
    <3> SUFFICES ASSUME NEW i \in 1..n, log.box[i] # NoRun
                 PROVE  EventId(log.box[i]) \in log.seen
      OBVIOUS
    <3>1. log.box[i] \in ToSet(log.box) /\ log.box[i] \in Lines
      BY <2>1, <2>2 DEF ToSet
    <3> QED
      BY <1>1, <3>1, LineIds DEF Ids
  <2>6. Distinct(long)
    <3> SUFFICES ASSUME NEW i \in DOMAIN long, NEW j \in DOMAIN long,
                        EventId(long[i]) = EventId(long[j]), long[i] # NoRun
                 PROVE  i = j
      BY DEF Distinct
    <3>1. long[j] # NoRun
      <4>1. long[i] \in Lines /\ long[j] \in Lines
        BY <2>1, <2>2 DEF ToSet
      <4> QED
        BY <4>1, LineIds
    <3>2. CASE i \in 1..n /\ j \in 1..n
      BY <1>1, <2>1, <3>2 DEF Distinct
    <3>3. CASE i = n + 1 /\ j \in 1..n
      BY <1>3, <2>1, <2>5, <3>1, <3>3
    <3>4. CASE i \in 1..n /\ j = n + 1
      BY <1>3, <2>1, <2>5, <3>4
    <3>5. CASE i = n + 1 /\ j = n + 1
      BY <3>5
    <3> QED
      BY <2>1, <3>2, <3>3, <3>4, <3>5
  <2>7. CASE Len(long) <= MaxLines
    <3>1. AppendLog(log, line) = [box |-> long, seen |-> ids]
      BY <1>3, <2>1, <2>7, UiLogAssumption DEF AppendLog, long
    <3> HIDE DEF ids
    <3> QED
      BY <2>1, <2>3, <2>4, <2>6, <2>7, <3>1 DEF Logs
  <2>8. CASE Len(long) > MaxLines
    <3> DEFINE t == Tail(long)
               out == EventId(Head(long))
    <3>1. AppendLog(log, line) = [box |-> t, seen |-> ids \ {out}]
      BY <1>3, <2>8 DEF AppendLog, long
    <3>2. /\ t \in Seq(Lines) /\ Len(t) = n /\ Head(long) = long[1]
          /\ DOMAIN t = 1..n /\ \A i \in 1..n : t[i] = long[i + 1]
          /\ ToSet(long) = ToSet(t) \cup {long[1]}
      BY <2>1, TailIs
    <3>3. \A i \in 1..n : i + 1 \in 1..(n + 1) /\ i + 1 # 1
      BY <2>1
    <3> HIDE DEF t
    <3>4. Distinct(t)
      <4> SUFFICES ASSUME NEW i \in 1..n, NEW j \in 1..n,
                          EventId(t[i]) = EventId(t[j]), t[i] # NoRun
                   PROVE  i = j
        BY <3>2 DEF Distinct
      <4>0. /\ i + 1 \in DOMAIN long /\ j + 1 \in DOMAIN long
            /\ t[i] = long[i + 1] /\ t[j] = long[j + 1]
        BY <2>1, <3>2, <3>3
      <4>1. i + 1 = j + 1
        BY <2>6, <4>0 DEF Distinct
      <4> QED
        BY <4>1
    <3>5. long[1] # NoRun => out \notin Ids(t)
      <4> SUFFICES ASSUME long[1] # NoRun, NEW l \in ToSet(t), EventId(l) = out
                   PROVE  FALSE
        BY DEF Ids
      <4>1. PICK i \in 1..n : l = long[i + 1]
        BY <3>2 DEF ToSet
      <4>2. 1 \in DOMAIN long /\ i + 1 \in DOMAIN long
        BY <2>1, <3>3
      <4>3. 1 = i + 1
        BY <2>6, <3>2, <4>1, <4>2 DEF Distinct
      <4> QED
        BY <3>3, <4>3
    <3>6. ids \ {out} = Ids(t)
      <4>1. ids = Ids(t) \cup ({out} \ {NoRun})
        BY <2>3, <3>2 DEF Ids
      <4>2. long[1] = NoRun => out = NoRun
        BY <3>2 DEF EventId
      <4>3. NoRun \notin Ids(t)
        BY DEF Ids
      <4> QED
        BY <3>5, <4>1, <4>2, <4>3
    <3> HIDE DEF ids, out
    <3>7. n <= MaxLines /\ ids \ {out} \subseteq Events
      BY <1>1, <2>4 DEF n
    <3> DEFINE seen2 == ids \ {out}
               log2 == [box |-> t, seen |-> seen2]
    <3>8. /\ log2 \in [box : Seq(Lines), seen : SUBSET Events]
          /\ log2.box = t /\ log2.seen = seen2
      <4> HIDE DEF seen2
      <4>1. seen2 \subseteq Events
        BY <3>7 DEF seen2
      <4> QED
        BY <3>2, <4>1
    <3>9. AppendLog(log, line) = log2
      BY <3>1
    <3> HIDE DEF log2
    <3> QED
      BY <3>2, <3>4, <3>6, <3>7, <3>8, <3>9 DEF Logs
  <2> QED
    BY <2>1, <2>7, <2>8, UiLogAssumption
<1> QED
  BY <1>2, <1>3

\* appendLog for one line after the other (a poll's answer).
LEMMA AppendLogsKeeps ==
  ASSUME RunsInOrder, NEW log \in Logs, NEW lines \in Seq(Lines)
  PROVE  AppendLogs(log, lines) \in Logs
<1> DEFINE n == Len(lines)
           Step(i, k) == AppendLog(k, lines[i])
           step == [i \in 1..n |-> [k \in Logs |-> Step(i, k)]]
           Eq(g) == g = [i \in 0..n |-> IF i = 0 THEN log ELSE Step(i, g[i - 1])]
           after == CHOOSE g : Eq(g)
<1>1. /\ n \in Nat /\ 0 \in 0..n /\ \A i \in 1..n : lines[i] \in Lines
      /\ \A i \in 1..n : i \in 0..n /\ i # 0 /\ i - 1 \in 0..n
      /\ \A i \in 0..n : i = 0 \/ i \in 1..n
  OBVIOUS
<1> HIDE DEF n
<1>2. \A i \in 1..n : \A k \in Logs : Step(i, k) \in Logs
  BY <1>1, AppendLogKeeps
<1> HIDE DEF Step
<1>3. Eq(after)
  <2>1. step \in StepsOf(n, Logs)
    BY <1>2 DEF StepsOf
  <2>2. PICK g : Follows(g, n, Logs, log, step)
    <3> HIDE DEF step
    <3> QED
      BY <1>1, <2>1, Steps
  <2>3. \A i \in 1..n : g[i - 1] \in Logs /\ g[i] = Step(i, g[i - 1])
    BY <1>1, <2>2 DEF Follows
  <2> HIDE DEF step
  <2>4. Eq(g)
    BY <1>1, <2>2, <2>3 DEF Follows
  <2> HIDE DEF Eq
  <2> QED
    BY <2>4
<1>4. AppendLogs(log, lines) = after[n]
  BY DEF AppendLogs, Step, n
<1> HIDE DEF after
<1>5. after[0] = log /\ \A i \in 1..n : after[i] = Step(i, after[i - 1])
  BY <1>1, <1>3
<1> DEFINE T == {i \in 0..n : after[i] \in Logs}
<1>6. 0 \in T /\ \A i \in 1..n : i - 1 \in T => i \in T
  BY <1>1, <1>2, <1>5
<1>7. 0..n \subseteq T
  <2> HIDE DEF T
  <2> QED
    BY <1>1, <1>6, UpTo
<1>8. n \in 0..n
  BY <1>1
<1> QED
  BY <1>4, <1>7, <1>8

-----------------------------------------------------------------------------
(* What the server answers *)

LEMMA AnswerIs ==
  ASSUME ServerTypes
  PROVE  NewestRows \in Seq(Lines \ {NoRun})
<1> DEFINE n == MaxRuns
           X == Seq(Lines \ {NoRun})
           Step(r, k) ==
             IF r \in Newest THEN Append(k, <<r, stored[r]>>) ELSE k
           step == [r \in 1..n |-> [k \in X |-> Step(r, k)]]
           Eq(g) == g = [r \in 0..n |-> IF r = 0 THEN <<>> ELSE Step(r, g[r - 1])]
           rows == CHOOSE g : Eq(g)
<1>1. /\ n \in Nat /\ 0 \in 0..n
      /\ \A i \in 1..n : i \in 0..n /\ i # 0 /\ i - 1 \in 0..n
      /\ \A i \in 0..n : i = 0 \/ i \in 1..n
  BY UiLogAssumption
<1>2. \A r \in Newest : <<r, stored[r]>> \in Lines \ {NoRun}
  <2> SUFFICES ASSUME NEW r \in Runs, stored[r] > 0, stored[r] \in Deleted..Stages
               PROVE  <<r, stored[r]>> \in Lines \ {NoRun}
    BY DEF Newest, Alive, ServerTypes
  <2>1. r \in 1..MaxRuns /\ stored[r] \in 1..Stages /\ stored[r] # 0
    BY UiLogAssumption DEF Runs, Deleted
  <2> QED
    BY <2>1 DEF Lines, Known, Events, NoRun, Runs
<1>3. \A r \in 1..n : \A k \in X : Step(r, k) \in X
  BY <1>2
<1>4. <<>> \in X
  OBVIOUS
<1> HIDE DEF n, X, Step
<1>5. Eq(rows)
  <2>1. step \in StepsOf(n, X)
    BY <1>3 DEF StepsOf
  <2>2. PICK g : Follows(g, n, X, <<>>, step)
    <3> HIDE DEF step
    <3> QED
      BY <1>1, <1>4, <2>1, Steps
  <2>3. \A i \in 1..n : g[i - 1] \in X /\ g[i] = Step(i, g[i - 1])
    BY <1>1, <2>2 DEF Follows
  <2> HIDE DEF step
  <2>4. Eq(g)
    BY <1>1, <2>2, <2>3 DEF Follows
  <2> HIDE DEF Eq
  <2> QED
    BY <2>4
<1>6. NewestRows = rows[n]
  BY DEF NewestRows, Step, n
<1> HIDE DEF rows
<1>7. rows[0] = <<>> /\ \A i \in 1..n : rows[i] = Step(i, rows[i - 1])
  BY <1>1, <1>5
<1> DEFINE T == {i \in 0..n : rows[i] \in X}
<1>8. 0 \in T /\ \A i \in 1..n : i - 1 \in T => i \in T
  BY <1>1, <1>3, <1>4, <1>7
<1>9. 0..n \subseteq T
  <2> HIDE DEF T
  <2> QED
    BY <1>1, <1>8, UpTo
<1>10. n \in 0..n
  BY <1>1
<1> QED
  BY <1>6, <1>9, <1>10 DEF X

-----------------------------------------------------------------------------
(* Every step keeps the invariant *)

LEMMA LogInit == Init => LogInductive
<1> SUFFICES ASSUME Init PROVE LogInductive
  OBVIOUS
<1>1. <<>> \in Seq(Lines) /\ <<>> \in Seq(Lines \ {NoRun}) /\ Len(<<>>) = 0
  OBVIOUS
<1>2. ServerTypes /\ PageTypes
  <2>1. /\ 0 \in Deleted..Stages /\ 0 \in 0..Stages /\ 0 \in 0..MaxRuns
        /\ 0 \in 0..MaxClears /\ 0 <= MaxWire /\ 0 <= MaxLines
    BY UiLogAssumption DEF Deleted
  <2> QED
    BY <1>1, <2>1 DEF Init, ServerTypes, PageTypes
<1>3. RunsInOrder
  BY DEF Init, RunsInOrder
<1>4. LinesKnown
  BY <1>1 DEF Init, LinesKnown, Answers, None
<1>5. SeenShown
  BY DEF Init, SeenShown, ToSet
<1> QED
  BY <1>2, <1>3, <1>4, <1>5 DEF LogInductive

LEMMA SeqGrows ==
  ASSUME NEW A, NEW B, A \subseteq B, NEW s \in Seq(A)
  PROVE  s \in Seq(B)
OBVIOUS

\* The lines stay known, and keep their ids, while runs keep theirs.
LEMMA LinesStay ==
  ASSUME LogInductive, UNCHANGED <<poll, page>>,
         \A r \in Runs : stored[r] # 0 => stored'[r] # 0 /\ id'[r] = id[r],
         wire' \in Seq(Lines')
  PROVE  LinesKnown' /\ SeenShown'
<1>1. Lines \subseteq Lines'
  BY DEF Lines, Known, Events
<1>2. Answers \subseteq Answers'
  <2>1. Lines \ {NoRun} \subseteq Lines' \ {NoRun}
    BY <1>1
  <2>2. Seq(Lines \ {NoRun}) \subseteq Seq(Lines' \ {NoRun})
    BY <2>1, SeqGrows
  <2> QED
    BY <2>2 DEF Answers
<1>3. box' \in Seq(Lines') /\ poll' \in [Polls -> Answers']
  <2>1. box \in Seq(Lines) /\ poll \in [Polls -> Answers]
    BY DEF LogInductive, LinesKnown
  <2>2. box \in Seq(Lines')
    BY <1>1, <2>1, SeqGrows
  <2> QED
    BY <1>2, <2>1, <2>2 DEF page
<1>4. \A line \in Lines : EventId(line)' = EventId(line)
  <2> SUFFICES ASSUME NEW line \in Lines
               PROVE  EventId(line)' = EventId(line)
    OBVIOUS
  <2>1. line = NoRun \/ (line[1] \in Runs /\ stored[line[1]] # 0)
    BY DEF Lines, Known, Events
  <2> QED
    BY <2>1 DEF EventId
<1>5. /\ \A i \in DOMAIN box : box[i] \in Lines
      /\ \A line \in ToSet(box) : line \in Lines
  BY DEF LogInductive, LinesKnown, ToSet
<1>6. SeenShown'
  <2>1. UNCHANGED <<box, seen>>
    BY DEF page
  <2>2. {EventId(line)' : line \in ToSet(box)} = {EventId(line) : line \in ToSet(box)}
    BY <1>4, <1>5
  <2>3. \A i, j \in DOMAIN box :
          EventId(box[i])' = EventId(box[j])' /\ box[i] # NoRun => i = j
    <3> SUFFICES ASSUME NEW i \in DOMAIN box, NEW j \in DOMAIN box,
                        EventId(box[i])' = EventId(box[j])', box[i] # NoRun
                 PROVE  i = j
      OBVIOUS
    <3>1. EventId(box[i]) = EventId(box[j])
      <4>1. box[i]' = box[i] /\ box[j]' = box[j]
        BY <2>1
      <4> QED
        BY <1>4, <1>5, <4>1 DEF EventId
    <3> QED
      BY <3>1 DEF LogInductive, SeenShown
  <2> QED
    BY <2>1, <2>2, <2>3 DEF LogInductive, SeenShown, EventId
<1> QED
  BY <1>3, <1>6 DEF LinesKnown

\* The id after the highest in the table is not above the number of the run.
LEMMA NextId ==
  ASSUME LogInductive, NEW r \in Runs, CreateRun(r)
  PROVE  id' = [id EXCEPT ![r] = id'[r]] /\ id'[r] \in 1..r
<1> DEFINE S == {id[q] : q \in {q \in Runs : Alive(q)}} \cup {0}
<1>1. stored[r] = 0 /\ id' = [id EXCEPT ![r] = 1 + Max(S)]
  BY DEF CreateRun
<1>2. r \in Nat \ {0}
  BY UiLogAssumption DEF Runs
<1>3. S \subseteq 0..(r - 1)
  <2> SUFFICES ASSUME NEW q \in Runs, Alive(q)
               PROVE  id[q] \in 0..(r - 1)
    BY <1>2
  <2>1. q \in Nat /\ ~(r < q) /\ q # r /\ id[q] \in 1..q
    BY <1>1, UiLogAssumption DEF LogInductive, RunsInOrder, Runs, Alive
  <2> QED
    BY <1>2, <2>1
<1>4. Max(S) \in 0..(r - 1)
  <2> HIDE DEF S
  <2>1. r - 1 \in Nat /\ (0 \in S => S # {})
    BY <1>2
  <2>2. 0 \in S
    BY DEF S
  <2> QED
    BY <1>3, <2>1, <2>2, Greatest
<1>5. id'[r] = 1 + Max(S)
  BY <1>1 DEF LogInductive, ServerTypes
<1> HIDE DEF S
<1>6. id' = [id EXCEPT ![r] = id'[r]]
  BY <1>1, <1>5
<1>7. id'[r] \in 1..r
  BY <1>2, <1>4, <1>5
<1> QED
  BY <1>6, <1>7

LEMMA ServerKeeps ==
  ASSUME LogInductive, NEW r \in Runs,
         CreateRun(r) \/ Tell(r) \/ Store(r) \/ Complete(r)
  PROVE  LogInductive'
<1> USE DEF LogInductive
<1>a. Stages \in Nat \ {0} /\ 0..Stages \subseteq Deleted..Stages /\ r \in 1..MaxRuns
      /\ MaxRuns \in Nat /\ 1..r \subseteq 0..MaxRuns
  BY UiLogAssumption DEF Runs, Deleted
<1>b. stored[r] \in Deleted..Stages /\ told[r] \in 0..Stages
  BY DEF ServerTypes
<1>1. /\ UNCHANGED <<conn, retry, openTimer, polling, poll, page, clears>>
      /\ stored'[r] # 0 /\ \A q \in Runs \ {r} : stored'[q] = stored[q] /\ id'[q] = id[q]
      /\ stored[r] # 0 => id'[r] = id[r]
      /\ stored' \in [Runs -> Deleted..Stages] /\ told' \in [Runs -> 0..Stages]
      /\ id' \in [Runs -> 0..MaxRuns] /\ id'[r] \in 1..r
      /\ \A q \in 1..(r - 1) : stored[q] # 0
  <2>1. CASE CreateRun(r)
    <3>1. id' = [id EXCEPT ![r] = id'[r]] /\ id'[r] \in 1..r
      BY <2>1, NextId
    <3>2. id' \in [Runs -> 0..MaxRuns] /\ \A q \in Runs \ {r} : id'[q] = id[q]
      BY <1>a, <3>1 DEF ServerTypes
    <3>3. 1 \in Deleted..Stages
      BY <1>a
    <3>4. stored' = [stored EXCEPT ![r] = 1] /\ stored[r] = 0
      BY <2>1 DEF CreateRun
    <3>5. stored' \in [Runs -> Deleted..Stages] /\ stored'[r] = 1
          /\ \A q \in Runs \ {r} : stored'[q] = stored[q]
      BY <3>3, <3>4 DEF ServerTypes
    <3> QED
      BY <2>1, <3>1, <3>2, <3>4, <3>5 DEF CreateRun, ServerTypes, stream
  <2>2. ASSUME stored[r] # 0 PROVE \A q \in 1..(r - 1) : stored[q] # 0
    BY <1>a, <2>2 DEF RunsInOrder, Runs
  <2>3. ASSUME stored[r] # 0 PROVE id[r] \in 1..r
    BY <2>3 DEF RunsInOrder
  <2>4. CASE Tell(r)
    <3>1. stored[r] # 0 /\ UNCHANGED <<stored, id>>
      BY <1>b, <2>4 DEF Tell, Alive
    <3>2. told' \in [Runs -> 0..Stages]
      BY <1>a, <1>b, <2>4 DEF Tell, ServerTypes
    <3> QED
      BY <2>2, <2>3, <2>4, <3>1, <3>2 DEF Tell, ServerTypes
  <2>5. CASE Store(r) \/ Complete(r)
    <3>1. PICK v \in 1..Stages : stored' = [stored EXCEPT ![r] = v]
      BY <1>a, <1>b, <2>5 DEF Store, Complete, Alive
    <3>2. /\ stored' \in [Runs -> Deleted..Stages] /\ stored'[r] = v
          /\ \A q \in Runs \ {r} : stored'[q] = stored[q]
      BY <1>a, <3>1 DEF ServerTypes
    <3>3. stored[r] # 0 /\ UNCHANGED <<id, told, conn, retry, openTimer, polling, poll, page, clears>>
      BY <1>b, <2>5 DEF Store, Complete, Alive, stream
    <3> QED
      BY <2>2, <2>3, <3>2, <3>3 DEF ServerTypes
  <2> QED
    BY <2>1, <2>4, <2>5
<1>2. RunsInOrder'
  <2>1. ASSUME NEW a \in Runs, NEW b \in Runs, a < b, stored'[a] = 0
        PROVE  stored'[b] = 0
    <3>1. a # r /\ stored[a] = 0
      BY <1>1, <2>1
    <3>2. b # r
      <4>1. a \in Nat /\ r \in Nat /\ a >= 1
        BY UiLogAssumption DEF Runs
      <4> QED
        BY <1>1, <2>1, <3>1, <4>1
    <3> QED
      BY <1>1, <2>1, <3>1, <3>2 DEF RunsInOrder
  <2>2. \A q \in Runs : IF stored'[q] = 0 THEN id'[q] = 0 ELSE id'[q] \in 1..q
    BY <1>1 DEF RunsInOrder
  <2> QED
    BY <2>1, <2>2 DEF RunsInOrder
<1>3. wire' \in Seq(Lines') /\ Len(wire') <= MaxWire
  <2>1. Lines \subseteq Lines'
    BY <1>1 DEF Lines, Known, Events
  <2>2. wire \in Seq(Lines') /\ Len(wire) <= MaxWire
    BY <2>1, SeqGrows DEF LinesKnown, PageTypes
  <2>3. CASE Tell(r)
    <3>1. /\ Len(wire) < MaxWire /\ Alive(r)
          /\ wire' = wire \/ wire' = Append(wire, <<r, told'[r]>>)
          /\ told' = [told EXCEPT ![r] = IF stored[r] = Stages THEN Stages ELSE @ + 1]
          /\ told[r] < Stages
      BY <2>3 DEF Tell, Send
    <3>2. told'[r] \in 1..Stages
      BY <1>a, <1>b, <3>1 DEF ServerTypes
    <3>3. <<r, told'[r]>> \in Lines'
      BY <1>1, <3>2 DEF Lines, Known, Events
    <3>4. /\ Append(wire, <<r, told'[r]>>) \in Seq(Lines')
          /\ Len(Append(wire, <<r, told'[r]>>)) = Len(wire) + 1 /\ Len(wire) \in Nat
      BY <2>2, <3>3, AppendIs
    <3>5. Len(wire) + 1 <= MaxWire
      BY <3>1, <3>4, UiLogAssumption
    <3>6. CASE wire' = wire
      BY <2>2, <3>6
    <3>7. CASE wire' = Append(wire, <<r, told'[r]>>)
      BY <3>4, <3>5, <3>7
    <3> QED
      BY <3>1, <3>6, <3>7
  <2>4. CASE CreateRun(r) \/ Store(r) \/ Complete(r)
    BY <2>2, <2>4 DEF CreateRun, Store, Complete, stream
  <2> QED
    BY <2>3, <2>4
<1>4. LinesKnown' /\ SeenShown'
  BY <1>1, <1>3, LinesStay
<1> QED
  BY <1>1, <1>2, <1>3, <1>4 DEF ServerTypes, PageTypes, page

LEMMA DeleteKeeps ==
  ASSUME LogInductive, NEW runs \in SUBSET Runs, Delete(runs)
  PROVE  LogInductive'
<1> USE DEF LogInductive
<1>1. /\ stored' = [r \in Runs |-> IF r \in runs THEN Deleted ELSE stored[r]]
      /\ told' = [r \in Runs |-> IF r \in runs THEN 0 ELSE told[r]]
      /\ \A r \in runs : stored[r] # 0
      /\ UNCHANGED <<id, conn, wire, retry, openTimer, polling, poll, page, clears>>
  BY DEF Delete, Alive, stream
<1>2. Deleted \in Deleted..Stages /\ 0 \in 0..Stages /\ Deleted # 0
  BY UiLogAssumption DEF Deleted
<1>3. ServerTypes'
  BY <1>1, <1>2 DEF ServerTypes
<1>4. \A r \in Runs : stored'[r] = 0 <=> stored[r] = 0
  BY <1>1, <1>2
<1>5. RunsInOrder'
  BY <1>1, <1>4 DEF RunsInOrder
<1>6. wire' \in Seq(Lines')
  <2>1. Lines \subseteq Lines'
    BY <1>4 DEF Lines, Known, Events
  <2> QED
    BY <1>1, <2>1, SeqGrows DEF LinesKnown
<1>7. LinesKnown' /\ SeenShown'
  BY <1>1, <1>4, <1>6, LinesStay
<1> QED
  BY <1>1, <1>3, <1>5, <1>7 DEF PageTypes, page

\* What the server keeps does not change: neither do the lines and their ids.
LEMMA ServerStands ==
  ASSUME UNCHANGED server
  PROVE  Lines' = Lines /\ Logs' = Logs /\ (RunsInOrder /\ ServerTypes =>
           RunsInOrder' /\ ServerTypes')
BY DEF server, Lines, Known, Logs, Ids, Distinct, EventId, RunsInOrder, ServerTypes

LEMMA LogIs ==
  ASSUME LogInductive
  PROVE  Log \in Logs
<1> DEFINE log == [box |-> box, seen |-> seen]
<1>1. box \in Seq(Lines) /\ Len(box) <= MaxLines
  BY DEF LogInductive, LinesKnown, PageTypes
<1>2. seen = Ids(box) /\ Distinct(box)
  BY DEF LogInductive, SeenShown, Ids, Distinct
<1>3. Ids(box) \subseteq Events
  <2>1. \A line \in ToSet(box) : line \in Lines
    BY <1>1 DEF ToSet
  <2> QED
    BY <2>1, LineIds DEF Ids, LogInductive
<1>4. log \in [box : Seq(Lines), seen : SUBSET Events] /\ log.box = box /\ log.seen = seen
  BY <1>1, <1>2, <1>3
<1> HIDE DEF log
<1>5. log \in Logs
  BY <1>1, <1>2, <1>4 DEF Logs
<1> QED
  BY <1>5 DEF log, Log

\* A log that agrees with itself is shown.
LEMMA ShowKeeps ==
  ASSUME NEW log \in Logs, Show(log), UNCHANGED server
  PROVE  box' \in Seq(Lines) /\ Len(box') <= MaxLines /\ SeenShown'
<1>1. /\ box' \in Seq(Lines) /\ Len(box') <= MaxLines
      /\ seen' = Ids(box') /\ Distinct(box')
  BY DEF Show, Logs
<1>2. \A line : EventId(line)' = EventId(line)
  BY DEF EventId, server
<1> QED
  BY <1>1, <1>2 DEF SeenShown, Ids, Distinct, EventId, server

\* The steps that leave the server alone: what is left to show of them.
LEMMA PageKeeps ==
  ASSUME LogInductive, UNCHANGED server,
         wire' \in Seq(Lines) /\ Len(wire') <= MaxWire,
         poll' \in [Polls -> Answers],
         conn' \in {"closed", "connecting", "open"},
         retry' \in BOOLEAN /\ openTimer' \in BOOLEAN /\ polling' \in BOOLEAN,
         clears' \in 0..MaxClears,
         UNCHANGED page \/ \E log \in Logs : Show(log)
  PROVE  LogInductive'
<1>1. Lines' = Lines /\ Answers' = Answers /\ RunsInOrder' /\ ServerTypes'
  BY ServerStands DEF LogInductive, Answers
<1>2. \E log \in Logs : Show(log)
  BY LogIs DEF Show, Log, page
<1>3. box' \in Seq(Lines) /\ Len(box') <= MaxLines /\ SeenShown'
  BY <1>2, ShowKeeps
<1> QED
  BY <1>1, <1>3 DEF LogInductive, LinesKnown, PageTypes

LEMMA StreamKeeps ==
  ASSUME LogInductive,
         \/ Served \/ Connect \/ Unavailable \/ Opens \/ Receive \/ Error
         \/ OpenTimeout \/ Tick
  PROVE  LogInductive'
<1>1. /\ wire \in Seq(Lines) /\ Len(wire) <= MaxWire /\ poll \in [Polls -> Answers]
      /\ conn \in {"closed", "connecting", "open"} /\ clears \in 0..MaxClears
      /\ retry \in BOOLEAN /\ openTimer \in BOOLEAN /\ polling \in BOOLEAN
  BY DEF LogInductive, LinesKnown, PageTypes
<1>2. <<>> \in Seq(Lines) /\ Len(<<>>) <= MaxWire
  BY UiLogAssumption
<1>3. ASSUME NEW p \in Polls, Ask(p)
      PROVE  poll' \in [Polls -> Answers]
  BY <1>1, <1>3 DEF Ask, Answers
<1>4. CASE Served
  <2>1. NoRun \in Lines
    BY DEF Lines, Known
  <2>2. /\ Append(wire, NoRun) \in Seq(Lines) /\ Len(Append(wire, NoRun)) = Len(wire) + 1
        /\ Len(wire) \in Nat
    BY <1>1, <2>1, AppendIs
  <2>3. Len(wire) + 1 <= MaxWire /\ wire' = Append(wire, NoRun)
    BY <1>4, <2>2, UiLogAssumption DEF Served, Send
  <2> QED
    BY <1>1, <1>4, <2>2, <2>3, PageKeeps DEF Served
<1>5. CASE Connect \/ Opens \/ Error
  <2>1. /\ UNCHANGED <<server, poll, page, clears>> /\ wire' \in {wire, <<>>}
        /\ conn' \in {"closed", "connecting", "open"}
        /\ retry' \in BOOLEAN /\ openTimer' \in BOOLEAN /\ polling' \in BOOLEAN
    BY <1>1, <1>5 DEF Connect, Opens, Error
  <2> QED
    BY <1>1, <1>2, <2>1, PageKeeps
<1>6. CASE Unavailable \/ OpenTimeout \/ Tick
  <2>1. /\ UNCHANGED <<server, conn, wire, page, clears>>
        /\ retry' \in BOOLEAN /\ openTimer' \in BOOLEAN /\ polling' \in BOOLEAN
        /\ UNCHANGED poll \/ \E p \in Polls : Ask(p)
    BY <1>1, <1>6 DEF Unavailable, OpenTimeout, Tick, stream
  <2>2. poll' \in [Polls -> Answers]
    BY <1>1, <1>3, <2>1
  <2> QED
    BY <1>1, <2>1, <2>2, PageKeeps
<1>7. CASE Receive
  <2>1. /\ Tail(wire) \in Seq(Lines) /\ Len(Tail(wire)) = Len(wire) - 1
        /\ Len(wire) \in Nat /\ Head(wire) \in Lines
    BY <1>1, <1>7, TailIs DEF Receive
  <2>2. AppendLog(Log, Head(wire)) \in Logs
    BY <2>1, LogIs, AppendLogKeeps DEF LogInductive
  <2>3. Len(Tail(wire)) <= MaxWire
    BY <1>1, <2>1, UiLogAssumption
  <2>4. /\ wire' = Tail(wire) /\ Show(AppendLog(Log, Head(wire)))
        /\ UNCHANGED <<server, conn, retry, openTimer, polling, poll, clears>>
    BY <1>7 DEF Receive
  <2> QED
    BY <1>1, <2>1, <2>2, <2>3, <2>4, PageKeeps
<1> QED
  BY <1>4, <1>5, <1>6, <1>7

LEMMA PollKeeps ==
  ASSUME LogInductive, NEW p \in Polls, Serve(p) \/ Answer(p) \/ PollFails(p)
  PROVE  LogInductive'
<1>1. /\ wire \in Seq(Lines) /\ Len(wire) <= MaxWire /\ poll \in [Polls -> Answers]
      /\ conn \in {"closed", "connecting", "open"} /\ clears \in 0..MaxClears
      /\ retry \in BOOLEAN /\ openTimer \in BOOLEAN /\ polling \in BOOLEAN
  BY DEF LogInductive, LinesKnown, PageTypes
<1>2. UNCHANGED <<server, conn, wire, retry, openTimer, polling, clears>>
  BY DEF Serve, Answer, PollFails, stream
<1>3. None \in Answers
  BY DEF None, Answers
<1>4. CASE Serve(p)
  <2>1. [pc |-> "served", rows |-> NewestRows] \in Answers
    BY AnswerIs DEF Answers, LogInductive
  <2>2. poll' \in [Polls -> Answers] /\ UNCHANGED page
    BY <1>1, <1>4, <2>1 DEF Serve
  <2> QED
    BY <1>1, <1>2, <2>2, PageKeeps
<1>5. CASE Answer(p)
  <2>1. poll[p].rows \in Seq(Lines \ {NoRun})
    BY <1>1 DEF Answers
  <2>2. poll[p].rows \in Seq(Lines)
    BY <2>1, SeqGrows
  <2>3. AppendLogs(Log, poll[p].rows) \in Logs
    BY <2>2, LogIs, AppendLogsKeeps DEF LogInductive
  <2>4. poll' \in [Polls -> Answers] /\ Show(AppendLogs(Log, poll[p].rows))
    BY <1>1, <1>3, <1>5 DEF Answer
  <2> QED
    BY <1>1, <1>2, <2>3, <2>4, PageKeeps
<1>6. CASE PollFails(p)
  <2>1. poll' \in [Polls -> Answers] /\ UNCHANGED page
    BY <1>1, <1>3, <1>6 DEF PollFails
  <2> QED
    BY <1>1, <1>2, <2>1, PageKeeps
<1> QED
  BY <1>4, <1>5, <1>6

LEMMA ClearKeeps ==
  ASSUME LogInductive, Clear
  PROVE  LogInductive'
<1> DEFINE log == [box |-> <<>>, seen |-> {}]
<1>1. Show(log) /\ UNCHANGED <<server, stream, polling, poll>>
  BY DEF Show, Clear
<1>2. log \in Logs
  BY UiLogAssumption DEF Logs, Ids, Distinct, ToSet
<1>3. clears' \in 0..MaxClears
  BY UiLogAssumption DEF Clear, LogInductive, PageTypes
<1> HIDE DEF log
<1> QED
  BY <1>1, <1>2, <1>3, PageKeeps DEF LogInductive, LinesKnown, PageTypes, stream

LEMMA LogStep == LogInductive /\ [Next]_vars => LogInductive'
<1> SUFFICES ASSUME LogInductive, [Next]_vars
             PROVE  LogInductive'
  OBVIOUS
<1>1. CASE UNCHANGED vars
  <2>1. /\ UNCHANGED <<server, wire, poll, conn, retry, openTimer, polling, clears>>
        /\ UNCHANGED page
    BY <1>1 DEF vars, server, page
  <2> QED
    BY <2>1, PageKeeps DEF LogInductive, LinesKnown, PageTypes
<1>2. CASE Next
  BY <1>2, ServerKeeps, DeleteKeeps, StreamKeeps, PollKeeps, ClearKeeps DEF Next
<1> QED
  BY <1>1, <1>2

LEMMA LogInvariant == Spec => []LogInductive
BY LogInit, LogStep, PTL DEF Spec

LEMMA LogTypes == LogInductive => TypeOK
<1> SUFFICES ASSUME LogInductive PROVE TypeOK
  OBVIOUS
<1>1. Lines \subseteq Events \cup {NoRun} /\ Lines \ {NoRun} \subseteq Events
  BY DEF Lines
<1>2. wire \in Seq(Events \cup {NoRun}) /\ box \in Seq(Events \cup {NoRun})
  BY <1>1, SeqGrows DEF LogInductive, LinesKnown
<1>3. Answers \subseteq [pc : {"none", "sent", "served"}, rows : Seq(Events)]
  <2>1. Seq(Lines \ {NoRun}) \subseteq Seq(Events)
    BY <1>1, SeqGrows
  <2> QED
    BY <2>1 DEF Answers
<1>4. poll \in [Polls -> [pc : {"none", "sent", "served"}, rows : Seq(Events)]]
  BY <1>3 DEF LogInductive, LinesKnown
<1>5. seen \subseteq Events
  BY LogIs DEF Logs, Log
<1> QED
  BY <1>2, <1>4, <1>5 DEF LogInductive, ServerTypes, PageTypes, TypeOK

\* Every variable has its type, for any number of runs, lines and polls: the box is
\* never too long, and a line on the page is an event of a run that came into being.
THEOREM TypeCorrect == Spec => []TypeOK
BY LogInvariant, LogTypes, PTL

\* The ids that appendLog remembers are those of the lines on the page, each of
\* which has its own, whatever the stream and the polls bring in whatever order.
THEOREM SeenIsShown == Spec => []SeenShown
<1>1. LogInductive => SeenShown
  BY DEF LogInductive
<1> QED
  BY <1>1, LogInvariant, PTL

-----------------------------------------------------------------------------
(* The live log: one source at a time *)

\* The stream is started again only when it is closed.
Restarts == retry => conn = "closed"

LEMMA RestartsInductive ==
  ASSUME Restarts, OneSource, Next
  PROVE  Restarts' /\ OneSource'
<1> USE DEF Restarts, OneSource
<1>1. CASE \/ \E r \in Runs : CreateRun(r) \/ Tell(r) \/ Store(r) \/ Complete(r)
           \/ \E runs \in SUBSET Runs : Delete(runs)
           \/ Served \/ Receive \/ Clear
           \/ \E p \in Polls : Serve(p) \/ Answer(p) \/ PollFails(p)
  <2>1. UNCHANGED <<conn, retry, openTimer, polling>>
    BY <1>1 DEF CreateRun, Tell, Store, Complete, Delete, Served, Receive, Clear,
       Serve, Answer, PollFails, stream
  <2> QED
    BY <2>1
<1>2. CASE Connect \/ Unavailable \/ Opens \/ Error
  BY <1>2 DEF Connect, Unavailable, Opens, Error
<1>3. CASE OpenTimeout \/ Tick
  BY <1>3 DEF OpenTimeout, Tick, stream
<1> QED
  BY <1>1, <1>2, <1>3 DEF Next

\* While the stream is open the page does not poll, for any number of runs, lines
\* and polls: startSSE runs only when the last EventSource was closed.
THEOREM SourceExclusive == Spec => []OneSource
<1>1. Init => Restarts /\ OneSource
  BY DEF Init, Restarts, OneSource
<1>2. Restarts /\ OneSource /\ [Next]_vars => Restarts' /\ OneSource'
  <2> SUFFICES ASSUME Restarts, OneSource, [Next]_vars
               PROVE  Restarts' /\ OneSource'
    OBVIOUS
  <2>1. CASE Next
    BY <2>1, RestartsInductive
  <2>2. CASE UNCHANGED vars
    BY <2>2 DEF vars, Restarts, OneSource
  <2> QED
    BY <2>1, <2>2
<1> QED
  BY <1>1, <1>2, PTL DEF Spec

-----------------------------------------------------------------------------
(* The provider table *)

Pcs == {"unused", "open", "saving", "saved", "closed"}

EditType ==
  edit \in [Edits -> [pc : Pcs, of : Providers \cup {Nobody}, in : BOOLEAN]]

LoadType == load \in [Loads -> [pc : {"none", "sent", "served"}, rows : Nat]]

CountType == db \in Nat /\ shown \in Nat /\ safe \in Edits \cup {0}

\* While there is a safe edit nothing is under way but it: this is what keeps
\* a rebuild, another row's end, and a second edit row away from it.
SafeInv ==
  safe # 0 =>
    /\ edit[safe].in /\ edit[safe].pc \in {"open", "saving", "saved"}
    /\ editing = edit[safe].of /\ edit[safe].of \in Providers
    /\ \A l \in Loads : load[l] = NoLoad
    /\ \A e \in Edits \ {safe} :
         ~edit[e].in /\ edit[e].pc \notin {"saving", "saved"}

TableInductive == EditType /\ LoadType /\ CountType /\ SafeInv

LEMMA TableStarts == TableInit => TableInductive
BY UiTableAssumption DEF TableInit, TableInductive, EditType, LoadType, CountType, SafeInv, Pcs, Unused, NoLoad, Edits

\* The steps of loading need a load under way, or no provider being edited.
LEMMA LoadKeeps ==
  ASSUME TableInductive, NEW l \in Loads,
         StartLoad(l) \/ ServeTable(l) \/ Render(l) \/ LoadFails(l)
  PROVE  TableInductive'
<1> USE DEF TableInductive
<1>1. CountType' /\ safe' = safe /\ editing' = editing
  BY DEF StartLoad, ServeTable, Render, LoadFails, LoadType, CountType, editVars
<1>2. LoadType'
  <2>1. CASE StartLoad(l)
    BY <2>1 DEF StartLoad, LoadType
  <2>2. CASE ServeTable(l)
    BY <2>2 DEF ServeTable, LoadType, CountType
  <2>3. CASE Render(l) \/ LoadFails(l)
    BY <2>3 DEF Render, LoadFails, LoadType, NoLoad
  <2> QED
    BY <2>1, <2>2, <2>3
<1>3. EditType'
  <2>1. CASE Render(l)
    BY <2>1 DEF Render, EditType
  <2>2. CASE StartLoad(l) \/ ServeTable(l) \/ LoadFails(l)
    BY <2>2 DEF StartLoad, ServeTable, LoadFails, EditType, editVars
  <2> QED
    BY <2>1, <2>2
<1>4. safe = 0
  <2> SUFFICES ASSUME safe # 0 PROVE FALSE
    OBVIOUS
  <2>1. load[l] = NoLoad /\ editing # Nobody
    BY UiTableAssumption DEF SafeInv
  <2> QED
    BY <2>1 DEF StartLoad, ServeTable, Render, LoadFails, NoLoad
<1>5. SafeInv'
  BY <1>1, <1>4 DEF SafeInv
<1> QED
  BY <1>1, <1>2, <1>3, <1>5

LEMMA TableStep ==
  ASSUME TableInductive, [TableNext]_tableVars
  PROVE  TableInductive'
<1> USE DEF TableInductive
<1>a. Edits \subseteq Nat \ {0} /\ Nobody \notin Providers
  BY UiTableAssumption DEF Edits
<1>1. ASSUME NEW l \in Loads, StartLoad(l) \/ ServeTable(l) \/ Render(l) \/ LoadFails(l)
      PROVE  TableInductive'
  BY <1>1, LoadKeeps
<1>2. ASSUME NEW e \in Edits, NEW p \in Providers, BeginEdit(e, p)
      PROVE  TableInductive'
  <2>1. /\ edit' = [edit EXCEPT ![e] = Opened(p)] /\ editing' = p
        /\ safe' = (IF Quiet THEN e ELSE 0) /\ UNCHANGED <<db, shown, load>>
    BY <1>2 DEF BeginEdit
  <2>2. /\ edit'[e] = Opened(p)
        /\ \A f \in Edits \ {e} : edit'[f] = edit[f]
    BY <2>1 DEF EditType
  <2>3. EditType'
    BY <2>1 DEF EditType, Opened, Pcs
  <2>4. LoadType' /\ CountType'
    BY <2>1 DEF LoadType, CountType
  <2>5. SafeInv'
    BY <1>a, <2>1, <2>2 DEF SafeInv, Quiet, Opened
  <2> QED
    BY <2>3, <2>4, <2>5
<1>3. ASSUME NEW e \in Edits, Close(e), edit[e].in,
             UNCHANGED <<db, shown>>, LoadType'
      PROVE  TableInductive'
  <2>1. /\ edit' = [edit EXCEPT ![e].pc = "closed", ![e].in = FALSE]
        /\ editing' = Nobody /\ safe' = (IF safe = e THEN 0 ELSE safe)
    BY <1>3 DEF Close, Reset
  <2>2. EditType' /\ CountType'
    BY <1>3, <2>1 DEF EditType, CountType, Pcs
  <2>3. safe' = 0
    BY <1>3, <2>1 DEF SafeInv
  <2> QED
    BY <1>3, <2>2, <2>3 DEF SafeInv
<1>4. ASSUME NEW e \in Edits, Cancel(e)
      PROVE  TableInductive'
  <2>1. LoadType'
    BY <1>4 DEF Cancel, LoadType
  <2> QED
    BY <1>3, <1>4, <2>1 DEF Cancel
<1>5. ASSUME NEW e \in Edits, NEW l \in Loads, Saved(e, l)
      PROVE  TableInductive'
  <2>1. LoadType'
    BY <1>5 DEF Saved, LoadType
  <2> QED
    BY <1>3, <1>5, <2>1 DEF Saved
<1>6. ASSUME NEW e \in Edits, Submit(e) \/ Patch(e) \/ Refused(e)
      PROVE  TableInductive'
  <2>1. PICK c \in {"open", "saving", "saved"} :
          /\ edit' = [edit EXCEPT ![e].pc = c]
          /\ edit[e].in \/ edit[e].pc \in {"saving", "saved"}
    BY <1>6 DEF Submit, Patch, Refused, At
  <2>2. UNCHANGED <<shown, editing, load, safe>> /\ db' \in Nat
    BY <1>6 DEF Submit, Patch, Refused, CountType
  <2>3. EditType' /\ LoadType' /\ CountType'
    BY <2>1, <2>2 DEF EditType, LoadType, CountType, Pcs
  <2>4. /\ edit'[e].in = edit[e].in /\ edit'[e].of = edit[e].of /\ edit'[e].pc = c
        /\ \A f \in Edits \ {e} : edit'[f] = edit[f]
    BY <2>1 DEF EditType
  <2>5. SafeInv'
    <3>1. safe # 0 => safe = e
      BY <2>1 DEF SafeInv
    <3> QED
      BY <2>1, <2>2, <2>4, <3>1 DEF SafeInv
  <2> QED
    BY <2>3, <2>5
<1>7. ASSUME NEW e \in Edits, SavedDetached(e)
      PROVE  TableInductive'
  <2>1. /\ edit' = [edit EXCEPT ![e].pc = "open"] /\ editing' = Nobody
        /\ edit[e].pc = "saved" /\ ~edit[e].in
        /\ UNCHANGED <<db, shown, load, safe>>
    BY <1>7 DEF SavedDetached, Reset, At
  <2>2. EditType' /\ LoadType' /\ CountType'
    BY <2>1 DEF EditType, LoadType, CountType, Pcs
  <2>3. safe = 0
    BY <2>1 DEF SafeInv
  <2> QED
    BY <2>1, <2>2, <2>3 DEF SafeInv
<1>8. CASE Change
  BY <1>8 DEF Change, EditType, LoadType, CountType, SafeInv, editVars
<1>9. CASE UNCHANGED tableVars
  BY <1>9 DEF tableVars, EditType, LoadType, CountType, SafeInv
<1> QED
  BY <1>1, <1>2, <1>4, <1>5, <1>6, <1>7, <1>8, <1>9 DEF TableNext

-----------------------------------------------------------------------------
(* Types *)

LEMMA TableStepTypes ==
  ASSUME TableTypeOK, [TableNext]_tableVars
  PROVE  TableTypeOK'
<1> USE UiTableAssumption DEF TableTypeOK
<1>1. ASSUME NEW l \in Loads, StartLoad(l) \/ ServeTable(l) \/ LoadFails(l)
      PROVE  TableTypeOK'
  BY <1>1 DEF StartLoad, ServeTable, LoadFails, NoLoad, editVars
<1>2. ASSUME NEW l \in Loads, Render(l)
      PROVE  TableTypeOK'
  <2>1. /\ shown' \in 0..db /\ hidden' = {} /\ torn' \in BOOLEAN
        /\ UNCHANGED <<db, editing, safe>>
    BY <1>2 DEF Render
  <2>2. load' = [load EXCEPT ![l] = NoLoad]
    BY <1>2 DEF Render
  <2>3. edit' = [e \in Edits |-> [edit[e] EXCEPT !.in = FALSE]]
    BY <1>2 DEF Render
  <2>4. \A e \in Edits : [edit[e] EXCEPT !.in = FALSE] \in
          [pc : {"unused", "open", "saving", "saved", "closed"},
           of : Providers \cup {Nobody}, in : BOOLEAN]
    OBVIOUS
  <2>5. edit' \in [Edits -> [pc : {"unused", "open", "saving", "saved", "closed"},
                            of : Providers \cup {Nobody}, in : BOOLEAN]]
    BY <2>3, <2>4
  <2>6. load' \in [Loads -> [pc : {"none", "sent", "served"}, rows : 0..db]]
    BY <2>2 DEF NoLoad
  <2> QED
    BY <2>1, <2>5, <2>6
<1>3. ASSUME NEW e \in Edits, NEW p \in Providers, BeginEdit(e, p)
      PROVE  TableTypeOK'
  BY <1>3 DEF BeginEdit, Opened
<1>4. ASSUME NEW e \in Edits, Cancel(e)
      PROVE  TableTypeOK'
  BY <1>4 DEF Cancel, Close, Reset
<1>5. ASSUME NEW e \in Edits, Submit(e) \/ Patch(e) \/ Refused(e) \/ SavedDetached(e)
      PROVE  TableTypeOK'
  <2>1. CASE Submit(e)
    BY <2>1 DEF Submit
  <2>2. CASE Patch(e)
    <3>1. /\ db \in Nat /\ db < MaxChanges /\ db' = db + 1
          /\ edit' = [edit EXCEPT ![e].pc = "saved"]
          /\ UNCHANGED <<shown, editing, load, hidden, safe, torn>>
      BY <2>2 DEF Patch
    <3>2. edit' \in [Edits -> [pc : {"unused", "open", "saving", "saved", "closed"},
                              of : Providers \cup {Nobody}, in : BOOLEAN]]
      BY <3>1
    <3>3. 0..db \subseteq 0..db' /\ db' \in 0..MaxChanges
      BY <3>1
    <3>4. load' \in [Loads -> [pc : {"none", "sent", "served"}, rows : 0..db']]
      BY <3>1, <3>3
    <3> QED
      BY <3>1, <3>2, <3>3, <3>4
  <2>3. CASE Refused(e)
    BY <2>3 DEF Refused
  <2>4. CASE SavedDetached(e)
    BY <2>4 DEF SavedDetached, Reset
  <2> QED
    BY <1>5, <2>1, <2>2, <2>3, <2>4
<1>6. ASSUME NEW e \in Edits, NEW l \in Loads, Saved(e, l)
      PROVE  TableTypeOK'
  BY <1>6 DEF Saved, Close, Reset
<1>7. CASE Change
  BY <1>7 DEF Change, editVars
<1>8. CASE UNCHANGED tableVars
  BY <1>8 DEF tableVars
<1> QED
  BY <1>1, <1>2, <1>3, <1>4, <1>5, <1>6, <1>7, <1>8 DEF TableNext

\* The page never shows changes the server has not committed, and every variable
\* has its type (app.js, loadProviders).
THEOREM TableTypes == TableSpec => []TableTypeOK
<1>1. ASSUME TableInit PROVE TableTypeOK
  <2>1. /\ db = 0 /\ shown = 0 /\ editing = Nobody /\ safe = 0
        /\ hidden = {} /\ torn = FALSE
    BY <1>1 DEF TableInit
  <2>2. edit \in [Edits -> [pc : {"unused", "open", "saving", "saved", "closed"},
                           of : Providers \cup {Nobody}, in : BOOLEAN]]
    BY <1>1 DEF TableInit, Unused
  <2>3. load \in [Loads -> [pc : {"none", "sent", "served"}, rows : 0..db]]
    BY <1>1, <2>1 DEF TableInit, NoLoad
  <2>4. db \in 0..MaxChanges /\ shown \in 0..db
    BY <2>1, UiTableAssumption
  <2>5. hidden \subseteq Providers /\ safe \in Edits \cup {0} /\ torn \in BOOLEAN
    BY <2>1
  <2> QED
    BY <2>1, <2>2, <2>3, <2>4, <2>5 DEF TableTypeOK
<1>2. TableTypeOK /\ [TableNext]_tableVars => TableTypeOK'
  BY TableStepTypes
<1> QED
  BY <1>1, <1>2, PTL DEF TableSpec

-----------------------------------------------------------------------------
\* No poll of the table (loadProviders) and no end of another edit takes the
\* edit row away that was opened with nothing else under way.
THEOREM EditSurvives == TableSpec => []AloneSurvives
<1>1. TableInductive /\ [TableNext]_tableVars => TableInductive'
  BY TableStep
<1>2. TableInit => TableInductive
  BY TableStarts
<1>3. TableInductive => AloneSurvives
  BY DEF TableInductive, SafeInv, AloneSurvives
<1> QED
  BY <1>1, <1>2, <1>3, PTL DEF TableSpec
=============================================================================
