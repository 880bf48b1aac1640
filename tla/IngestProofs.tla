---------------------------- MODULE IngestProofs ----------------------------
(***************************************************************************)
(* Proofs about Ingest, for any documents, keys and number of trials.      *)
(***************************************************************************)
EXTENDS Ingest, TLAPS

-----------------------------------------------------------------------------
(* Places *)

LEMMA BeforeOrder ==
  /\ \A p \in PlaceType : ~Before(p, p)
  /\ \A p, q, r \in PlaceType : Before(p, q) /\ Before(q, r) => Before(p, r)
BY DEF PlaceType, Before

\* What lies before the next place of a list.
LEMMA BeforeNext ==
  ASSUME NEW p \in PlaceType, NEW q \in PlaceType
  PROVE  /\ <<q[1], q[2] + 1>> \in PlaceType
         /\ Before(p, <<q[1], q[2] + 1>>) <=> Before(p, q) \/ p = q
BY DEF PlaceType, Before

LEMMA PlacesType ==
  ASSUME NEW d \in Document
  PROVE  /\ Parts(d) \in Seq(Seq(Entries))
         /\ \A p \in Places(d) :
              /\ p \in PlaceType /\ Entry(d, p) \in Entries
              /\ p[1] \in DOMAIN Parts(d) /\ p[2] \in DOMAIN Parts(d)[p[1]]
<1>1. Parts(d) \in Seq(Seq(Entries))
  BY DEF Document, Parts
<1>2. ASSUME NEW p \in Places(d)
      PROVE  /\ p \in PlaceType /\ Entry(d, p) \in Entries
             /\ p[1] \in DOMAIN Parts(d) /\ p[2] \in DOMAIN Parts(d)[p[1]]
  <2>1. PICK c \in DOMAIN Parts(d) : p \in {<<c, e>> : e \in DOMAIN Parts(d)[c]}
    BY DEF Places
  <2>2. PICK e \in DOMAIN Parts(d)[c] : p = <<c, e>>
    BY <2>1
  <2>3. c \in Nat \ {0} /\ Parts(d)[c] \in Seq(Entries)
    BY <1>1
  <2>4. e \in Nat \ {0} /\ Parts(d)[c][e] \in Entries
    BY <2>3
  <2> QED
    BY <2>2, <2>3, <2>4 DEF PlaceType, Entry
<1> QED
  BY <1>1, <1>2

\* At the end of a list, and of the lists, everything before has been looked at.
LEMMA EndOfList ==
  ASSUME NEW d \in Document, NEW a \in PlaceType,
         a[1] \in DOMAIN Parts(d), a[2] \notin DOMAIN Parts(d)[a[1]]
  PROVE  /\ <<a[1] + 1, 1>> \in PlaceType
         /\ \A p \in Places(d) : Before(p, <<a[1] + 1, 1>>) <=> Before(p, a)
<1>1. a[1] \in Nat \ {0} /\ a[2] \in Nat \ {0}
  BY DEF PlaceType
<1>2. Parts(d)[a[1]] \in Seq(Entries)
  BY PlacesType
<1>3. a[2] > Len(Parts(d)[a[1]])
  BY <1>1, <1>2
<1>4. ASSUME NEW p \in Places(d)
      PROVE  Before(p, <<a[1] + 1, 1>>) <=> Before(p, a)
  <2>1. p[1] \in Nat \ {0} /\ p[2] \in Nat \ {0} /\ p[2] \in DOMAIN Parts(d)[p[1]]
    BY PlacesType DEF PlaceType
  <2>2. p[1] = a[1] => p[2] < a[2]
    BY <1>1, <1>2, <1>3, <2>1
  <2> QED
    BY <1>1, <2>1, <2>2 DEF Before
<1> QED
  BY <1>1, <1>4 DEF PlaceType

LEMMA EndOfLists ==
  ASSUME NEW d \in Document, NEW a \in PlaceType, a[1] \notin DOMAIN Parts(d),
         NEW p \in Places(d)
  PROVE  Before(p, a)
<1>1. /\ a[1] \in Nat \ {0} /\ p[1] \in DOMAIN Parts(d)
      /\ Parts(d) \in Seq(Seq(Entries))
  BY PlacesType DEF PlaceType
<1> QED
  BY <1>1 DEF Before

\* A place after all that are listed is listed at the end.
LEMMA AppendLists ==
  ASSUME NEW s \in Seq(PlaceType), NEW S, Lists(s, S),
         NEW p \in PlaceType, \A q \in S : Before(q, p)
  PROVE  Lists(Append(s, p), S \cup {p})
<1> DEFINE t == Append(s, p)
<1>1. /\ DOMAIN t = 1..(Len(s) + 1) /\ DOMAIN s = 1..Len(s) /\ Len(s) \in Nat
      /\ t[Len(s) + 1] = p /\ \A i \in 1..Len(s) : t[i] = s[i]
  OBVIOUS
<1>2. ASSUME NEW q \in S \cup {p} PROVE \E i \in DOMAIN t : t[i] = q
  <2>1. CASE q = p
    BY <1>1, <2>1
  <2>2. CASE q \in S
    <3>1. PICK i \in DOMAIN s : s[i] = q
      BY <2>2 DEF Lists
    <3> QED
      BY <1>1, <3>1
  <2> QED
    BY <2>1, <2>2
<1>3. ASSUME NEW i \in DOMAIN t PROVE t[i] \in S \cup {p}
  BY <1>1 DEF Lists
<1>4. ASSUME NEW i \in DOMAIN t, NEW j \in DOMAIN t, i < j
      PROVE  Before(t[i], t[j])
  <2>1. i \in DOMAIN s /\ t[i] = s[i] /\ s[i] \in S
    BY <1>1, <1>4 DEF Lists
  <2>2. CASE j = Len(s) + 1
    BY <1>1, <2>1, <2>2
  <2>3. CASE j # Len(s) + 1
    <3>1. j \in DOMAIN s /\ t[j] = s[j]
      BY <1>1, <2>3
    <3> QED
      BY <1>4, <2>1, <3>1 DEF Lists
  <2> QED
    BY <2>2, <2>3
<1> HIDE DEF t
<1>5. Lists(t, S \cup {p})
  BY <1>2, <1>3, <1>4 DEF Lists
<1> QED
  BY <1>5 DEF t

-----------------------------------------------------------------------------
(* The steps *)

LEMMA InitInductive == Init => IInv
<1> SUFFICES ASSUME Init PROVE IInv
  OBVIOUS
<1> USE DEF Init
<1>1. TypeOK
  BY IngestAssumption DEF TypeOK, PlaceType
<1>2. FetchInv
  BY DEF FetchInv, MarkedFirst
<1>3. DedupeInv /\ EncodeInv
  BY DEF DedupeInv, EncodeInv
<1>4. Exact /\ RefusedForCause
  BY DEF Exact, RefusedForCause
<1> QED
  BY <1>1, <1>2, <1>3, <1>4 DEF IInv

Fetch ==
  (\E d \in Docs : Answer(d)) \/ TrialFails \/ FetchRaises \/ Exhausted \/ FetchFixed

\* The trials touch nothing of the conversion, and leave an answer to it.
LEMMA FetchStep ==
  ASSUME IInv, Fetch
  PROVE  IInv'
<1> USE DEF Take, fetching, deduping, encoding
<1>1. pc = "fetch" /\ UNCHANGED <<auto, deduping, encoding>>
  BY DEF Fetch, Answer, TrialFails, FetchRaises, Exhausted, FetchFixed
<1>2. raw = NoDoc
  BY <1>1 DEF IInv, FetchInv
<1>3. pc' \in {"fetch", "detect", "failed"}
  BY <1>1 DEF Fetch, Answer, TrialFails, FetchRaises, Exhausted, FetchFixed
<1>4. /\ pc' = "detect" => raw' \in Document /\ raw' # NoDoc
      /\ pc' # "detect" => raw' = NoDoc
      /\ first' \in Document \cup {NoDoc}
      /\ trial' \in 1..(Trials + 1)
  <2>1. /\ trial \in 1..(Trials + 1) /\ Trials \in Nat
        /\ first \in Document \cup {NoDoc}
    BY IngestAssumption DEF IInv, TypeOK
  <2>2. ASSUME NEW d \in Docs, Answer(d)
        PROVE  /\ pc' = "detect" => raw' \in Document /\ raw' # NoDoc
               /\ pc' # "detect" => raw' = NoDoc
               /\ first' \in Document \cup {NoDoc}
               /\ trial' \in 1..(Trials + 1)
    BY <1>2, <2>1, <2>2, IngestAssumption DEF Answer
  <2>3. CASE TrialFails \/ FetchRaises
    BY <1>2, <2>1, <2>3 DEF TrialFails, FetchRaises
  <2>4. CASE Exhausted
    BY <1>2, <2>1, <2>4 DEF Exhausted
  <2>5. CASE FetchFixed
    BY <1>2, <2>1, <2>5, IngestAssumption DEF FetchFixed
  <2> QED
    BY <2>2, <2>3, <2>4, <2>5 DEF Fetch
<1>5. MarkedFirst'
  <2>1. trial \in 1..(Trials + 1) /\ Trials \in Nat
    BY IngestAssumption DEF IInv, TypeOK
  <2> QED
    BY <1>2, <2>1 DEF Fetch, Answer, TrialFails, FetchRaises, Exhausted,
       FetchFixed, MarkedFirst
<1>6. TypeOK'
  BY <1>1, <1>3, <1>4 DEF IInv, TypeOK
<1>7. DedupeInv' /\ EncodeInv'
  BY <1>1, <1>3 DEF IInv, DedupeInv, EncodeInv
<1>8. Exact' /\ RefusedForCause'
  BY <1>3, <1>4 DEF Exact, RefusedForCause
<1> QED
  BY <1>3, <1>4, <1>5, <1>6, <1>7, <1>8 DEF IInv, FetchInv

\* The conversion leaves the answer as it is.
LEMMA ConvertKeeps ==
  ASSUME IInv, Convert
  PROVE  /\ UNCHANGED <<raw, auto, trial, first>>
         /\ raw \in Document /\ raw # NoDoc
         /\ pc' # "fetch" /\ FetchInv'
<1>1. UNCHANGED <<raw, fetching>> /\ pc \notin {"fetch", "failed"} /\ pc' # "fetch"
  BY DEF Convert, Detect, NextList, Pass, Keep, Raise, Deduped, Encode, NoLookup,
     Finish
<1> QED
  BY <1>1 DEF fetching, IInv, TypeOK, FetchInv, MarkedFirst

LEMMA DetectStep ==
  ASSUME IInv, Detect
  PROVE  IInv'
<1> USE DEF fetching, deduping, encoding
<1>1. /\ raw \in Document /\ raw # NoDoc /\ UNCHANGED raw /\ FetchInv'
      /\ pc = "detect" /\ pc' \in {"passed", "failed", "dedupe"}
      /\ UNCHANGED <<deduping, encoding>>
  BY ConvertKeeps DEF Convert, Detect
<1>2. TypeOK'
  BY <1>1 DEF Detect, IInv, TypeOK
<1>3. at = <<1, 1>> /\ seen = {} /\ kept = <<>> /\ next = 1 /\ links = <<>> /\ warned = <<>>
  BY <1>1 DEF IInv, EncodeInv
<1>4. \A p \in Places(raw) : ~Before(p, <<1, 1>>)
  BY <1>1, PlacesType DEF PlaceType, Before
<1>5. DedupeInv'
  BY <1>1, <1>3, <1>4 DEF DedupeInv, Lists, Survivors
<1>6. EncodeInv' /\ Exact'
  BY <1>1, <1>3 DEF EncodeInv, Exact
<1>7. RefusedForCause'
  BY <1>1 DEF Detect, RefusedForCause, IsLinks
<1> QED
  BY <1>1, <1>2, <1>5, <1>6, <1>7 DEF IInv

-----------------------------------------------------------------------------
(* _dedupe *)

\* While _dedupe looks, nothing is encoded; a step of it that leads to another
\* place only has to account for that place.
LEMMA LookStep ==
  ASSUME IInv, NextList \/ Pass \/ Keep, TypeOK', DedupeInv'
  PROVE  IInv'
<1>1. pc = "dedupe" /\ pc' = "dedupe" /\ UNCHANGED <<raw, encoding>> /\ FetchInv'
  BY ConvertKeeps DEF NextList, Pass, Keep, Convert
<1>2. EncodeInv' /\ Exact' /\ RefusedForCause'
  BY <1>1 DEF encoding, IInv, EncodeInv, Exact, RefusedForCause
<1> QED
  BY <1>1, <1>2 DEF IInv

LEMMA NextListStep ==
  ASSUME IInv, NextList
  PROVE  IInv'
<1> USE DEF fetching, encoding
<1>1. /\ raw \in Document /\ raw # NoDoc /\ UNCHANGED <<raw, auto, trial, first>>
      /\ pc = "dedupe" /\ pc' = pc /\ UNCHANGED <<seen, kept, encoding>>
      /\ at' = <<at[1] + 1, 1>> /\ at \in PlaceType
  BY ConvertKeeps DEF Convert, NextList, IInv, TypeOK
<1>2. /\ at' \in PlaceType
      /\ \A p \in Places(raw) : Before(p, at') <=> Before(p, at)
  BY <1>1, EndOfList DEF NextList
<1>3. TypeOK'
  BY <1>1, <1>2 DEF IInv, TypeOK
<1>4. /\ {p \in Places(raw) : Before(p, at')} = {p \in Places(raw) : Before(p, at)}
      /\ {p \in Survivors(raw) : Before(p, at')}
           = {p \in Survivors(raw) : Before(p, at)}
  BY <1>2 DEF Survivors
<1>5. DedupeInv'
  BY <1>1, <1>4 DEF IInv, DedupeInv
<1> QED
  BY <1>3, <1>5, LookStep

\* What _dedupe knows of the place it looks at: it counts when it is a proxy
\* and its key has not been met.
LEMMA Looking ==
  ASSUME IInv, pc = "dedupe", at \in Places(raw), Entry(raw, at).key # BadPort
  PROVE  /\ raw \in Document /\ Entry(raw, at) \in Entries
         /\ at \in PlaceType /\ <<at[1], at[2] + 1>> \in PlaceType
         /\ at \in Survivors(raw) <=>
              Entry(raw, at) # Scalar /\ Entry(raw, at).key \notin seen
         /\ \A p \in Places(raw) :
              Before(p, <<at[1], at[2] + 1>>) <=> Before(p, at) \/ p = at
<1>1. raw \in Document /\ seen \subseteq Keys
  BY DEF IInv, TypeOK
<1>2. Entry(raw, at) \in Entries /\ at \in PlaceType
  BY <1>1, PlacesType
<1>3. at \in Survivors(raw) <=>
        Entry(raw, at) # Scalar /\ Entry(raw, at).key \notin seen
  <2>1. \A k \in Keys :
          k \in seen <=>
            \E p \in {p \in Places(raw) : Before(p, at)} : Entry(raw, p).key = k
    BY DEF IInv, DedupeInv
  <2> QED
    BY <1>1, <2>1 DEF Survivors
<1>4. \A p \in Places(raw) :
        Before(p, <<at[1], at[2] + 1>>) <=> Before(p, at) \/ p = at
  BY <1>1, <1>2, PlacesType, BeforeNext
<1> QED
  BY <1>1, <1>2, <1>3, <1>4, BeforeNext

LEMMA PassStep ==
  ASSUME IInv, Pass
  PROVE  IInv'
<1> USE DEF fetching, encoding
<1>1. /\ UNCHANGED <<raw, auto, trial, first>> /\ raw # NoDoc
      /\ pc = "dedupe" /\ pc' = pc /\ UNCHANGED <<seen, kept, encoding>>
      /\ at' = <<at[1], at[2] + 1>> /\ at \in Places(raw)
      /\ Entry(raw, at) = Scalar \/ Entry(raw, at).key \in seen
      /\ seen \subseteq Keys
  BY ConvertKeeps DEF Convert, Pass, IInv, TypeOK
<1>2. Entry(raw, at).key # BadPort
  BY <1>1, IngestAssumption DEF Scalar
<1>3. /\ at' \in PlaceType /\ at \notin Survivors(raw)
      /\ \A p \in Places(raw) : Before(p, at') <=> Before(p, at) \/ p = at
  BY <1>1, <1>2, Looking
<1>4. TypeOK'
  BY <1>1, <1>3 DEF IInv, TypeOK
<1>5. {p \in Survivors(raw) : Before(p, at')} = {p \in Survivors(raw) : Before(p, at)}
  BY <1>3 DEF Survivors
<1>6. \A k \in Keys : Entry(raw, at).key = k => k \in seen
  BY <1>1, IngestAssumption DEF Scalar
<1>7. DedupeInv'
  BY <1>1, <1>2, <1>3, <1>5, <1>6 DEF IInv, DedupeInv
<1> QED
  BY <1>4, <1>7, LookStep

LEMMA KeepStep ==
  ASSUME IInv, Keep
  PROVE  IInv'
<1> USE DEF fetching, encoding
<1>1. /\ UNCHANGED <<raw, auto, trial, first>> /\ raw # NoDoc
      /\ pc = "dedupe" /\ pc' = pc /\ UNCHANGED encoding
      /\ at' = <<at[1], at[2] + 1>> /\ at \in Places(raw)
      /\ Entry(raw, at).key \notin seen \cup {"scalar", BadPort}
      /\ kept' = Append(kept, at)
      /\ seen' = seen \cup ({Entry(raw, at).key} \cap Keys)
      /\ seen \subseteq Keys /\ kept \in Seq(PlaceType)
  BY ConvertKeeps DEF Convert, Keep, IInv, TypeOK
<1>2. Entry(raw, at) # Scalar
  BY <1>1 DEF Scalar
<1>3. /\ at \in PlaceType /\ at' \in PlaceType /\ at \in Survivors(raw)
      /\ \A p \in Places(raw) : Before(p, at') <=> Before(p, at) \/ p = at
  BY <1>1, <1>2, Looking
<1>4. TypeOK'
  BY <1>1, <1>3 DEF IInv, TypeOK
<1>5. {p \in Survivors(raw) : Before(p, at')}
        = {p \in Survivors(raw) : Before(p, at)} \cup {at}
  BY <1>3 DEF Survivors
<1>6. Lists(kept', {p \in Survivors(raw) : Before(p, at')})
  <2>1. Lists(kept, {p \in Survivors(raw) : Before(p, at)})
    BY <1>1 DEF IInv, DedupeInv
  <2>2. \A q \in {p \in Survivors(raw) : Before(p, at)} : Before(q, at)
    OBVIOUS
  <2>3. Lists(Append(kept, at), {p \in Survivors(raw) : Before(p, at)} \cup {at})
    BY ONLY <1>1, <1>3, <2>1, <2>2, AppendLists
  <2> QED
    BY <1>1, <1>5, <2>3
<1>7. \A k \in Keys :
        k \in seen' <=>
          \E p \in {p \in Places(raw) : Before(p, at')} : Entry(raw, p).key = k
  <2>1. \A k \in Keys :
          k \in seen <=>
            \E p \in {p \in Places(raw) : Before(p, at)} : Entry(raw, p).key = k
    BY <1>1 DEF IInv, DedupeInv
  <2> QED
    BY <1>1, <1>3, <2>1
<1>8. DedupeInv'
  BY <1>1, <1>3, <1>6, <1>7 DEF IInv, DedupeInv
<1> QED
  BY <1>4, <1>8, LookStep

LEMMA RaiseStep ==
  ASSUME IInv, Raise
  PROVE  IInv'
<1> USE DEF fetching, deduping, encoding
<1>1. /\ UNCHANGED <<raw, auto, trial, first, deduping, encoding>> /\ FetchInv'
      /\ pc' = "failed" /\ at \in Places(raw) /\ Entry(raw, at).key = BadPort
  BY ConvertKeeps DEF Convert, Raise
<1>2. TypeOK'
  BY <1>1 DEF IInv, TypeOK
<1>3. DedupeInv' /\ EncodeInv' /\ Exact' /\ RefusedForCause'
  BY <1>1 DEF DedupeInv, EncodeInv, Exact, RefusedForCause
<1> QED
  BY <1>1, <1>2, <1>3 DEF IInv

LEMMA DedupedStep ==
  ASSUME IInv, Deduped
  PROVE  IInv'
<1> USE DEF fetching, deduping, encoding
<1>1. /\ UNCHANGED <<raw, auto, trial, first, deduping, encoding>> /\ FetchInv'
      /\ raw \in Document /\ at \in PlaceType /\ kept \in Seq(PlaceType)
      /\ pc = "dedupe" /\ pc' = "encode" /\ at[1] \notin DOMAIN Parts(raw)
  BY ConvertKeeps DEF Convert, Deduped, IInv, TypeOK
<1>2. TypeOK'
  BY <1>1 DEF IInv, TypeOK
<1>3. \A p \in Places(raw) : Before(p, at)
  BY <1>1, EndOfLists
<1>4. DedupeInv'
  BY <1>1, <1>3 DEF IInv, DedupeInv
<1>5. next = 1 /\ links = <<>> /\ warned = <<>>
  BY <1>1 DEF IInv, EncodeInv
<1>6. EncodeInv'
  BY <1>1, <1>5 DEF EncodeInv, Lists
<1>7. Exact' /\ RefusedForCause'
  BY <1>1 DEF Exact, RefusedForCause
<1> QED
  BY <1>1, <1>2, <1>4, <1>6, <1>7 DEF IInv

-----------------------------------------------------------------------------
(* The encoders *)

\* What the loop over the survivors knows: they are all there, in order, and
\* those before `next` have been tried.
LEMMA Encoding ==
  ASSUME IInv, pc = "encode"
  PROVE  /\ raw \in Document /\ Lists(kept, Survivors(raw))
         /\ kept \in Seq(PlaceType) /\ DOMAIN kept = 1..Len(kept)
         /\ next \in 1..(Len(kept) + 1)
<1>1. raw \in Document /\ kept \in Seq(PlaceType)
  BY DEF IInv, TypeOK
<1>2. {p \in Survivors(raw) : Before(p, at)} = Survivors(raw)
  BY DEF IInv, DedupeInv, Survivors
<1>3. Lists(kept, Survivors(raw))
  BY <1>2 DEF IInv, DedupeInv
<1>4. next \in 1..(Len(kept) + 1)
  BY DEF IInv, EncodeInv
<1> QED
  BY <1>1, <1>3, <1>4

LEMMA EncodeStep ==
  ASSUME IInv, Encode
  PROVE  IInv'
<1> DEFINE p0 == kept[next]
           tried == {kept[i] : i \in 1..(next - 1)}
           linked == {p \in tried : Entry(raw, p).fate = "link"}
           passed == {p \in tried : Entry(raw, p).fate # "link"}
<1> USE DEF fetching, deduping
<1>1. /\ UNCHANGED <<raw, auto, trial, first, deduping>> /\ FetchInv'
      /\ pc = "encode" /\ pc' = pc /\ next \in DOMAIN kept /\ next' = next + 1
      /\ next \in Nat
      /\ links \in Seq(PlaceType) /\ warned \in Seq(PlaceType)
  BY ConvertKeeps DEF Convert, Encode, IInv, TypeOK
<1>2. /\ next \in 1..Len(kept) /\ Len(kept) \in Nat
      /\ p0 \in PlaceType /\ \A q \in tried : Before(q, p0)
  BY <1>1, Encoding DEF Lists
<1>3. tried' = tried \cup {p0}
  BY <1>1, <1>2
<1>4. Lists(links, linked) /\ Lists(warned, passed)
  BY <1>1 DEF IInv, EncodeInv
<1>5. ASSUME Entry(raw, p0).fate = "link"
      PROVE  /\ Lists(links', linked') /\ Lists(warned', passed')
             /\ links' \in Seq(PlaceType) /\ warned' \in Seq(PlaceType)
  <2>1. links' = Append(links, p0) /\ warned' = warned
    BY <1>5 DEF Encode
  <2>2. linked' = linked \cup {p0} /\ passed' = passed
    BY <1>1, <1>3, <1>5
  <2>3. \A q \in linked : Before(q, p0)
    BY <1>2
  <2> HIDE DEF p0, tried, linked, passed
  <2>4. Lists(links', linked') /\ Lists(warned', passed')
    BY <1>1, <1>2, <1>4, <2>1, <2>2, <2>3, AppendLists
  <2>5. links' \in Seq(PlaceType) /\ warned' \in Seq(PlaceType)
    BY <1>1, <1>2, <2>1
  <2> QED
    BY <2>4, <2>5
<1>6. ASSUME Entry(raw, p0).fate # "link"
      PROVE  /\ Lists(links', linked') /\ Lists(warned', passed')
             /\ links' \in Seq(PlaceType) /\ warned' \in Seq(PlaceType)
  <2>1. warned' = Append(warned, p0) /\ links' = links
    BY <1>6 DEF Encode
  <2>2. passed' = passed \cup {p0} /\ linked' = linked
    BY <1>1, <1>3, <1>6
  <2>3. \A q \in passed : Before(q, p0)
    BY <1>2
  <2> HIDE DEF p0, tried, linked, passed
  <2>4. Lists(links', linked') /\ Lists(warned', passed')
    BY <1>1, <1>2, <1>4, <2>1, <2>2, <2>3, AppendLists
  <2>5. links' \in Seq(PlaceType) /\ warned' \in Seq(PlaceType)
    BY <1>1, <1>2, <2>1
  <2> QED
    BY <2>4, <2>5
<1>7. /\ Lists(links', linked') /\ Lists(warned', passed')
      /\ links' \in Seq(PlaceType) /\ warned' \in Seq(PlaceType)
  BY <1>5, <1>6
<1>8. TypeOK'
  BY <1>1, <1>7 DEF IInv, TypeOK
<1>9. EncodeInv'
  BY <1>1, <1>2, <1>7 DEF EncodeInv
<1>10. DedupeInv' /\ Exact' /\ RefusedForCause'
  BY <1>1 DEF IInv, DedupeInv, Exact, RefusedForCause
<1> QED
  BY <1>1, <1>8, <1>9, <1>10 DEF IInv

LEMMA NoLookupStep ==
  ASSUME IInv, NoLookup
  PROVE  IInv'
<1> USE DEF fetching, deduping, encoding
<1>1. /\ UNCHANGED <<raw, auto, trial, first, deduping, encoding>> /\ FetchInv'
      /\ pc = "encode" /\ pc' = "failed" /\ next \in DOMAIN kept
      /\ Entry(raw, kept[next]).fate = "raise"
  BY ConvertKeeps DEF Convert, NoLookup
<1>2. kept[next] \in Survivors(raw)
  BY <1>1, Encoding DEF Lists
<1>3. TypeOK'
  BY <1>1 DEF IInv, TypeOK
<1>4. DedupeInv' /\ EncodeInv' /\ Exact' /\ RefusedForCause'
  BY <1>1, <1>2 DEF DedupeInv, EncodeInv, Exact, RefusedForCause
<1> QED
  BY <1>1, <1>3, <1>4 DEF IInv

LEMMA FinishStep ==
  ASSUME IInv, Finish
  PROVE  IInv'
<1> DEFINE tried == {kept[i] : i \in 1..(next - 1)}
<1> USE DEF fetching, deduping, encoding
<1>1. /\ UNCHANGED <<raw, auto, trial, first, deduping, encoding>> /\ FetchInv'
      /\ pc = "encode" /\ next \notin DOMAIN kept
      /\ pc' = IF links = <<>> THEN "failed" ELSE "done"
  BY ConvertKeeps DEF Convert, Finish
<1>2. next = Len(kept) + 1 /\ DOMAIN kept = 1..Len(kept) /\ Len(kept) \in Nat
  BY <1>1, Encoding
<1>3. tried = Survivors(raw)
  BY <1>1, <1>2, Encoding DEF Lists
<1>4. /\ {p \in tried : Entry(raw, p).fate = "link"} = Good(raw)
      /\ {p \in tried : Entry(raw, p).fate # "link"} = Survivors(raw) \ Good(raw)
  BY <1>3 DEF Good
<1>5. Lists(links, Good(raw)) /\ Lists(warned, Survivors(raw) \ Good(raw))
  BY <1>1, <1>4 DEF IInv, EncodeInv
<1>6. Exact'
  BY <1>1, <1>5 DEF Exact
<1>7. links = <<>> => Good(raw) = {}
  BY <1>5 DEF Lists
<1>8. RefusedForCause'
  BY <1>1, <1>7 DEF RefusedForCause
<1>9. TypeOK' /\ DedupeInv' /\ EncodeInv'
  BY <1>1 DEF IInv, TypeOK, DedupeInv, EncodeInv
<1> QED
  BY <1>1, <1>6, <1>8, <1>9 DEF IInv

LEMMA StepInductive == IInv /\ [Next]_vars => IInv'
<1> SUFFICES ASSUME IInv, [Next]_vars PROVE IInv'
  OBVIOUS
<1>1. CASE Fetch
  BY <1>1, FetchStep
<1>2. CASE Convert
  BY <1>2, DetectStep, NextListStep, PassStep, KeepStep, RaiseStep, DedupedStep,
     EncodeStep, NoLookupStep, FinishStep DEF Convert
<1>3. CASE UNCHANGED vars
  BY <1>3 DEF vars, IInv, TypeOK, FetchInv, MarkedFirst, DedupeInv, EncodeInv,
     Exact, RefusedForCause
<1> QED
  BY <1>1, <1>2, <1>3 DEF Next, Fetch

-----------------------------------------------------------------------------
(* Theorems *)

\* The inductive invariant: what the trials, _dedupe and the encoders have done
\* at every point of the way.
THEOREM Invariance == Spec => []IInv
<1> QED
  BY InitInductive, StepInductive, PTL DEF Spec

\* fetch_with_auto_ua settles for an answer that is not marked only when every
\* User-Agent has had its turn.
THEOREM MarkedAnswerFirst == Spec => []MarkedFirst
<1>1. IInv => MarkedFirst
  BY DEF IInv, FetchInv
<1> QED
  BY <1>1, Invariance, PTL

\* convert_clash_yaml loses no proxy and repeats none: links and warnings
\* together are the first proxy of each key, in the order of the document.
THEOREM ConversionExact == Spec => []Exact
<1>1. IInv => Exact
  BY DEF IInv
<1> QED
  BY <1>1, Invariance, PTL

\* A Clash document is refused only for one of the reasons the code has.
THEOREM Refusals == Spec => []RefusedForCause
<1>1. IInv => RefusedForCause
  BY DEF IInv
<1> QED
  BY <1>1, Invariance, PTL
=============================================================================
