------------------------------- MODULE Ingest -------------------------------
(***************************************************************************)
(* From a provider's URL to share links: the trials of User-Agents in      *)
(* app/services/fetcher.py and the conversion of the answer chosen, in     *)
(* app/converter (subscription.py and clash.py).                           *)
(*                                                                         *)
(* A document has a form.  "links": text that decodes from base64, line by *)
(* line a share link, something else or blank.  "clash": YAML, as the      *)
(* lists of proxies it has, in the order in which the converter looks for  *)
(* them.  "broken": neither.  `marked` tells whether its text contains     *)
(* "proxies:" or "Proxy:", which decides between answers.                  *)
(*                                                                         *)
(* Of a proxy only two things matter: its key (name, server and port       *)
(* together) and its fate in the loop that encodes: "link", "skip" (a      *)
(* warning) or "raise" (a type that cannot be looked up among the encoders,*)
(* as a YAML list cannot).                                                 *)
(***************************************************************************)
EXTENDS Integers, Sequences, FiniteSets

CONSTANTS
  Docs,         \* documents the source can answer with
  NoDoc,        \* no document yet
  Keys,         \* keys of proxies that have name, server and port
  Incomplete,   \* the key of a proxy that lacks one of the three
  BadPort,      \* the key of a proxy whose port int() refuses
  Trials        \* number of User-Agents tried in turn (5)

\* Entries of a list that are not mappings.
Scalar == [key |-> "scalar", fate |-> "skip"]

Fates == {"link", "skip", "raise"}
Entries == [key : Keys \cup {Incomplete, BadPort}, fate : Fates] \cup {Scalar}

Forms == {"links", "clash", "broken"}
Lines == {"link", "other", "blank"}
Document ==
  [form : Forms, lines : Seq(Lines), parts : Seq(Seq(Entries)), marked : BOOLEAN]

ASSUME IngestAssumption ==
  /\ Docs \subseteq Document /\ NoDoc \notin Docs
  /\ Incomplete # BadPort
  /\ {Incomplete, BadPort, "scalar"} \cap Keys = {}
  /\ "scalar" \notin {Incomplete, BadPort}
  /\ Trials \in Nat \ {0}

VARIABLES
  pc,       \* "fetch", "detect", "dedupe", "encode"; at the end "done",
            \* "passed" (the lines of raw are the links) or "failed"
  auto,     \* the provider's ua_mode is "auto"
  trial,    \* the User-Agent to try next
  first,    \* the first answer, kept while no answer is marked
  raw,      \* the answer that is converted
  at,       \* the list, and the entry of it, that _dedupe looks at next
  seen,     \* keys it has met
  kept,     \* places of the proxies that survive it
  next,     \* the one of them to encode next
  links,    \* places of the proxies that gave a link
  warned    \* places of the proxies that gave a warning

vars == <<pc, auto, trial, first, raw, at, seen, kept, next, links, warned>>

fetching == <<auto, trial, first>>
deduping == <<at, seen, kept>>
encoding == <<next, links, warned>>

-----------------------------------------------------------------------------
(* fetch and fetch_with_auto_ua *)

Take(d) ==
  /\ pc' = "detect" /\ raw' = d
  /\ first' = NoDoc

\* Mutant of Answer: the first answer is taken, marked or not.
AnswerAny(d) ==
  /\ pc = "fetch" /\ auto /\ trial <= Trials
  /\ Take(d)
  /\ UNCHANGED <<auto, trial, deduping, encoding>>

\* An answer to one User-Agent: taken when it is marked, kept when it is the
\* first.
Answer(d) ==
  /\ pc = "fetch" /\ auto /\ trial <= Trials
  /\ IF d.marked
     THEN Take(d) /\ UNCHANGED trial
     ELSE /\ first' = IF first = NoDoc THEN d ELSE first
          /\ trial' = trial + 1
          /\ UNCHANGED <<pc, raw>>
  /\ UNCHANGED <<auto, deduping, encoding>>

\* No address that may be asked, no connection, a time-out, an HTTP error or
\* an answer too large: the next User-Agent's turn.
TrialFails ==
  /\ pc = "fetch" /\ auto /\ trial <= Trials
  /\ trial' = trial + 1
  /\ UNCHANGED <<pc, auto, first, raw, deduping, encoding>>

\* Mutant of Exhausted: without an answer the trials give nothing to convert.
ExhaustedBlind ==
  /\ pc = "fetch" /\ auto /\ trial > Trials
  /\ Take(first)
  /\ UNCHANGED <<auto, trial, deduping, encoding>>

\* No User-Agent is left: the first answer, if there was one.
Exhausted ==
  /\ pc = "fetch" /\ auto /\ trial > Trials
  /\ IF first # NoDoc
     THEN Take(first)
     ELSE pc' = "failed" /\ UNCHANGED <<raw, first>>
  /\ UNCHANGED <<auto, trial, deduping, encoding>>

\* An error that fetch does not turn into its own kind ends the trials too.
FetchRaises ==
  /\ pc = "fetch" /\ auto /\ trial <= Trials
  /\ pc' = "failed"
  /\ UNCHANGED <<raw, fetching, deduping, encoding>>

\* A provider with a User-Agent of its own is asked once.
FetchFixed ==
  /\ pc = "fetch" /\ ~auto
  /\ \/ \E d \in Docs : Take(d)
     \/ pc' = "failed" /\ UNCHANGED <<raw, first>>
  /\ UNCHANGED <<auto, trial, deduping, encoding>>

-----------------------------------------------------------------------------
(* convert_subscription *)

\* Base64 is taken for share links when half of its lines are.
Share(d) == {i \in DOMAIN d.lines : d.lines[i] = "link"}
IsLinks(d) ==
  /\ d.form = "links" /\ Share(d) # {}
  /\ 2 * Cardinality(Share(d)) >= Len(d.lines)

Detect ==
  /\ pc = "detect"
  /\ pc' = IF IsLinks(raw) THEN "passed"
           ELSE IF raw.form = "broken" THEN "failed" ELSE "dedupe"
  /\ UNCHANGED <<raw, fetching, deduping, encoding>>

-----------------------------------------------------------------------------
(* convert_clash_yaml: _iter_proxies and _dedupe, one entry at a time *)

\* Base64 that is not share links is a YAML string, and holds no proxies.
Parts(d) == IF d.form = "clash" THEN d.parts ELSE <<>>

\* The places of the entries of a document, in the order of the lists.
Places(d) ==
  UNION {{<<c, e>> : e \in DOMAIN Parts(d)[c]} : c \in DOMAIN Parts(d)}
Before(p, q) == p[1] < q[1] \/ (p[1] = q[1] /\ p[2] < q[2])
Entry(d, p) == Parts(d)[p[1]][p[2]]

NextList ==
  /\ pc = "dedupe" /\ at[1] \in DOMAIN Parts(raw)
  /\ at[2] \notin DOMAIN Parts(raw)[at[1]]
  /\ at' = <<at[1] + 1, 1>>
  /\ UNCHANGED <<pc, raw, fetching, seen, kept, encoding>>

\* Not a mapping, or a key seen before.
Pass ==
  /\ pc = "dedupe" /\ at \in Places(raw)
  /\ Entry(raw, at) = Scalar \/ Entry(raw, at).key \in seen
  /\ at' = <<at[1], at[2] + 1>>
  /\ UNCHANGED <<pc, raw, fetching, seen, kept, encoding>>

\* Mutant of Keep: the key is not remembered.
KeepUnseen ==
  /\ pc = "dedupe" /\ at \in Places(raw)
  /\ Entry(raw, at).key \notin seen \cup {"scalar", BadPort}
  /\ at' = <<at[1], at[2] + 1>>
  /\ kept' = Append(kept, at)
  /\ UNCHANGED <<pc, raw, fetching, seen, encoding>>

\* A proxy not seen before; one whose key is incomplete is never seen.
Keep ==
  /\ pc = "dedupe" /\ at \in Places(raw)
  /\ Entry(raw, at).key \notin seen \cup {"scalar", BadPort}
  /\ at' = <<at[1], at[2] + 1>>
  /\ kept' = Append(kept, at)
  /\ seen' = seen \cup ({Entry(raw, at).key} \cap Keys)
  /\ UNCHANGED <<pc, raw, fetching, encoding>>

\* int() of the port raises, and nothing on the way catches it.
Raise ==
  /\ pc = "dedupe" /\ at \in Places(raw)
  /\ Entry(raw, at).key = BadPort
  /\ pc' = "failed"
  /\ UNCHANGED <<raw, fetching, deduping, encoding>>

Deduped ==
  /\ pc = "dedupe" /\ at[1] \notin DOMAIN Parts(raw)
  /\ pc' = "encode"
  /\ UNCHANGED <<raw, fetching, deduping, encoding>>

\* Mutant of Encode: the first proxy without a link ends the loop.
EncodeBreak ==
  /\ pc = "encode" /\ next \in DOMAIN kept
  /\ Entry(raw, kept[next]).fate # "raise"
  /\ IF Entry(raw, kept[next]).fate = "link"
     THEN next' = next + 1 /\ links' = Append(links, kept[next]) /\ UNCHANGED warned
     ELSE next' = Len(kept) + 1 /\ warned' = Append(warned, kept[next])
          /\ UNCHANGED links
  /\ UNCHANGED <<pc, raw, fetching, deduping>>

\* The encoder of its type gives a link; without a type or an encoder, or when
\* the encoder raises or gives nothing, the proxy is skipped with a warning.
Encode ==
  /\ pc = "encode" /\ next \in DOMAIN kept
  /\ Entry(raw, kept[next]).fate # "raise"
  /\ next' = next + 1
  /\ IF Entry(raw, kept[next]).fate = "link"
     THEN links' = Append(links, kept[next]) /\ UNCHANGED warned
     ELSE warned' = Append(warned, kept[next]) /\ UNCHANGED links
  /\ UNCHANGED <<pc, raw, fetching, deduping>>

\* The look-up of the encoder raises, and nothing on the way catches it.
NoLookup ==
  /\ pc = "encode" /\ next \in DOMAIN kept
  /\ Entry(raw, kept[next]).fate = "raise"
  /\ pc' = "failed"
  /\ UNCHANGED <<raw, fetching, deduping, encoding>>

\* No usable proxies is an error.
Finish ==
  /\ pc = "encode" /\ next \notin DOMAIN kept
  /\ pc' = IF links = <<>> THEN "failed" ELSE "done"
  /\ UNCHANGED <<raw, fetching, deduping, encoding>>

-----------------------------------------------------------------------------
Init ==
  /\ pc = "fetch" /\ auto \in BOOLEAN
  /\ trial = 1 /\ first = NoDoc /\ raw = NoDoc
  /\ at = <<1, 1>> /\ seen = {} /\ kept = <<>>
  /\ next = 1 /\ links = <<>> /\ warned = <<>>

Convert ==
  Detect \/ NextList \/ Pass \/ Keep \/ Raise \/ Deduped \/ Encode
    \/ NoLookup \/ Finish

Next ==
  \/ \E d \in Docs : Answer(d)
  \/ TrialFails \/ FetchRaises \/ Exhausted \/ FetchFixed
  \/ Convert

Spec == Init /\ [][Next]_vars

-----------------------------------------------------------------------------
(* Properties *)

PlaceType == (Nat \ {0}) \X (Nat \ {0})

\* Every variable has its type.
TypeOK ==
  /\ pc \in {"fetch", "detect", "dedupe", "encode", "done", "passed", "failed"}
  /\ auto \in BOOLEAN /\ trial \in 1..(Trials + 1)
  /\ first \in Document \cup {NoDoc} /\ raw \in Document \cup {NoDoc}
  /\ at \in PlaceType /\ seen \subseteq Keys
  /\ kept \in Seq(PlaceType)
  /\ next \in Nat
  /\ links \in Seq(PlaceType) /\ warned \in Seq(PlaceType)
  /\ pc \notin {"fetch", "failed"} => raw # NoDoc

\* An answer that is not marked is converted only when every User-Agent has had
\* its turn.
MarkedFirst ==
  auto /\ raw # NoDoc /\ ~raw.marked => trial > Trials

\* The proxies that count: of those with one key the first in the document.
Survivors(d) ==
  {p \in Places(d) :
     /\ Entry(d, p) # Scalar
     /\ \A q \in Places(d) :
          Before(q, p) /\ Entry(d, q).key \in Keys =>
            Entry(d, q).key # Entry(d, p).key}

Good(d) == {p \in Survivors(d) : Entry(d, p).fate = "link"}

\* s lists the places in S, each once and in the order of the document.
Lists(s, S) ==
  /\ \A p \in S : \E i \in DOMAIN s : s[i] = p
  /\ \A i \in DOMAIN s : s[i] \in S
  /\ \A i, j \in DOMAIN s : i < j => Before(s[i], s[j])

\* A conversion that succeeds loses nothing and repeats nothing: the links are
\* those of the proxies that count and can be encoded, in the order of the
\* document, and every other proxy that counts has a warning.
Exact ==
  pc = "done" =>
    /\ Lists(links, Good(raw))
    /\ Lists(warned, Survivors(raw) \ Good(raw))
    /\ links # <<>>

\* A Clash file is refused only when none of its proxies can be converted, or
\* when one of them has a port that is not a number or a type that cannot be
\* looked up.
RefusedForCause ==
  pc = "failed" /\ raw # NoDoc /\ raw.form = "clash" =>
    \/ Good(raw) = {}
    \/ \E p \in Places(raw) : Entry(raw, p).key = BadPort
    \/ \E p \in Survivors(raw) : Entry(raw, p).fate = "raise"

\* A malformed proxy never aborts the run.
NeverAborts ==
  pc = "failed" /\ raw # NoDoc => Good(raw) = {}

-----------------------------------------------------------------------------
(* The inductive invariant behind MarkedFirst, Exact and RefusedForCause:    *)
(* what the loops have done so far.                                          *)

\* Nothing is converted yet while User-Agents are tried.
FetchInv == MarkedFirst /\ (pc = "fetch" => raw = NoDoc)

\* _dedupe has looked at the places before `at`.
DedupeInv ==
  pc \in {"dedupe", "encode"} =>
    LET looked == {p \in Places(raw) : Before(p, at)}
    IN  /\ Lists(kept, {p \in Survivors(raw) : Before(p, at)})
        /\ \A p \in looked : Entry(raw, p).key # BadPort
        /\ \A k \in Keys :
             k \in seen <=> \E p \in looked : Entry(raw, p).key = k
        /\ pc = "encode" => Places(raw) = looked

\* The encoders have been called on the places before `next` in `kept`.
EncodeInv ==
  /\ pc = "encode" =>
       LET tried == {kept[i] : i \in 1..(next - 1)}
       IN  /\ next \in 1..(Len(kept) + 1)
           /\ Lists(links, {p \in tried : Entry(raw, p).fate = "link"})
           /\ Lists(warned, {p \in tried : Entry(raw, p).fate # "link"})
  /\ pc \in {"fetch", "detect", "dedupe"} =>
       next = 1 /\ links = <<>> /\ warned = <<>>
  /\ pc \in {"fetch", "detect"} => at = <<1, 1>> /\ seen = {} /\ kept = <<>>

IInv ==
  TypeOK /\ FetchInv /\ DedupeInv /\ EncodeInv /\ Exact /\ RefusedForCause
=============================================================================
