----------------------------- MODULE MC_Ingest -----------------------------
(***************************************************************************)
(* Module Ingest on small documents: Clash files with two lists of at most *)
(* two entries, base64 of at most three lines, and broken text.            *)
(***************************************************************************)
EXTENDS Ingest, SequencesExt

CONSTANTS k1, k2

Proxy(key, fate) == [key |-> key, fate |-> fate]

SomeEntries ==
  {Proxy(k1, "link"), Proxy(k1, "skip"), Proxy(k2, "link"),
   Proxy(Incomplete, "link")}
OddEntries ==
  {Scalar, Proxy(k2, "raise"), Proxy(Incomplete, "skip"), Proxy(BadPort, "link")}

\* The first list is the one under "proxies:", which marks the text.
Clash(a, b) ==
  [form |-> "clash", lines |-> <<>>, parts |-> <<a, b>>, marked |-> a # <<>>]
Base64(lines) ==
  [form |-> "links", lines |-> lines, parts |-> <<>>, marked |-> FALSE]
Broken(marked) ==
  [form |-> "broken", lines |-> <<>>, parts |-> <<>>, marked |-> marked]

\* Clash files whose proxies are repeated within a list and between two, and
\* files with an odd entry among the others.
Ordinary ==
  {Clash(a, b) : a, b \in BoundedSeq(SomeEntries, 2)}
Odd ==
  {Clash(<<a, x>>, <<b>>) : a, b \in SomeEntries, x \in OddEntries}

SmallDocs ==
  Ordinary \cup Odd
    \cup {Base64(s) : s \in {<<"other">>, <<"link", "blank", "link">>,
                              <<"link", "other">>, <<"link", "blank", "other">>}}
    \cup {Broken(m) : m \in BOOLEAN}
=============================================================================
