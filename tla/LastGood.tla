------------------------------ MODULE LastGood ------------------------------
(***************************************************************************)
(* What the version store promises about ONE provider, and nothing about   *)
(* how: a numbered register holding the last good document.  A document is *)
(* replaced only by publishing the next one, in one indivisible step, and  *)
(* only while the service is up; going down, coming back, renaming the     *)
(* provider, pruning history and a failed refresh leave it alone.  What is *)
(* served is that document as long as the register is whole; a boot may    *)
(* find it damaged, or find it again, and the next one published is whole. *)
(***************************************************************************)
EXTENDS Naturals

CONSTANTS
  Docs,     \* documents: one (raw bytes, converted bytes) pair each
  NoDoc     \* what is served before the first successful refresh (503)

VARIABLES
  version,  \* sequence number of the published document, 0 before the first
  doc,      \* the published document
  served,   \* what a request gets
  whole,    \* the register is undamaged
  up        \* the service answers requests

vars == <<version, doc, served, whole, up>>

Init ==
  /\ version \in Nat
  /\ doc \in Docs \cup {NoDoc} /\ served = doc /\ whole = TRUE
  /\ up = FALSE

Publish ==
  /\ up
  /\ version' = version + 1
  /\ doc' \in Docs /\ served' = doc' /\ whole' = TRUE
  /\ UNCHANGED up

Stop ==
  /\ up /\ up' = FALSE
  /\ served' = doc /\ whole' = TRUE
  /\ UNCHANGED <<version, doc>>

Start ==
  /\ ~up /\ up' = TRUE
  /\ whole' \in BOOLEAN /\ served' \in Docs \cup {NoDoc}
  /\ whole' = TRUE => served' = doc
  /\ UNCHANGED <<version, doc>>

Next == Publish \/ Stop \/ Start

Spec == Init /\ [][Next]_vars
=============================================================================
