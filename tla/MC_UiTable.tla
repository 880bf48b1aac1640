----------------------------- MODULE MC_UiTable -----------------------------
(***************************************************************************)
(* Module UiTable on small instances.                                      *)
(***************************************************************************)
EXTENDS UiTable
=============================================================================
