------------------------------ MODULE MC_UiLog ------------------------------
(***************************************************************************)
(* Module UiLog for TLC.                                                   *)
(***************************************************************************)
EXTENDS UiLog
=============================================================================
