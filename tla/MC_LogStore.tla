---------------------------- MODULE MC_LogStore ----------------------------
(***************************************************************************)
(* Module LogStore on small instances.                                     *)
(***************************************************************************)
EXTENDS LogStore
=============================================================================
