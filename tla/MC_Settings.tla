---------------------------- MODULE MC_Settings ----------------------------
(***************************************************************************)
(* Module Settings on small instances.                                     *)
(***************************************************************************)
EXTENDS Settings
=============================================================================
