-------------------------- MODULE MC_EventStream --------------------------
(***************************************************************************)
(* Module EventStream on small instances.                                  *)
(***************************************************************************)
EXTENDS EventStream
=============================================================================
