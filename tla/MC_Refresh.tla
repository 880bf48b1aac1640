---------------------------- MODULE MC_Refresh ----------------------------
(***************************************************************************)
(* Module Refresh on small instances.  No definition tells one content or  *)
(* one request thread from another: the invariants are checked up to their *)
(* permutation.                                                            *)
(***************************************************************************)
EXTENDS Refresh, TLC

Interchangeable == Permutations(Docs) \cup Permutations(Requests)
=============================================================================
