-------------------------- MODULE MC_VersionStore ---------------------------
(* Small instances of VersionStore; the .cfg files give the constants. *)
EXTENDS VersionStore, TLC

\* Documents and directories are only compared and chosen from their sets.
Alike == Permutations(Docs) \cup Permutations(Dirs)

\* Bound: the faults of boots cost version 2 its files, and no other; it is hit
\* as the newest, as an older retained and as a pruned version.
OneVersionHit ==
  lost \cup left \cup (IF up = "serving" THEN adrift ELSE {}) \subseteq {2}
=============================================================================
