\* Two names, a ring of three slots, two retained versions, one slow reader:
\* the versions wrap the ring, a prune in a row can be cut short, and a reader's
\* row can be pruned while its file must stay.
CONSTANTS
  NoDoc = NoDoc
  Legacy = Legacy
  Docs = {d1, d2}
  Dirs = {A, B}
  Readers = {r1}
  Slots = 3
  Retention = 2
  PruneSpan = 3
  MaxSeq = 4
  MaxSpan = 3
  Faults = {"move", "migration"}
SPECIFICATION Spec
INVARIANTS NewestIntact PrunedToRetention ReadersIntact IInv
PROPERTIES MigrationHeals ServesLastGood
SYMMETRY Alike
CONSTRAINT OneVersionHit
CHECK_DEADLOCK FALSE
