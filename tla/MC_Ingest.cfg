\* Two User-Agents, two keys, every document of MC_Ingest.
CONSTANTS
  k1 = k1
  k2 = k2
  Keys = {k1, k2}
  Incomplete = Incomplete
  BadPort = BadPort
  NoDoc = NoDoc
  Trials = 2
  Docs <- SmallDocs
SPECIFICATION Spec
INVARIANTS MarkedFirst Exact RefusedForCause IInv
CHECK_DEADLOCK FALSE
