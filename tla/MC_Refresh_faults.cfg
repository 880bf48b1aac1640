\* Everything that can go wrong at once, under weak fairness of every thread.
CONSTANTS
  NoDoc = NoDoc
  Nobody = Nobody
  Docs = {d1}
  Requests = {r1}
  Jobs = {j1}
  Faults = {"commit", "crash", "rotate", "delete"}
  MaxRuns = 2
  MaxIds = 2
SPECIFICATION FairSpec
INVARIANTS OneRefresh RunsOwned NamesCurrent
PROPERTIES RunsAdvance Answered
CHECK_DEADLOCK FALSE
