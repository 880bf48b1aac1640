\* A refresh fails or succeeds under a request.
CONSTANTS
  NoDoc = NoDoc
  Nobody = Nobody
  Docs = {d1, d2}
  Requests = {r1}
  Jobs = {j1}
  Faults = {}
  MaxRuns = 3
  MaxIds = 1
SPECIFICATION Spec
INVARIANTS StaleHeaders
CHECK_DEADLOCK FALSE
