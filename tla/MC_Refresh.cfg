\* A request and a job while commits fail, the process dies, the token rotates.
CONSTANTS
  NoDoc = NoDoc
  Nobody = Nobody
  Docs = {d1, d2}
  Requests = {r1}
  Jobs = {j1}
  Faults = {"commit", "crash", "rotate"}
  MaxRuns = 3
  MaxIds = 2
SPECIFICATION Spec
INVARIANTS LastGoodServed HealthBacked NeverOlder IInv
PROPERTY ServesLastGood
CHECK_DEADLOCK FALSE
