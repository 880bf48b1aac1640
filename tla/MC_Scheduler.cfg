\* Two overlapping requests on two provider ids, with schedules that lack something.
CONSTANTS
  Threads = {t1, t2}
  Times = {"03:00", "ab:cd"}
  Malformed = {"ab:cd"}
  None = None
  Asked <- Mixed
  MaxId = 2
SPECIFICATION Spec
INVARIANTS JobsMatch IInv
SYMMETRY Interchangeable
