\* Two threads, a purge and clears around three events, under fairness of the
\* threads and the purge.
CONSTANTS
  Threads = {t1, t2}
  MaxLines = 3
SPECIFICATION FairSpec
INVARIANTS OnceEach SoloExact
PROPERTY OldLeave
CHECK_DEADLOCK FALSE
