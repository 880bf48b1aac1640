\* Two streams with queues of two events, four events: a stream lags, is cut
\* off, hangs up and opens again, and the process is asked to stop.
CONSTANTS
  Clients = {c1, c2}
  Capacity = 2
  MaxEvents = 4
SPECIFICATION FairSpec
INVARIANTS TypeOK NoGaps
PROPERTIES StreamsEnd QueuedSent NoneLeft
CHECK_DEADLOCK FALSE
