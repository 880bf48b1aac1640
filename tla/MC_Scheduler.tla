---------------------------- MODULE MC_Scheduler ----------------------------
\* Scheduler for TLC.
EXTENDS Scheduler, TLC

Plan(type, day, time, hours) ==
  [type |-> type, dom |-> IF type = "monthly" THEN day ELSE None,
   dow |-> IF type = "weekly" THEN day ELSE None, time |-> time, hours |-> hours]

Weekly == Plan("weekly", 1, "03:00", None)
Interval == Plan("interval", None, None, 6)

\* Validation lets pass an interval without hours.
NoHours == Plan("interval", None, None, None)
Mixed == {Weekly, Interval, NoHours}

\* Nor does it ask for a day, or read the time.
Odd == {Disabled, NoHours, Plan("monthly", 31, "03:00", None),
        Plan("monthly", None, "03:00", None), Plan("weekly", None, None, None),
        Plan("daily", None, "ab:cd", None)}

Interchangeable == Permutations(Threads)
=============================================================================
