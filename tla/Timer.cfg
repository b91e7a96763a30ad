CONSTANTS
  Timers = {t1, t2, t3}
  Null = null
  Life = 2
  MaxTime = 4
  MaxBack = 1
SPECIFICATION FairSpec
INVARIANTS TypeOK SortedList
PROPERTY DueIsFired
