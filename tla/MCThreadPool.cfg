SPECIFICATION FairSpec
CONSTANTS
  Thread = {t1, t2, t3}
  MaxJobs = 5
  PerLaunch = 2
  NULL = NULL
CONSTRAINT UntilRaced
INVARIANTS
  TakenInOrder
  ListChangesExclusive
  PointersGood
PROPERTY
  EveryJobTaken
CHECK_DEADLOCK FALSE
