SPECIFICATION FairSpec
CONSTANTS
  Thread = {t1, t2, t3}
  MaxJobs = 3
  PerLaunch = 3
  NULL = NULL
PROPERTY
  DispatchSendsThread
CHECK_DEADLOCK FALSE
