CONSTANTS
  k1 = k1
  k2 = k2
  t1 = t1
  t2 = t2
  Keys <- TwoKeys
  Tasks <- TwoTasks
  Probing <- OneProbe
  TTL = 1
  MemoTTL = 2
  FailureTTL = 1
  PurgeAge = 2
  MaxTime = 3
SPECIFICATION FairCacheSpec
INVARIANTS
  LabelsBoundAge
PROPERTIES
  OneRequestPerLifetime
  EveryLegAnswered
