CONSTANTS
  Keys = {k1}
  MainStores = {m1, m2}
  WriteOnlyStores = {w1}
  NumShards = 1
  RowIds = {1, 2, 3, 4}
  MinAge = 1
  MaxRetries = 2
  MaxFaults = 1
  Puts = {p1}
  WriteQuorum = 1
  PutTimeout = 1
  Healers = {h1}
  FirstShard <- FromFirst
  LastShard <- ToLast
  BatchSize = 2
  DrainOnly = FALSE
SPECIFICATION FairSpec
INVARIANT NoPartialForgotten
PROPERTIES WrittenReachesAllStores WalDrains FetchSizeRecovers
