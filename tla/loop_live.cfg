SPECIFICATION FairSpec
CONSTANTS
  r1 = r1
  r2 = r2
  Req = {r1, r2}
  Kinds = {"small", "post"}
  MaxPipe = 1
  MaxWork = 1
  MaxConnValues = {1}
  KaMaxValues = {1}
  KaTimeout = 1
  RequestTimeout = 0
  MaxHups = 0
  MaxTerms = 1
INVARIANT WatchedExactly
PROPERTIES NoSleeperForgotten LameDuckEnds
