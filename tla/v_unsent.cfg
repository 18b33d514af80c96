SPECIFICATION Spec
CONSTANTS
  r1 = r1
  Req = {r1}
  Kinds = {"small"}
  MaxPipe = 1
  MaxWork = 1
  MaxConnValues = {1}
  KaMaxValues = {1}
  KaTimeout = 1
  RequestTimeout = 1
  MaxHups = 0
  MaxTerms = 0
INVARIANT NothingUnsentDropped
