SPECIFICATION Spec
CONSTANTS
  r1 = r1
  r2 = r2
  Req = {r1, r2}
  Kinds = {"small", "script", "work"}
  MaxPipe = 1
  MaxWork = 1
  MaxConnValues = {1, 2}
  KaMaxValues = {1}
  KaTimeout = 1
  RequestTimeout = 0
  MaxHups = 1
  MaxTerms = 0
SYMMETRY SymReq
INVARIANTS TypeOK Accounting WatchedExactly WaitsForItsCause RecognisesKeepalive
