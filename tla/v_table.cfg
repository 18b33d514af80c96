SPECIFICATION Spec
CONSTANTS
  r1 = r1
  r2 = r2
  r3 = r3
  r4 = r4
  a1 = a1
  a2 = a2
  b = b
  c = c
  d = d
  Req = {r1, r2, r3, r4}
  File = {a1, a2, b, c, d}
  Ino <- InoValues
  Size = 4
  UseMax = 2
  NoFile = NoFile
  NoEntry = NoEntry
INVARIANT TableLimit
