SPECIFICATION Spec
CONSTANTS
  IntMax = 7
  UIntMax = 15
  ULongMax = 63
  Digits = {1, 5, 7}
  FileSizes = {1, 6, 18}
  MaxInput = 6
  MaxHeaders = 2
INVARIANTS TypeOK InsideFile NoRangeLost PartsAreWhole AnswersTheHeader
