SPECIFICATION Spec
CONSTANTS
  NaN = NaN
  NotYet = NotYet
  a = a
  b = b
  KeyOrder <- Ordered
  Documents <- MCDocuments
  Height <- MCHeight
INVARIANTS
  DifferencesAreExact
CHECK_DEADLOCK FALSE
