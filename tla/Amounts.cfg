\* One digit before the point and two behind it.
CONSTANTS
  Whole = 1
  Fraction = 2
  Inputs <- AnyDecimal
SPECIFICATION AmountsSpec
CHECK_DEADLOCK FALSE
INVARIANTS ColumnsHoldTheAccepted
