\* Two orders interleaved, two settlement workers, two faults.
CONSTANTS
  Orders = {1, 2}
  Copies = {0}
  Prices = {p1}
  Codes = {c1}
  None = None
  Dispatchers = {d1}
  Pricers = {w1}
  Settlers = {s1, s2}
  MaxFaults = 2
SPECIFICATION FairSpec
CHECK_DEADLOCK FALSE
PROPERTIES EveryOrderConcludes
