\* One order, two pods of every service (a rolling update), one duplicate event.
CONSTANTS
  Orders = {1}
  Copies = {0, 1}
  Prices = {p1, p2}
  Codes = {c1}
  None = None
  Dispatchers = {d1, d2}
  Pricers = {w1, w2}
  Settlers = {s1, s2}
  MaxFaults = 2
SPECIFICATION Spec
SYMMETRY Symmetry
CHECK_DEADLOCK FALSE
INVARIANTS NoPhantomEvent AckedIsProcessed NeverStranded ViewConsistent AuditMatchesOutcome FirstQuoteWins
PROPERTIES ImplementsLifecycle
