\* Two pods, an invalid message between two valid ones, every kind of fault.
CONSTANTS
  Pods = {p1, p2}
  N = 3
  Valid = {1, 3}
  MaxExpired = 1
  MaxFaults = 3
SPECIFICATION FairSpec
CHECK_DEADLOCK FALSE
INVARIANTS PassedHadEffect
PROPERTIES ImplementsDelivery EveryMessageConcludes EveryShutdownEnds ReadyAgain
