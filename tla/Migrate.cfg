\* A run nobody cuts with two others that are, of five releases.
CONSTANTS
  Runs = {r1, r2, r3}
  N = 2
  Sums = {"one", "two", "changed"}
  Images <- Releases
  Cut = {r2, r3}
  None = None
SPECIFICATION FairSpec
CHECK_DEADLOCK FALSE
INVARIANTS Exclusive AppliedOnceAndRecorded OnTopOfItsOwn DoneIsMigrated
PROPERTIES UncutRunCompletes
