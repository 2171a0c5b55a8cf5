\* An area created by Mediator, whose answer can't be read.
CONSTANTS
  w1 = w1  w2 = w2
  r1 = r1  r2 = r2  r3 = r3
  Queries = {}
  Writes = {}
  Runs = {p1}
  Rows = {r1, r2, r3}
  Targets <- MCTargets
  Expected <- MCExpected
  None = None
CHECK_DEADLOCK FALSE
SPECIFICATION Spec
INVARIANT AreaTold
