\* Two writes that meet on a row, a query and a processing run, whatever fails.
\* The calls are finite in number: the system stops when they have ended.
CONSTANTS
  w1 = w1  w2 = w2
  r1 = r1  r2 = r2  r3 = r3
  Queries = {q1}
  Writes = {w1, w2}
  Runs = {p1}
  Rows = {r1, r2, r3}
  Targets <- MCTargets
  Expected <- MCExpected
  None = None
CHECK_DEADLOCK FALSE
SPECIFICATION Spec
INVARIANTS OracleInv AreaNeverLeftSilently
PROPERTY ImplementsExactWrites
