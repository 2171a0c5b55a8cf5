\* A command, and a put and two gets that meet on a file of the drop folder, with the
\* agent and restarts around them.  Liveness: no symmetry.
CONSTANTS
  p1 = p1
  Commands = {e1}
  Puts = {u1}
  Gets = {g1, g2}
  Paths = {p1}
  FilesOf <- MCFilesOf
  LocalOf <- MCLocalOf
  Size = 1
  None = None
SPECIFICATION FairSpec
INVARIANTS SasInv LockoutAvoided SendsOnlyTheFiles ErrorsLeaveFiles
PROPERTIES CopiesWhole CallsEnd
