\* Two terminals, on the gateway and two servers.
CONSTANTS
  t1 = t1  t2 = t2  s1 = s1  s2 = s2
  Terminals = {t1, t2}
  Servers = {s1, s2}
  None = None
SPECIFICATION Spec
SYMMETRY Symmetry
INVARIANTS   FileAccounted
PROPERTY StartedListens
