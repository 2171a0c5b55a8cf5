\* Calls of two profiles while the person edits the clients file.
CONSTANTS
  c1 = c1  c2 = c2  c3 = c3
  bfs = bfs  sas = sas
  k1 = k1  k2 = k2
  s1 = s1  s2 = s2
  Calls = {c1, c2, c3}
  Profiles = {bfs, sas}
  ProfileOf <- MCProfileOf
  Clients = {k1, k2}
  Secrets = {s1, s2}
  SecretOf <- MCSecretOf
  Own <- MCOwn
  Shared = s2
  Margin = 1
  Life = 2
  MaxTime = 1
  None = None
SPECIFICATION Spec
SYMMETRY Symmetry
INVARIANT TokenOfTheProfile
PROPERTY ReusedTokensLast
