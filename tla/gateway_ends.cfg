\* Liveness: a request of any kind, with nobody bound to decide.
CONSTANTS
  c1 = c1  c2 = c2  agent = agent  tool = tool  group = group
  Requests = {c1}
  Admins = {admin1}
  KeyOf <- MCKeyOf
  IdleLimit = 2
  MaxLimit = 3
  NotifyInterval = 9
  Timeout = 1
  Allowances = {1}
  MaxTime = 3
  None = None
SPECIFICATION FairSpec
PROPERTY EveryRequestEnds
