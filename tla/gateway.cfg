\* Two requests of one tool and the commands of the host, in any order.
CONSTANTS
  c1 = c1  c2 = c2  agent = agent  tool = tool  group = group
  Requests = {c1, c2}
  Admins = {admin1}
  KeyOf <- MCKeyOf
  IdleLimit = 1
  MaxLimit = 1
  NotifyInterval = 9
  Timeout = 1
  Allowances = {1, 2}
  MaxTime = 1
  None = None
SPECIFICATION HSpec
SYMMETRY Symmetry
INVARIANTS GatewayInv ClosedAllowancesForgotten
PROPERTY ImplementsConsent
