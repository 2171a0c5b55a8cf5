\* Decisions, timeouts and allowances of three calls, in any order.  Liveness: no symmetry.
CONSTANTS
  c1 = c1  c2 = c2  c3 = c3
  agent1 = agent1  agent2 = agent2  tool = tool  group = group
  Calls <- MCCalls
  KeyOf <- MCKeyOf
  Timeout = 1
  Allowances = {1}
  MaxTime = 1
  None = None
SPECIFICATION FairSpec
INVARIANTS ApprovalsInv LastAnswerHolds
PROPERTIES AllowanceAnnounced AnswerEndsTheWait
