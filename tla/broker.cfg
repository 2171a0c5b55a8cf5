\* Loads, locks and commands of two admins against a request of any kind.
CONSTANTS
  host = host  org = org  repo = repo  other = other  owner = owner
  Parts = {host, org, repo, other}
  Owners = {owner, other}
  Requests = {request}
  Wants <- MCWants
  Files <- MCFiles
  Admins = {admin1, admin2}
  Locked = locked
  IdleLimit = 1
  MaxLimit = 2
  NotifyInterval = 9
  MaxTime = 2
  None = None
SPECIFICATION HSpec
SYMMETRY Symmetry
INVARIANTS BrokerInv GroupsFollowSecrets AnswersFitOneFile
