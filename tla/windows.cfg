\* Two threads, a group and a key that isn't a group, with the commands of the host.
CONSTANTS
  Groups = {g1}
  OtherKeys = {locked}
  Threads = {t1, t2}
  IdleLimit = 2
  MaxLimit = 3
  NotifyInterval = 2
  MaxTime = 3
  None = None
SPECIFICATION HFairSpec
INVARIANTS LeaseInv RefusalsAnnounced
PROPERTIES ImplementsLease EveryClosingReportedOnce NotificationsSpaced CallsReturn
