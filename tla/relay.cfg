SPECIFICATION RelayFairSpec
CONSTANT Nothing = Nothing
INVARIANTS
  RelayInv
  OutcomeTrue
  RunsAtMostOnce
  SessionsEnded
PROPERTY CallEnds
