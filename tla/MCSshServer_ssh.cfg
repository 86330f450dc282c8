\* Three connections, any number of sessions: the counter wraps early.
CONSTANTS
  Conns = {c1, c2, c3}
  MaxPipelined = 1
  LastId = 1
  Serves = TRUE
  ExecFaults = TRUE
SPECIFICATION FairSpec
INVARIANTS TypeOK DistinctSessions
PROPERTIES EveryRequestIsAnswered GoneClientsAreForgotten
