SPECIFICATION FairSpec
CHECK_DEADLOCK FALSE
CONSTANTS
  r1 = r1
  r2 = r2
  Requests = {r1, r2}
  NoRequest = NoRequest
  MaxSessions = 2
  MaxCalls = 3
INVARIANTS KnownOutcome OneProcessAtWork
PROPERTIES ImplementsOutcome CallReturns
