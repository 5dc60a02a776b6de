SPECIFICATION Spec
CHECK_DEADLOCK FALSE
SYMMETRY RequestSymmetry
CONSTANTS
  r1 = r1
  r2 = r2
  Requests = {r1, r2}
  Snapshots = {s0}
  EmptySnapshot = s0
  NoRequest = NoRequest
  Calls = {c1}
  NoCall = NoCall
  Keys = {"k1"}
  FactUpdates <- FreshnessFacts
  MaxTasks = 2
  AppendRoles = {"document"}
  MaxMessages = 3
  MaxAliases = 0
  MaxBatch = 1
  MaxRevision = 2
  MaxVersion = 2
  Inputs <- FreshnessInputs
  Replies <- FreshnessReplies
  NoReply = NoReply
  NoSnapshot = NoSnapshot
  Args = {a1}
  Results = {x1}
  NoResult = NoResult
  Payloads = {}
  Responses = {}
  Ttls = {}
  Operators = {}
  NoPlan = NoPlan
  MaxGeneration = 1
  MaxTime = 0
INVARIANTS ActiveTaskIsOpen
PROPERTIES ActsOnlyOnSeenMemory StaleForever
