SPECIFICATION HostsSpec
CHECK_DEADLOCK FALSE
SYMMETRY HostSymmetry
CONSTANTS
  r1 = r1
  Requests = {r1}
  Snapshots = {s0}
  EmptySnapshot = s0
  NoRequest = NoRequest
  Calls = {c1, c2}
  NoCall = NoCall
  Keys = {}
  FactUpdates = {}
  MaxTasks = 1
  AppendRoles = {}
  MaxMessages = 4
  MaxAliases = 0
  MaxBatch = 1
  MaxRevision = 2
  MaxVersion = 1
  Inputs <- HostInputs
  Replies <- HostReplies
  NoReply = NoReply
  NoSnapshot = NoSnapshot
  Args = {a1}
  Results = {x1}
  NoResult = NoResult
  Payloads <- HostPayloads
  Responses = {call, final}
  Ttls = {1}
  Operators = {}
  NoPlan = NoPlan
  MaxGeneration = 3
  MaxTime = 1
  c1 = c1
  c2 = c2
  FinalResponses = {final}
  NoResponse = NoResponse
  NoLease = NoLease
  Rounds <- TwoRounds
  h1 = h1
  h2 = h2
  Hosts = {h1, h2}
  HttpHosts = {h1, h2}
  RetryUnknown = FALSE
  MaxCrashes = 1
INVARIANT OneEffectPerIntent
