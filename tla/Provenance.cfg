SPECIFICATION Spec
CHECK_DEADLOCK FALSE
SYMMETRY RequestSymmetry
CONSTANTS
  r1 = r1
  r2 = r2
  Requests = {r1, r2}
  Snapshots = {"s0", "s1"}
  EmptySnapshot = "s0"
  NoRequest = NoRequest
  Calls = {}
  NoCall = NoCall
  Keys = {"k1"}
  FactUpdates <- AssertThenWithdraw
  MaxTasks = 1
  AppendRoles = {"document"}
  MaxMessages = 4
  MaxAliases = 0
  MaxBatch = 1
  MaxRevision = 2
  MaxVersion = 2
  Inputs <- ProvenanceInputs
  Replies <- ProvenanceReplies
  NoReply = NoReply
  NoSnapshot = NoSnapshot
  Args = {a1}
  Results = {x1}
  NoResult = NoResult
  Payloads = {}
  Responses = {}
  Ttls = {}
  Operators = {}
  NoPlan = NoPlan
  MaxGeneration = 1
  MaxTime = 0
PROPERTY RetractedSourcesAreRefused
