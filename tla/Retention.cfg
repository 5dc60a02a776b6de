SPECIFICATION Spec
CHECK_DEADLOCK FALSE
SYMMETRY RequestSymmetry
CONSTANTS
  r1 = r1
  r2 = r2
  Requests = {r1, r2}
  Snapshots = {"s0"}
  EmptySnapshot = "s0"
  NoRequest = NoRequest
  Calls = {c1}
  NoCall = NoCall
  Keys = {}
  FactUpdates = {}
  MaxTasks = 1
  AppendRoles = {}
  MaxMessages = 4
  MaxAliases = 0
  MaxBatch = 1
  MaxRevision = 2
  MaxVersion = 2
  Inputs <- RetentionInputs
  Replies <- RetentionReplies
  NoReply = NoReply
  NoSnapshot = NoSnapshot
  Args = {a1}
  Results = {x1}
  NoResult = NoResult
  Payloads = {}
  Responses = {}
  Ttls = {1}
  Operators = {o1, o2}
  NoPlan = NoPlan
  MaxGeneration = 1
  MaxTime = 1
INVARIANTS TypeOK NoOrphanRows EvidenceRecordedOnce
PROPERTIES UnresolvedToolSurvives RetiresOnlyReviewed ImplementsLedger
