SPECIFICATION Spec
CHECK_DEADLOCK FALSE
SYMMETRY RequestSymmetry
CONSTANTS
  r1 = r1
  r2 = r2
  Requests = {r1, r2}
  Snapshots = {"s0", "s1"}
  EmptySnapshot = "s0"
  NoRequest = NoRequest
  Calls = {c1}
  NoCall = NoCall
  Keys = {"k1"}
  FactUpdates = {}
  MaxTasks = 1
  AppendRoles = {}
  MaxMessages = 4
  MaxAliases = 0
  MaxBatch = 1
  MaxRevision = 3
  MaxVersion = 2
  Inputs <- TurnInputs
  Replies <- TurnReplies
  NoReply = NoReply
  NoSnapshot = NoSnapshot
  Args = {a1}
  Results = {x1}
  NoResult = NoResult
  Payloads <- TurnPayloads
  Responses = {y1}
  Ttls = {1}
  Operators = {}
  NoPlan = NoPlan
  MaxGeneration = 2
  MaxTime = 0
INVARIANTS CommittedToolsAreResolved OnePendingPerTask FactsAreHistories
PROPERTIES EndedJournalIsFrozen CommitReplacesWhatItSaw
