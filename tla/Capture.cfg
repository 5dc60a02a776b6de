SPECIFICATION FairSpec
CHECK_DEADLOCK FALSE
CONSTANTS
  a = a
  b = b
  c = c
  z = z
  g = g
  s1 = s1
  k1 = k1
  w1 = w1
  h1 = h1
  h2 = h2
  Processes = {h1}
  Paths = {w1}
  Sessions = {s1}
  WiresOf <- OneWire
  Turns = {k1}
  PromptOf <- Prompts
  NoTurn = NoTurn
  NoPath = NoPath
  Groups = {g}
  Alone = Alone
  Texts = {a, b, c}
  Versions = {1, 2}
  Extracted <- TwoParsers
  HeadLines = 2
  PassCap = 1
  SeenCap = 1
  HashCap = 1
  CursorCap = 1
  MaxHealPasses = 3
  Replacements = {}
  Repeats = FALSE
  Deadlines = FALSE
  MaxTasks = 1
  MaxLines = 3
  MaxWrites = 3
  MaxReplacements = 0
  MaxAborts = 0
  MaxRows = 9
INVARIANTS TypeOK SavedMeansStored NothingSkipped RescanAddsOnlyNew EmptyPassIsProof TurnSavedOnce
PROPERTIES Captured
