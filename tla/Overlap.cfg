SPECIFICATION Spec
CHECK_DEADLOCK FALSE
CONSTANTS
  a = a
  b = b
  c = c
  z = z
  g = g
  s1 = s1
  k1 = k1
  w1 = w1
  h1 = h1
  h2 = h2
  Processes = {h1, h2}
  Paths = {w1}
  Sessions = {s1}
  WiresOf <- OneWire
  Turns = {k1}
  PromptOf <- Prompts
  NoTurn = NoTurn
  NoPath = NoPath
  Groups = {g}
  Alone = Alone
  Texts = {a, z}
  Versions = {1}
  Extracted <- OneParser
  HeadLines = 1
  PassCap = 1
  SeenCap = 1
  HashCap = 1
  CursorCap = 1
  MaxHealPasses = 3
  Replacements <- OtherFile
  Repeats = FALSE
  Deadlines = TRUE
  MaxTasks = 1
  MaxLines = 3
  MaxWrites = 2
  MaxReplacements = 1
  MaxAborts = 1
  MaxRows = 2
SYMMETRY Symmetric
INVARIANTS SavedMeansStored NothingSkipped EmptyPassIsProof
