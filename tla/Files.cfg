SPECIFICATION Spec
CHECK_DEADLOCK FALSE
SYMMETRY ProcessSymmetry
CONSTANTS
  p1 = p1
  p2 = p2
  i1 = i1
  backup = backup
  Processes = {p1, p2}
  Ids = {i1}
  Null = Null
  Names = {backup}
  Foreign = Foreign
  MaxFiles = 2
INVARIANTS ServesWholeJournal RetiredStaysRetired ReservationsEnd
PROPERTIES NoTurnLost FilesStayAccepted ImplementsNewFile
