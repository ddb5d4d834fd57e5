CONSTANTS
  Proc = {p1, p2}
  Times = {1, 2}
  Values = {1, 2}
  Inodes = {i1, i2, i3}
  Stamps = {1, 2}
  AppendInputs <- MCAppendInputs
  ReplaceInputs <- MCReplaceInputs
  UpsertInputs = {}
  LegacyRows <- MCLegacyRows
  MaxOps = 2
  Nil = Nil
  MaxEdits = 1
SPECIFICATION EditedSpec
CHECK_DEADLOCK FALSE
PROPERTIES
  EditsAreDetected
  OperationsEnd
