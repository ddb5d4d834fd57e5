CONSTANTS
  Proc = {p1, p2}
  Times = {1, 2}
  Values = {1, 2}
  Inodes = {i1, i2, i3, i4}
  Stamps = {1, 2}
  AppendInputs <- MCAppendInputs
  ReplaceInputs <- MCReplaceInputs
  UpsertInputs <- MCUpsertInputs
  LegacyRows <- MCLegacyRows
  MaxOps = 2
  Nil = Nil
SPECIFICATION Spec
CHECK_DEADLOCK FALSE
INVARIANT OpenNeverFails
