SPECIFICATION Spec
CONSTANTS
  Proc = {p1, p2}
  Doc = {1, 2}
  MaxEdits = 2
INVARIANTS
  ManifestWhole
  NoLitter
  VerdictBySource
CHECK_DEADLOCK FALSE
