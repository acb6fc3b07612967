CONSTANTS
  p = 229
  A = 150
  FieldBits = 8
  ScalarBits = 7
SPECIFICATION Spec
CHECK_DEADLOCK FALSE
INVARIANTS
  LadderTracksMultiples
  VerdictByShare
  GeneratorOnCurve
