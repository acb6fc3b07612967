CONSTANTS
  Nil = Nil
  Inits = {i1, i2}
  Resps = {r1, r2}
  InitInputs <- AliceInputs
  RespInputs <- BobInputs
  Faults = {"close", "randomness", "misdeliver", "splice"}
SPECIFICATION Spec
SYMMETRY Symmetry
CHECK_DEADLOCK FALSE
INVARIANTS
  Agreement
  SessionsPairUp
  NoScalarWasted
PROPERTIES
  DecidedOnce
