CONSTANTS
  Nil = Nil
  Inits = {i1}
  Resps = {r1}
  InitInputs <- AliceInputs
  RespInputs <- BobInputs
  Faults = {}
SPECIFICATION Spec
CHECK_DEADLOCK FALSE
INVARIANTS
  SessionOnlyAfterBothConfirmed
