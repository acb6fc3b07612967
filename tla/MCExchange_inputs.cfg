CONSTANTS
  Nil = Nil
  Inits = {i1}
  Resps = {r1}
  InitInputs <- AliceVariants
  RespInputs <- BobVariants
  Faults = {}
SPECIFICATION FairSpec
CHECK_DEADLOCK FALSE
INVARIANTS
  FailsOnlyForCause
  Agreement
PROPERTIES
  EventuallyConfirmed
