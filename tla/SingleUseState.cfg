CONSTANTS
  Procs = {g1, g2}
  NoProc = NoProc
SPECIFICATION FairSpec
INVARIANTS
  NoReadAfterWipe
  SpentIsReleased
  VerdictByMessage
PROPERTIES
  ImplementsOnce
  EveryCallReturns
  SecretsEventuallyReleased
