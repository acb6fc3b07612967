CONSTANTS
  Procs = {g1, g2}
  NoProc = NoProc
  Lengths <- EdgeLengths
SPECIFICATION FairSpec
INVARIANTS
  TypeOK
  NoExportOfWipedKey
  CloseReturnsWiped
PROPERTIES
  ImplementsHandle
  EveryCallReturns
