CONSTANTS
  Base = 128
  Calls <- EdgeCalls
SPECIFICATION MemorySpec
CHECK_DEADLOCK FALSE
INVARIANTS
  KeptIntact
  NoSecretLeft
  NothingSpilled
  ReadsBack
  BlockFilled
