CONSTANTS
  Base = 2
  wireFormatV1 = 3
  wireSuite = 2
  messageSpecs <- SmallSpecs
  maxMessageLength = 14
  maxLEB128BytesForField = 2
  Alphabet <- Bytes4
  Buffers <- SmallBuffers
SPECIFICATION Spec
CHECK_DEADLOCK FALSE
INVARIANTS
  ConsumedIsEncoded
  AcceptsExactlyEncodings
