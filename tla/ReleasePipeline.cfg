CONSTANTS
  Runs = {r1, r2}
  MaxAttempts = 2
  NoRelease = NoRelease
SPECIFICATION FairSpec
INVARIANTS
  NothingWithoutVerifiedTag
  NoReplacement
PROPERTIES
  PublishEarned
  DraftBlocksPublish
  ActiveRunConcludes
CHECK_DEADLOCK FALSE
