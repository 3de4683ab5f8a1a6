SPECIFICATION FairSpec
CONSTANTS
  Debounced = TRUE
  Reconnects = TRUE
  Restartable = TRUE
  Follows <- KnownFollows
  Kinds <- Reasons
  MaxAttempts = 2
  AttemptCap = 3
INVARIANTS
  IInv
  RetriesBounded
  UpIsTold
PROPERTIES
  RetryOnlyOverDeadSession
  AnnouncesWhatIsSo
  DropIsRetried
  KeepsPromise
CHECK_DEADLOCK FALSE
