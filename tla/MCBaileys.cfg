SPECIFICATION ClientSpec
CONSTANTS
  Debounced = TRUE
  Reconnects = TRUE
  Restartable = TRUE
  Follows <- Anything
  Kinds <- CloseReasons
  MaxAttempts <- NoLimit
  AttemptCap = 1
  Sockets = {s1, s2}
  NoSocket = none
  PhoneNumber = TRUE
  MaxCalls = 2
SYMMETRY Interchangeable
INVARIANTS
  OneSocketUnlessDisturbed
  ReadyIsTrue
PROPERTIES
  KeepsToProtocol
CHECK_DEADLOCK FALSE
