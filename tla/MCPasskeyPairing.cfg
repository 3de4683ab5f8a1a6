\* Two prologues on up to three sockets.  It stops when the sockets are used up.
SPECIFICATION Spec
CONSTANTS
  MaxSockets = 3
  MaxPrologues = 2
INVARIANTS
  SecretsAreSound
  PendingIsWaiting
  EndIsToldOnce
CHECK_DEADLOCK FALSE
