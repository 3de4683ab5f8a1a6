SPECIFICATION Spec
CONSTANTS
  Names = {n1, n2}
  Configs = {c1}
  Adapters = {a1, a2}
  Slots = {t1}
  Faults = FALSE
  Absent = absent
  Torn = torn
SYMMETRY Interchangeable
PROPERTIES SyncDestroysOnlyRemoved
CHECK_DEADLOCK FALSE
