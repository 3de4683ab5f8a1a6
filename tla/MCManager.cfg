SPECIFICATION Spec
CONSTANTS
  Names = {n1, n2}
  Configs = {c1}
  Adapters = {a1, a2}
  Slots = {t1, t2}
  Faults = TRUE
  Absent = absent
  Torn = torn
SYMMETRY Interchangeable
INVARIANTS
  RegistryIsSound
  KeptAcrossCrashes
  QuietMeansAgreed
CHECK_DEADLOCK FALSE
