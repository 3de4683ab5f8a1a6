\* Images, prompts, cards and forms of a dashboard with one page open.
SPECIFICATION MCSpec
CONSTANTS
  Absent = Absent
  Names = {n1, n2}
  First = n1
  Adapters = {a1, a2}
  Qrs = {q1, q2}
  OtherQr = q2
  Parts = {"images", "prompts", "cards", "results", "forms"}
  Prefixes = {"!", "?"}
  Slots = {t1, t2}
  Passes = {r1, r2}
  MaxAsked = 2
  MaxStream = 2
  Faults = TRUE
SYMMETRY MCSymmetry
INVARIANTS
  ImageIsCurrent
  PromptsAgree
  RunningIsKnown
  PageFollows
CHECK_DEADLOCK FALSE
