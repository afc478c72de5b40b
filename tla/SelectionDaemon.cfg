SPECIFICATION Spec
CONSTANTS
  Alphabet <- ThreeCodes
  Tier <- TierOf3
  Vi = "vi"
  Original = "ko"
  Priority <- English
  Overrides <- KoreanList
  Reported = {"ko"}
  LocalPath = FALSE
  MaxWrites = 2
  MaxRemovals = 0
  MaxOverrides = 1
  MaxFailures = 0
  MaxTimes = 2
  Absent = Absent
INVARIANTS
  OverrideWins
CHECK_DEADLOCK FALSE
