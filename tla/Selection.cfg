SPECIFICATION Spec
CONSTANTS
  Alphabet <- FourCodes
  Tier <- Tiers
  Vi = "vi"
  Original = "ko"
  Priority <- English
  Overrides <- ChineseLists
  Reported = {"ko", "zh"}
  LocalPath = TRUE
  MaxWrites = 4
  MaxRemovals = 1
  MaxOverrides = 2
  MaxFailures = 1
  MaxTimes = 2
  Absent = Absent
INVARIANTS
  TypeOK
  ResultIsWanted

  
CHECK_DEADLOCK FALSE
