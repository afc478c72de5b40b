SPECIFICATION Spec
CONSTANTS
  Paths = {p1, p2}
  Local = local
  Values = {local}
  Unset = unset
  Bad = bad
  Mask = mask
  Env <- MCEnv
  MaxStarts = 3
  MaxPuts = 2
  MaxRecords = 1
  MaxFaults = 2
INVARIANTS TypeOK EntriesSurvive MaskIsNoSecret AppIsFile
PROPERTIES NewerKept
CHECK_DEADLOCK FALSE
SYMMETRY MCSymmetry
