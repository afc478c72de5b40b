SPECIFICATION Spec
CONSTANTS
  p1 = p1
  p2 = p2
  s1 = s1
  movies = movies
  Paths <- OnePath
  LockKeys <- Keys
  NoSeries = movies
  SeriesOf <- OneSeries
  Callers = {c1, c2}
  Slots = {t1, t2}
  MaxJobs = 4
  MaxCrashes = 1
  MaxManual = 0
  JobMaxAutoAttempts = 2
  JobAutoRetryMax = 2
  NoPath = NoPath
  NoSlot = NoSlot
SYMMETRY Sym
INVARIANTS
  SeriesExclusion
  RunningIsExecuted
  AutoBudget
  AutoRetryBudget
CHECK_DEADLOCK FALSE
