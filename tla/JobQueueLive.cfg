SPECIFICATION FairSpec
CONSTANTS
  p1 = p1
  p2 = p2
  s1 = s1
  movies = movies
  Paths <- TwoPaths
  LockKeys <- Keys
  NoSeries = movies
  SeriesOf <- SameSeries
  Callers = {c1}
  Slots = {t1, t2}
  MaxJobs = 2
  MaxCrashes = 1
  MaxManual = 0
  JobMaxAutoAttempts = 2
  JobAutoRetryMax = 2
  NoPath = NoPath
  NoSlot = NoSlot
PROPERTY
  JobsFinish
CHECK_DEADLOCK FALSE
