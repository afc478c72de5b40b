SPECIFICATION Spec
CONSTANTS
  said = said
  set = set
  c = c
  elan = elan
  Elan = Elan
  Workers = {w1}
  Lane <- MCLane
  PrimaryKey = 2
  Requests = {r1}
  Title = title
  Names = {elan}
  Key <- MCKey
  Plain = {elan}
  Values = {said, set, c}
  Blank = blank
  Given <- MCGiven
  Typed <- MCTyped
  Nobody = nobody
  MaxMerges = 2
  MaxWrites = 3
  MaxRequests = 2
  MaxFailures = 0

PROPERTIES LockedKept
CHECK_DEADLOCK FALSE
