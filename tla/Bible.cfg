SPECIFICATION Spec
CONSTANTS
  said = said
  set = set
  c = c
  elan = elan
  Elan = Elan
  Workers = {w1}
  Lane <- MCLane
  PrimaryKey = 2
  Requests = {r1, r2}
  Title = title
  Names = {elan, Elan}
  Key <- MCKey
  Plain = {elan}
  Values = {said, set, c}
  Blank = blank
  Given <- MCGiven
  Typed <- MCTyped
  Nobody = nobody
  MaxMerges = 2
  MaxWrites = 3
  MaxRequests = 2
  MaxFailures = 1
INVARIANTS TypeOK CharactersBounded
PROPERTIES LocksReadAreKept LocksLiftedByHand  EstablishedKept
CHECK_DEADLOCK FALSE
SYMMETRY MCSymmetry
