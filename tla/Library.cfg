SPECIFICATION FairSpec
CONSTANTS
  ja = ja
  en = en
  ko = ko
  Priority <- ThreeSources
  Lanes = {series}
  Home = series
  MaxWrites = 3
  MaxForeign = 1
  MaxRemovals = 1
  MaxManual = 1
  MaxFailures = 1
  MaxCrashes = 1
  Nobody = Nobody
  Foreign = Foreign
INVARIANTS
  TypeOK
  OwnOutputKnown
  SkippedIsCurrent
PROPERTY
  UntouchedStays
  Converges
CHECK_DEADLOCK FALSE
