SPECIFICATION Spec
CONSTANTS
  ja = ja
  en = en
  ko = ko
  Priority <- ThreeSources
  Lanes = {series}
  Home = series
  MaxWrites = 3
  MaxForeign = 0
  MaxRemovals = 0
  MaxManual = 0
  MaxFailures = 0
  MaxCrashes = 0
  Nobody = Nobody
  Foreign = Foreign
INVARIANT
  SweepsSurvive
CHECK_DEADLOCK FALSE
