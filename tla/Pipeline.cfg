SPECIFICATION FairSpec
CONSTANTS
  A = a
  B = b
  Intimate = intimate
  Neutral = neutral
  Characters <- MCCharacters
  Terms <- MCTerms
  NoTerms = noterms
  SafeTerms = neutral
  Reciprocal <- MCReciprocal
  NoPair = nopair
  Budget = 3
  ViPercent = 50
  Cases <- MCCases
  Limit = 2
  CanSay = {"vi", "echo", "scaffold"}
  CanMean <- MCCanMean
  CanHappen <- MCCanHappen
  MaxFaults = 1
  MaxEdits = 1
  EditStages = {"reconcile"}
INVARIANTS TypeOK OwnText HintsOwn EnvelopesKept SlotsAccounted
PROPERTIES  Implements RunEnds
CHECK_DEADLOCK FALSE
