SPECIFICATION Spec
CONSTANTS
  LastDay = 3
  Picks <- TwoStays
  OtherStays <- LastNight
  Seasons <- TwoStays
  Prices = {1, 2}
  MinStays = {1, 3}
  MaxSubmits = 2
  MaxHolds = 1
  MaxEdits = 1
  MaxFaults = 1
  None = None
INVARIANTS PriceShownIsForThisStay QuoteArithmetic LapsedMeansLapsed
PROPERTIES QuoteIsHonoured NeverLeftWaiting
CHECK_DEADLOCK FALSE
