\* A tab, saves from elsewhere, two keys, a cap that goes up and down, and one fault.
SPECIFICATION FairSpec
CONSTANTS
  Tabs = {tab1}
  Keys = {k1, k2}
  Caps = {1, 2}
  MaxFaults = 1
CHECK_DEADLOCK FALSE
INVARIANTS
  OnlyTheGapBreaks
  NeverOverEveryCap
PROPERTIES
  OrphansAreReclaimed
  OversizeIsEvicted
