\* One tab, two workspaces; the query keys are followed one by one.
SPECIFICATION FairSpec
CONSTANTS
  Tenants = {t1, t2}
  Watched <- FollowedKeys
  MaxEvents = 2
  None = none
CHECK_DEADLOCK FALSE
INVARIANTS
  OwnWritesAreShown
  SwitcherMixesNothing
PROPERTIES
  DeadSessionEndsAtLogin
