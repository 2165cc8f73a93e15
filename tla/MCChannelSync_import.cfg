\* The cron and a click against a channel that changes.
SPECIFICATION FairSpec
CONSTANTS
  Conns = {c1}
  Uids = {u1, u2}
  Locals = {l1}
  Cron = cron
  Clicks = {n1}
  FirstFeeds <- UpToRenaming
  LastDay = 2
  MaxNights = 1
  MaxChanges = 1
  MaxFaults = 1
  None = none
CHECK_DEADLOCK FALSE
INVARIANTS
  NoDoubleBooking
PROPERTIES
  DismissalStands
  ClosedByMeasurement
  EventuallyMirrored
