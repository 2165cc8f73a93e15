\* A capture that is first held for review.
SPECIFICATION Spec
CONSTANTS
  Bookings = {b1}
  Orders = {o1}
  Payers = {p1}
  Handlers = {h1}
  Readers = {}
  Keys = {k1}
  Attempts = 1
  ProviderMay = {"challenge"}
  MaxFaults = 0
  None = none
CHECK_DEADLOCK FALSE
PROPERTIES
  SettlementIsNoDuplicate
